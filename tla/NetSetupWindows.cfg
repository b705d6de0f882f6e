SPECIFICATION Spec
CONSTANTS
  c1 = c1
  c2 = c2
  isa = isa
  Kernel <- KernelNames
  Cards = {c1, c2, isa}
  Stubborn = {}
  NoIds = {isa}
  Offered = {"ANALOG", "DHCP"}
  Given = {"GREEN", "RED", "BLUE"}
  Starts <- SomeStarts
  Greens <- SomeGreens
INVARIANTS
  TypeOK
  CardsKeepColours
  RedFollowsType
  NamesAgree
  RangeServes
