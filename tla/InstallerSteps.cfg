SPECIFICATION Spec
CONSTANTS
  hda = hda
  hdb = hdb
  sda = sda
  sdb = sdb
  sdc = sdc
  sr0 = sr0
  NoDrive = NoDrive
  Ide <- IdeInOrder
  Disks = {sda, sdb, sdc}
  Cds = {sr0}
  Media <- MediaOf
  Size <- SizeOf
  Machines <- SomeMachines
  Options <- SomeOptions
  LangList <- SomeLanguages
  Keymaps = {"default", "other"}
  Zones = {"default", "other"}
INVARIANTS
  TypeOK
  OnlyAgreedErased
  PlanFitsChosen
  Complete
