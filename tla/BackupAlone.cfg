SPECIFICATION Spec
CONSTANTS
  Jobs = {page}
  Overlap = FALSE
  MaxStamp = 1
  MaxFaults = 1
  Ports = {8443, 445}
  Hardware = {"old", "new"}
  Own <- v218
  Versions <- SomeVersions
  Foreign <- SomeArchives
  Past = 2
  None = None
  Torn = Torn
  NoDate = NoDate
INVARIANTS
  TypeOK
  SetsComplete
  FormatFits
  SuccessIsTrue
PROPERTY GoodSetsStay
