SPECIFICATION Spec
CONSTANTS
  HoursPerDay = 2
  MinutesPerHour = 4
  Days = 2
  CronMinutes = {0, 2}
  MidnightWindow = 2
  t1 = t1
  t2 = t2
  Types = {t1, t2}
  RuleLists <- ManyLists
  Runs = {r1}
  NoRun = NoRun
  Overlap = FALSE
INVARIANTS
  SearchFindsNearest
  SwitchedInTime
  LogAgrees
