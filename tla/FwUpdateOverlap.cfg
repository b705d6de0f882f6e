SPECIFICATION Spec
CONSTANTS
  HoursPerDay = 1
  MinutesPerHour = 1
  Days = 1
  CronMinutes = {0}
  MidnightWindow = 1
  t1 = t1
  t2 = t2
  Types = {t1, t2}
  RuleLists <- FewLists
  Runs = {r1, r2}
  NoRun = NoRun
  Overlap = TRUE
SYMMETRY Alike
INVARIANTS
  TypeOK
  Whole
