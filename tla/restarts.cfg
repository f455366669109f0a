SPECIFICATION WSpec
CONSTANTS
  None = None
  Timed = Timed
  Permanent = Permanent
  Licenses = {Timed}
  Created = {}
  Machines = {m1, m2}
  Requests = {r1}
  Handlers = {h1}
  Users <- MCUsers
  Owner <- MCOwner
  Duration <- MCDuration
  Day = 2
  MaxSetting = 2
  MinInstant = 0
  MaxInstant = 6
  MaxTime = 3
  Faults = {"crash", "query", "cancel"}
  AdminOps = {"create", "settings", "ban"}
  HourInputs <- NoInputs
  MaxHours = 1
  LimitInputs <- MCLimits
  MaxBatch = 1
  SeedDays = 1
  TypeInputs <- MCDays
  Hour = 1
SYMMETRY Symmetry
INVARIANTS
  ViewsTypeOK
  PagesAgree
  OnlineWereHolders
  SettingIsTheLastSubmitted
  RefusalHadCause
PROPERTIES
  ImplementsRegistry
