SPECIFICATION HSpec
CONSTANTS
  None = None
  Timed = Timed
  Permanent = Permanent
  Licenses = {Permanent}
  Created = {Permanent}
  Machines = {m1, m2, m3}
  Requests = {r1, r2}
  Handlers = {h1}
  Users <- MCUsers
  Owner <- MCOwner
  Duration <- MCDuration
  Day = 1
  MaxSetting = 2
  MinInstant = 0
  MaxInstant = 4
  MaxTime = 3
  Faults = {}
  AdminOps = {"settings"}
  HourInputs <- NoInputs
  MaxHours = 1
  LimitInputs <- MCLimits
  MaxBatch = 1
SYMMETRY Symmetry
INVARIANTS
  RebindWindow
