SPECIFICATION PFairSpec
CONSTANTS
  None = None
  Timed = Timed
  Permanent = Permanent
  Licenses = {Permanent}
  Created = {Permanent}
  Machines = {m1, m2}
  Requests = {r1, r2}
  Handlers = {h1}
  Users <- MCUsers
  Owner <- MCOwner
  Duration <- MCShort
  Day = 1
  MaxSetting = 2
  MinInstant = 0
  MaxInstant = 6
  MaxTime = 0
  Faults = {"query", "cancel", "crash"}
  AdminOps = {"ban"}
  HourInputs <- NoInputs
  MaxHours = 1
  LimitInputs <- NoInputs
  MaxBatch = 1
  PoolSize = 2
INVARIANTS
  NoCircularWait
PROPERTIES
  EveryRequestAnswered
  EveryWriteLands
