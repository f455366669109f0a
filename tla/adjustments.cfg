SPECIFICATION HSpec
CONSTANTS
  None = None
  Timed = Timed
  Permanent = Permanent
  Licenses = {Timed}
  Created = {Timed}
  Machines = {m1, m2}
  Requests = {r1}
  Handlers = {h1, h2}
  Users <- MCUsers
  Owner <- MCOwner
  Duration <- MCShort
  Day = 2
  MaxSetting = 2
  MinInstant <- MCBeforeStart
  MaxInstant = 2
  MaxTime = 1
  Faults = {}
  AdminOps = {"unbind", "adjust", "adjust_all"}
  HourInputs <- MCHours
  MaxHours = 1
  LimitInputs <- NoInputs
  MaxBatch = 1
SYMMETRY Symmetry
INVARIANTS
  NoAdjustmentIsLost
  UnusedIsUntouched
PROPERTIES
  FirstActivationSticks
  ImplementsRegistry
