SPECIFICATION HSpec
CONSTANTS
  None = None
  Timed = Timed
  Permanent = Permanent
  Licenses = {Timed}
  Created = {Timed}
  Machines = {m1, m2}
  Requests = {r1, r2}
  Handlers = {h1}
  Users <- MCUsers
  Owner <- MCOwner
  Duration <- MCShort
  Day = 1
  MaxSetting = 2
  MinInstant = 0
  MaxInstant = 6
  MaxTime = 1
  Faults = {}
  AdminOps = {"unban", "unbind"}
  HourInputs <- NoInputs
  MaxHours = 1
  LimitInputs <- NoInputs
  MaxBatch = 1
SYMMETRY Symmetry
PROPERTIES
  FirstActivationSticks
