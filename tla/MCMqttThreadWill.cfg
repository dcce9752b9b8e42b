SPECIFICATION Spec
CONSTANTS
  VehicleIds = {1, 2}
  SelfId = 1
  NoOne = NoOne
  Samples = {s1}
  NoInfo = NoInfo
  Timeout = 2
  CleanupPeriod = 3
  InboxBound = 2
INVARIANT
  LastWillRemoves
