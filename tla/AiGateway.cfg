CONSTANTS
  Unset = Unset
  Blank = Blank
  Environments <- MCEnvironments
  Users = {u1, u2}
  Requests = {1, 2}
  MaxDay = 1
  MaxFaults = 1
SPECIFICATION Spec
INVARIANTS ProcessIsWhole CapsHold
PROPERTIES EveryCallEnds
CHECK_DEADLOCK FALSE
