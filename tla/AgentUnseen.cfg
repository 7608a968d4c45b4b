SPECIFICATION Spec
CONSTANTS
  Requests = {r1, r2}
  Events = {e1}
  None = None
  MaxSteps = 2
  MaxCalls = 1
  HistoryLimit = 4
  MaxShown = 1
  MaxBegun = 3
CHECK_DEADLOCK FALSE
SYMMETRY Interchangeable
INVARIANT AppliedWasOffered
