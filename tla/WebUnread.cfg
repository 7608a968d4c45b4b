SPECIFICATION WebSpec
CONSTANTS
  UserEvents = {e1, e2, e3, e4}
  Topics = {t1}
  Texts = {"a", "b"}
  Notes = {n1}
  Page = 2
  MaxCalls = 4
  MaxTroubles = 1
SYMMETRY Interchangeable
CHECK_DEADLOCK FALSE
INVARIANT ReadIsRead
