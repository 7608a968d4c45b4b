SPECIFICATION Spec
CONSTANTS
  Events = {e1}
  TopicOf <- OneTopic
  Unembedded = {e1}
  Texts = {x1}
  Formats = {f1}
  Requests = {q1, q2}
  Readers = {g1}
  None = None
  MaxUpdates = 3
  MaxFaults = 0
CHECK_DEADLOCK FALSE
INVARIANTS NoSignalLeft VectorMeansSignal
