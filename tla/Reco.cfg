SPECIFICATION FairSpec
CONSTANTS
  Events = {e1, e2}
  TopicOf <- OneTopic
  Unembedded = {e2}
  Texts = {x1}
  Formats = {f1, f2}
  Requests = {q1, q2}
  Readers = {g1}
  None = None
  MaxUpdates = 2
  MaxFaults = 1
CHECK_DEADLOCK FALSE
INVARIANTS StaleOnlyIfExcused VectorFollowsHistory
PROPERTY EventuallyFresh
