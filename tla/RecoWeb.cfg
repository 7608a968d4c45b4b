SPECIFICATION Spec
CONSTANTS
  Events = {e1, e2}
  TopicOf <- OneTopic
  Unembedded = {e2}
  Texts = {x1}
  Formats = {f1, f2}
  Requests = {q1}
  Readers = {g1}
  None = None
  MaxUpdates = 1
  MaxFaults = 0
CHECK_DEADLOCK FALSE
INVARIANT SettingsReset
