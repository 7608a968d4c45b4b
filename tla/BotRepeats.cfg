SPECIFICATION Spec
CONSTANTS
  Events = {e1, e2}
  Slots = {s1, s2}
  FeedPage = 1
  SavedPage = 1
  None = None
  MaxUpdates = 6
  MaxTroubles = 2
CHECK_DEADLOCK FALSE
SYMMETRY Interchangeable
INVARIANT FeedNeverRepeats
