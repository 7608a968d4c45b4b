SPECIFICATION Spec
CONSTANTS
  Drafts = {1, 2, 3}
  SourceOf <- TwoSources
  UrlOf <- ThirdIsFirst
  StoryOf <- LastTwoShare
  Judge <- GreyNeighbours
  Distance <- Apart
  TopicOf <- LastTwoShare
  Loaders = {l1, l2}
  Normalizers = {n1, n2}
  Limit = 2
  MaxRetries = 2
  Candidates = 1
  Budget <- Stormy
CHECK_DEADLOCK FALSE
SYMMETRY Interchangeable
INVARIANTS RawsMatchEvents LlmCostBounded
PROPERTY ClosedIsFinal
