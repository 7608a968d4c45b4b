SPECIFICATION FairSpec
CONSTANTS
  Drafts = {1, 2, 3, 4}
  SourceOf <- TwoSources
  UrlOf <- Distinct
  StoryOf <- OneForAll
  Judge <- GreyNeighbours
  Distance <- Apart
  TopicOf <- Distinct
  Loaders = {l1}
  Normalizers = {n1, n2}
  Limit = 1
  MaxRetries = 2
  Candidates = 2
  Budget <- Crashing
CHECK_DEADLOCK FALSE
INVARIANT TwinsBounded
PROPERTY EveryRawSettled
