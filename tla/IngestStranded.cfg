SPECIFICATION FairSpec
CONSTANTS
  Drafts = {1, 2}
  SourceOf <- TwoSources
  UrlOf <- Distinct
  StoryOf <- Distinct
  Judge <- NeverAlike
  Distance <- Apart
  TopicOf <- Distinct
  Loaders = {l1}
  Normalizers = {n1}
  Limit = 2
  MaxRetries = 2
  Candidates = 1
  Budget <- Failing
CHECK_DEADLOCK FALSE
PROPERTY EveryRawSettled
