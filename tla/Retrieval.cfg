SPECIFICATION RetrievalSpec
CONSTANTS
  RrfK = 2
  Lambda = 7
  MmrHead = 3
  v = v
  w = w
  Vectors = {v, w}
  NoVector = NoVector
  NoSeries = NoSeries
  Similar <- Cosines
  Use = {"search", "similar", "rank", "announce", "explain", "fetch"}
  e1 = e1
  e2 = e2
  q1 = q1
  Requests = {q1}
  Events = {e1, e2}
  Phrases = {"p", "o"}
  KeysOf <- TwoKeys
  OddOf <- OneOdd
  LastDay = 1
  NoDate = 9
  Limit = 2
  Depth = 2
  MaxNear = 7
  MaxCandidates = 4
  CityOf <- Cities
  Alike <- Likeness
  TitlesOverlap <- SameTitle
  DuplicateFrom = 92
  UncertainFrom = 85
  MaxDaysApart = 1
  DedupCandidates = 2
  ValidDates = {0, 1, 2, 3, 4}
  Announcements <- ModelAnswers
  MaxAnnounced = 4
  Users <- People
  Features <- Shown
  NoUser = NoUser
  NoLink = NoLink
  Address <- Addresses
  Pages <- PagesUsed
  Fetches = {1, 2, 4}
  Weight <- WeightsUsed
  Freshness <- FreshnessUsed
  Undated = 99
SYMMETRY Interchangeable
CHECK_DEADLOCK FALSE
INVARIANTS AsAsked NearestIsFound FusionAgrees SimilarComplete FeedWellOrdered CatalogueAgrees ToldIsScored
