SPECIFICATION FairSpec
CONSTANTS
  r1 = r1
  r2 = r2
  r3 = r3
  e1 = e1
  e2 = e2
  NoAccount = NoAccount
  Requests = {r1, r2, r3}
  Emails = {e1, e2}
  KindOf <- RaceKind
  EmailOf <- RaceEmail
  Workers = {"w1"}
  Limit = 2
  Handlers = {"register", "reset"}
  Budget <- LostEnqueue
CHECK_DEADLOCK FALSE
PROPERTY EveryRowRelayed
