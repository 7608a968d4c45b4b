SPECIFICATION FairSpec
CONSTANTS
  u1 = u1
  u2 = u2
  Users = {u1, u2}
  Workers = {w1}
  ChannelsOf <- AllOrMail
  LastDay = 2
  Mondays <- FirstDay
  HoursInDay = 3
  CronHour = 1
  QuietChoices <- QuietNights
  None = None
  LastHour = 0
  MaxTroubles = 2
CHECK_DEADLOCK FALSE
INVARIANTS OneDigestADay
PROPERTIES ConsentRespected EveryDueSettled
