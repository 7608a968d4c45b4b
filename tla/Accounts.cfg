SPECIFICATION Spec
CONSTANTS
  web = web
  linked = linked
  bot = bot
  e1 = e1
  e2 = e2
  s1 = s1
  c1 = c1
  c2 = c2
  Old = {web, linked, bot}
  OldUser <- ThreeUsers
  OldChat <- ThreeChats
  Emails = {e1, e2, e3}
  Chats = {c1, c2, c3}
  Secrets = {s1, s2}
  None = None
  Lost = Lost
  Requests = {q1, q2}
  MaxCalls = 3
CHECK_DEADLOCK FALSE
SYMMETRY Interchangeable
INVARIANTS ChatsIdentify ItemsFollow RedemptionsBounded PasswordAsChosen
PROPERTY FullAccountsKept
