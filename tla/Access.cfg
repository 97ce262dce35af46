SPECIFICATION Spec
CONSTANTS
  Lids = {l1, l2}
  Phones = {p1}
  Groups = {g}
  StatusChat = status
  None = None
  Refs = {r1, r2, r3, r4}
  Events = {dump, hello, bot, seen}
  Info <- MCInfo
  Policies <- MCPolicies
  Admins = {}
  BotIsAdmin = FALSE
  MaxDeliveries = 1
  MaxRestarts = 2
  l1 = l1
  l2 = l2
  p1 = p1
  g = g
  status = status
  r1 = r1
  r2 = r2
  r3 = r3
  r4 = r4
  dump = dump
  hello = hello
  hi = hi
  bot = bot
  seen = seen
INVARIANT StandingIsConfigured
PROPERTY ActsInside
SYMMETRY RefSymmetry
CHECK_DEADLOCK FALSE
