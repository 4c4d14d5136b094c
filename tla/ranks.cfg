SPECIFICATION Spec
CONSTANTS
  Hosts = {h1}
  Clients = {c1}
  Lines = {1, 2, 3, 4, 5, 6, 7, 8}
  MaxRank = 2
  Channels = 0
  NoHost = NoHost
  MaxCalls = 2
  InitialData = TRUE
  Mishaps = {}
  MaxMishaps = 0
INVARIANTS WorldIsGroup
