SPECIFICATION Spec
CONSTANTS
  Hosts = {h1,h2}
  Clients = {c1}
  Lines = {1, 2, 3, 4, 5, 6, 7, 8, 9, 10, 11, 12}
  MaxRank = 4
  Channels = 0
  NoHost = NoHost
  MaxCalls = 2
  InitialData = TRUE
  Mishaps = {}
  MaxMishaps = 0
INVARIANTS DoneByAll
