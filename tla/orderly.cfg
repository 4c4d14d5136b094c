SPECIFICATION Spec
CONSTANTS
  Hosts = {h1,h2,h3}
  Clients = {c1}
  Lines = {1, 2, 3, 4, 5, 6, 7, 8, 9, 10, 11, 12, 13, 14, 15}
  MaxRank = 3
  Channels = 1
  NoHost = NoHost
  MaxCalls = 1
  InitialData = TRUE
  Mishaps = {}
  MaxMishaps = 0
INVARIANTS TypeOK Addressed GroupLinked WorldIsGroup DoneByAll
PROPERTIES OnlyByLeave
