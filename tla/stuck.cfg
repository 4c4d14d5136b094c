SPECIFICATION FairSpec
CONSTANTS
  Hosts = {h1}
  Clients = {c1}
  Lines = {1, 2, 3, 4, 5, 6}
  MaxRank = 1
  Channels = 0
  NoHost = NoHost
  MaxCalls = 1
  InitialData = TRUE
  Mishaps = {"clientCrash"}
  MaxMishaps = 1
PROPERTIES MachinesFreed
