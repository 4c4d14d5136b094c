SPECIFICATION Spec
CONSTANTS
  Hosts = {h1,h2}
  Clients = {c1,c2}
  Lines = {1, 2, 3, 4, 5, 6, 7, 8, 9, 10, 11}
  MaxRank = 2
  Channels = 0
  NoHost = NoHost
  MaxCalls = 1
  InitialData = FALSE
  Mishaps = {"clientCrash"}
  MaxMishaps = 1
INVARIANTS OneMaster InStep
SYMMETRY Symmetry
