SPECIFICATION Spec
CONSTANTS
  Hosts = {h1,h2}
  Clients = {c1}
  Lines = {1, 2, 3, 4, 5, 6, 7, 8, 9, 10, 11, 12}
  MaxRank = 2
  Channels = 1
  NoHost = NoHost
  MaxCalls = 1
  InitialData = TRUE
  Mishaps = {"execCrash", "clientCrash", "timeout", "slowChild", "signal", "interrupt", "None", "Status", "Shutdown", "ForceShutdown", "ForceReset", "start"}
  MaxMishaps = 2
INVARIANTS Supervised StatesKept GroupLinked Barrier
PROPERTIES FreeWhenLeft
SYMMETRY Symmetry
