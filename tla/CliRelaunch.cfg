SPECIFICATION Spec
CONSTANTS
  ClientList <- TwoClients
  ClientOf <- ClientRecords
  RuntimeDirs <- OneRuntimeDir
  Servers = {"me", "peer"}
  Addresses = {"h:1"}
  Processes = {"p1", "p2"}
  CliOf <- TwoClis
  Lines <- SmallLines
  Worlds <- SmallWorlds
  MaxLines = 2
  MaxEdits = 1
CHECK_DEADLOCK FALSE
INVARIANT
  RelaunchTaken
