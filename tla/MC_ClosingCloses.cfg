SPECIFICATION FairServerLoopSpec
CONSTANTS
  Fds = {4, 5}
  Listen = 3
  MaxClients = 2
  MaxLines = 1
  MaxRuns = 1
PROPERTIES
  ClosingCloses
