SPECIFICATION MCServerLoopSpec
CONSTANTS
  Fds = {4, 5, 6}
  Listen = 3
  MaxClients = 2
  MaxLines = 2
  MaxRuns = 2
INVARIANTS
  ServerLoopTypeOK
  PollMapAgreement
  CapacityRespected
  ReportedAreOpen
  LinesRunInOrder
PROPERTIES
  AcceptsAreServed
  ClientsAreServed
