CONSTANTS
  h1 = h1
  h2 = h2
  d1 = d1
  p1 = p1
  http = http
  dns = dns
  NoServer = NoServer
  NoFlow = NoFlow
  Commands <- AllCommands
  Rounds <- TwoServers
  AppFlows <- Apps
  Key <- ServerOf
  MaxSignals = 2
SPECIFICATION Spec
INVARIANTS
  CompletedRanItsCourse
  LoggerClosedAtEnd
