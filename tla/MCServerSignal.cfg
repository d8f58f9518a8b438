SPECIFICATION FairSpec
CONSTANTS
  Client = {c1}
  NoClient = NoClient
  k1 = k1
  k2 = k2
  kall = kall
  v1 = v1
  vnf = vnf
  Key = {k1, k2, kall}
  NoKey = NoKey
  Val = {v1, vnf}
  NoVal = NoVal
  NoText = NoText
  AllKeys = {kall}
  NotFoundVals = {vnf}
  Prefixes <- MCPrefixes
  Requests <- WholesomeRequests
  Backlog = 1
  MaxFds = 2
  DbFds = 1
  MaxListed = 3
  LongVals = {}
  Faults <- Signals
PROPERTIES
  SignalStops
CHECK_DEADLOCK FALSE
