SPECIFICATION FairSystemSpec
CONSTANTS
  Client = {c1, c2}
  NoClient = NoClient
  User = {u1, u2}
  Typed = {k2}
  TerminalRows = 24
  k1 = k1
  k2 = k2
  v1 = v1
  v2 = v2
  Key = {k1, k2}
  NoKey = NoKey
  Val = {v1, v2}
  NoVal = NoVal
  NoText = NoText
  AllKeys = {}
  NotFoundVals = {}
  Prefixes <- MCPrefixes
  Requests <- Harms
  Backlog = 1
  MaxFds = 2
  DbFds = 1
  MaxListed = 2
  LongVals = {v2}
  Faults = {}
INVARIANT
  CrashIsShared
  CrashInv
PROPERTY
  EveryQuestionEnds
CHECK_DEADLOCK FALSE
