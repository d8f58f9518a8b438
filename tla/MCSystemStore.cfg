SPECIFICATION SystemSpec
CONSTANTS
  Client = {c1, c2, c3}
  NoClient = NoClient
  User = {u1}
  Typed = {k2, NoKey}
  TerminalRows = 24
  k1 = k1
  k2 = k2
  v1 = v1
  v2 = v2
  Key = {k1, k2}
  NoKey = NoKey
  Val = {v1, v2}
  NoVal = NoVal
  NoText = NoText
  AllKeys = {}
  NotFoundVals = {}
  Prefixes <- MCPrefixes
  Requests <- Stores
  Backlog = 1
  MaxFds = 2
  DbFds = 1
  MaxListed = 2
  LongVals = {}
  Faults = {"startup", "kill", "hangup"}
SYMMETRY Alike
INVARIANT
  UserSeesStore
  SystemInv
CHECK_DEADLOCK FALSE
