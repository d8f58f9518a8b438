SPECIFICATION Spec
CONSTANTS
  User = {u1}
  k1 = k1
  v1 = v1
  Key = {k1}
  NoKey = NoKey
  Val = {v1}
  NoVal = NoVal
  NoText = NoText
  AllKeys = {}
  NotFoundVals = {}
  Prefixes <- MCPrefixes
  Typed = {k1, NoKey}
  Answers <- MCAnswers
  TerminalRows = 19
  NetFaults = {}
INVARIANT
  DisplaysResponse
CHECK_DEADLOCK FALSE
