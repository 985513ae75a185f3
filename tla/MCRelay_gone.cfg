SPECIFICATION Spec
CONSTANTS
  a1 = a1
  a2 = a2
  s1 = s1
  s2 = s2
  NoLimit = NoLimit
  NoAck = NoAck
  NoAgent = NoAgent
  Agents <- MCPair
  SessionIds <- MCOneSession
  Params <- MCTight
  PayloadLens = {1}
  MAX_CONCURRENT_SESSIONS = 1
  MaxSeq = 1
  MaxHandlers = 1
  Removable = {a1}
INVARIANTS
  GoneAgentHasNoSession
CHECK_DEADLOCK FALSE
