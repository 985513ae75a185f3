SPECIFICATION FairSpec
CONSTANTS
  a1 = a1
  a2 = a2
  s1 = s1
  s2 = s2
  NoLimit = NoLimit
  NoAck = NoAck
  NoAgent = NoAgent
  Agents <- MCPair
  SessionIds <- MCOneSession
  Params <- MCMixed
  PayloadLens = {1, 2}
  MAX_CONCURRENT_SESSIONS = 1
  MaxSeq = 2
  MaxHandlers = 2
  Removable = {}
INVARIANTS
  TypeOK
  MessageBudgetConserved
  ByteBudgetConserved
  DebitsAreOwned
  ReceiptChainVerifies
PROPERTIES
  SettledOnce
  PendingSettles
  ImplementsEscrow
CHECK_DEADLOCK FALSE
