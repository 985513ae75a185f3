SPECIFICATION FairSpec
CONSTANTS
  a = a
  b = b
  h1 = h1
  h2 = h2
  h3 = h3
  m1 = m1
  m2 = m2
  None = None
  Agents <- MCAgents
  Handlers <- MCHandlers
  Messages <- MCOneMessage
  Of <- MCOfShared
  To <- MCToOne
  FlushLimit = 1

  
PROPERTIES
  DeliveryCompletes
CHECK_DEADLOCK FALSE
