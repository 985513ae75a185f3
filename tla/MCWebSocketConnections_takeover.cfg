SPECIFICATION Spec
CONSTANTS
  a = a
  b = b
  h1 = h1
  h2 = h2
  h3 = h3
  m1 = m1
  m2 = m2
  None = None
  Agents <- MCOneAgent
  Handlers <- MCTwoHandlers
  Messages <- MCOneMessage
  Of <- MCOfOne
  To <- MCToOne
  FlushLimit = 1
PROPERTIES
  NewConnectionTakesOver
CHECK_DEADLOCK FALSE
