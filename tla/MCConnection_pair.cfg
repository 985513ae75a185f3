SPECIFICATION MCSpec
CONSTANTS
  Configs <- MCConfigs
  max_retries = 1
  MaxResets = 1
  MaxData = 2
  None = None
INVARIANTS
  SessionAgreed
  DataInOrder
PROPERTIES
  HandshakeEnds
CHECK_DEADLOCK FALSE
