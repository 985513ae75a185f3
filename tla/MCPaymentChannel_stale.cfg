SPECIFICATION Spec
CONSTANTS
  AgentDeposit = 1
  ServerDeposit = 1
  Costs = {1}
  Awards = {0, 2}
  Receipts = Receipts
  MaxUpdates = 3
  MaxFlight = 2
INVARIANTS
  NewerStateChallenges
CHECK_DEADLOCK FALSE
