CONSTANTS
    AgentDeposit = 1
    ServerDeposit = 1
    Costs = {1}
    Awards = {0, 2}
    Receipts = Receipts
    MaxUpdates = 3
    MaxFlight = 2
    Price = 3
    QuantityLimit = 2
    MaxSpend = 20
    NotAfter = 1
    GracePeriod = 1
    UsageSizes = {1, 2}
    LocalUsages <- MCLocalUsages
    MaxUnits = 3
    MaxReports = 2
    MaxTime = 2
    MaxWire = 2
    ClaimedValues <- MCClaims
    Chains <- MCChains
    MaxEvidence = 1
    Prices = {1, 2}
    MaxOffers = 3
    Agents = {"a", "b"}
    Requests <- MCRequests
    BehaviorReports <- MCBehaviorReports
    CapAt <- MCCapAt
    FullConfidence = 12
    WindowSize = 2
    SeverePenalty = 10
    MaxInteractions = 7
    MaxCredentials = 2
    MaxEvents = 4
    MaxDays = 2
SPECIFICATION MCSpec
INVARIANTS
    TypeOK
    DepositConserved
    BooksAgree
    FaultMatchesVerdict
    ScheduleAsAccepted
    
PROPERTIES
    ImplementsLedger
CHECK_DEADLOCK FALSE
