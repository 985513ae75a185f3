CONSTANTS
    Wildcard = "*"
    Unbounded = 9
    Fields <- MCFields
    Agents = {"alice", "bob"}
    Grants <- MCGrants
    Deltas <- MCDeltas
    Tools = {"search", "sum"}
    Splits <- MCSplits
    Usages <- MCUsages
    MaxTokens = 4
    MaxTime = 3
    Ids = {1, 2, 3}
    Asked = {2}
    ParentOf <- MCParentOf
    Root = 0
    NotAfter <- MCNotAfter
    Grace = 1
    Validity = 2
    MaxAge = 2
    Horizon = 3
    Rates = {1, 2}
    Period = 2
    MaxBucketAge = 4
    MaxUses = 8
    MaxTicks = 8
    EPOCH_INTERVAL_SEC = 5
    GRACE_WINDOW_SEC = 2
    MaxLateness = 1
    MaxScmTime = 24
    NoScm = NoScm
    Q = 5
    Matrix = 3
    Members = {1, 2, 3}
    Need = 2
    Secrets = {4}
    Slopes = {2}
    Masks = {1, 3}
    GroupVerbs = {"read"}
    GroupDepth = 1
    MaxAttempts = 2
    MaxSigned = 2
    Bindings <- MCBindings
    ChainVerbs = {"read", "write"}
    EndorsementValidity = 1
    ChainDepth = 2
    TokenExpiries = {2}
    MaxChain = 3
    MaxEndorsements = 2
    MaxAcceptances = 1
    MaxHours = 2
    McpTools = {"read_x", "sum"}
    ToolVerbs <- MCToolVerbs
    AskedVerbs = {{}, {"read"}}
    Connecters = {"c1", "c2"}
    Skills = {{}, {"read", "execute"}, {"read"}}
    RootDepth = 2
    MaxIdentities = 2
    MaxIssued = 2
    MaxCalls = 2
    MaxTasks = 4
    MaxMinutes = 1
SPECIFICATION MCSpec
INVARIANTS
    DelegationVerifies
    AuthorityShrinks
    
    AcceptedScmIsRecent
    ThresholdSigns
    
    BridgesKeepAuthority
PROPERTIES
    RevocationHolds
CHECK_DEADLOCK FALSE
