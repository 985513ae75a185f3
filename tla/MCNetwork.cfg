CONSTANTS
    Agents = {"a", "b"}
    Names = {"n", "m"}
    Addresses = {"host", "other"}
    IpOf <- MCIpOf
    Tools = {"tool"}
    Messaging = "_messages"
    Asks <- MCAsks
    Opens <- MCOpens
    Watched = {1}
    Handlers = {h, k}
    MaxTokens = 2
    MaxConversations = 1
    MaxRestarts = 1
    Me = "me"
    Peer = "peer"
    Offers <- MCOffers
    AdTtl = 1
    MaxResults = 1
    MaxAuthored = 1
    MaxNow = 2
    MaxQueue = 1
    Keys = {1, 2}
    CacheTtl = 1
    Resolvers = {"r1", "r2"}
    Permissions = {"issue", "rotate"}
    RootBindings <- MCRootBindings
    MaxVersions = 2
    MaxEntries = 1
    MaxHours = 2
    Subjects = {"r", "s", "t"}
    TrustedRoots = {"r"}
    Requested <- MCRequested
    NoLimit = NoLimit
    MaxCertificates = 3
    MaxDays = 2
    Openers = {"client"}
    MayStall = FALSE
    MaxStreams = 1
    MaxFrames = 3
    MaxMessage = 2
    Callers = {c1, c2}
    BaseDelay = 2
    MaxDelay = 3
    MaxSessions = 2
    MaxFails = 2
    MaxSent = 2
    MaxInbound = 1
SPECIFICATION MCSpec
INVARIANTS
    
    
    
    DiscoveryIsCurrent
    IdentityHolds
    ClientKeepsOrder
SYMMETRY Symmetry
CHECK_DEADLOCK FALSE
