SPECIFICATION ProgressSpec
CONSTANTS
    q1 = q1
    q2 = q2
    s1 = s1
    s2 = s2
    SolQuotes = {q1, q2}
    Sigs = {s1, s2}
    SponsoredSig <- MCSponsored
    SolRequests = {r1}
    SolSweeper = w1
    NoSig = NoSig
    RpcCalls = {r1, r2}
    FailureThreshold = 2
    MaxBlock = 4
    MaxBlocksPerTick = 2
    MaxLagBlocks = 3
    BucketBlocks = 2
    MaxTickFailures = 1
    Watchers = {}
    p1 = p1
    p2 = p2
    Pools = {p1, p2}
    FactoryPools = {p1, p2}
    GeckoPools = {}
    TokenOf <- MCTokenOf
    MaxPendingChecks = 1
    MaxDiscFailures = 1
    Voters = {u1}
    PollOptions = {yes}
    PollRequests = {r1}
    Resolvers = {i1, i2}
    SlowResolvers = FALSE
    NoOption = NoOption
    NoVoter = NoVoter
    NoTally = NoTally
    None = None
    Quotes = {b1, b2, c1}
    b1 = b1
    b2 = b2
    c1 = c1
    h1 = h1
    h2 = h2
    h3 = h3
    Hashes = {h1, h2, h3}
    Sweepers = {w1}
    Quoted <- MCQuoted
    Side <- MCSide
    Amount <- MCAmount
    Position <- MCPosition
    Priceable = {b1, b2, c1}
    Skippable = {b2}
    BatchSize = 2
    MaxTime = 1
    DatabaseFails = FALSE
    PanelQuotes = {a1, a2}
    NeedsApproval = {}
    Extreme = {}
    WithConsent = {}
    WithFee = {a1}
    PanelHandlers = {k1, k2}
    Selling = FALSE
    MaxSwaps = 2
    MaxFees = 1
    MaxAsked = 1
    MaxAnswers = 1
    NoQuote = NoQuote
INVARIANT SellBookedOnce
PROPERTIES
    ImplementsSolLedger SolPendingSettles
    EndpointUsedAgain
    MarketProgress
    PollCloses
    ConfirmedIsAccounted
    PendingEnds
CHECK_DEADLOCK FALSE
