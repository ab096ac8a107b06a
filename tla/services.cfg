SPECIFICATION ServicesSpec
CONSTANTS
    q1 = q1
    q2 = q2
    s1 = s1
    s2 = s2
    SolQuotes = {q1, q2}
    Sigs = {s1, s2}
    SponsoredSig <- MCSponsored
    SolRequests = {r1, r2}
    SolSweeper = worker
    NoSig = NoSig
    Duelists = {u1, u2}
    DuelRequests = {r1, r2}
    MaxDuels = 2
    Pcts = {0, 1}
    NoPct = NoPct
    Nobody = Nobody
    Wallets = {u1, u2}
    TopupRequests = {r1, r2}
    PerWalletDaily = 2
    DailyCap = 2
    MaxLate = 1
    MaxCount = 3
    NoWallet = NoWallet
    Accounts = {u1, u2}
    Addresses = {a1, a2}
    LinkRequests = {r1, r2}
    MaxChallenges = 2
    NoAccount = NoAccount
    NoAddress = NoAddress
    MaxBlock = 4
    MaxBlocksPerTick = 2
    MaxLagBlocks = 3
    BucketBlocks = 2
    MaxTickFailures = 1
    Watchers = {w1}
    p1 = p1
    p2 = p2
    p3 = p3
    Pools = {p1, p2, p3}
    FactoryPools = {p2, p3}
    GeckoPools = {p1}
    TokenOf <- MCTokenOf
    MaxPendingChecks = 2
    MaxDiscFailures = 1
    RpcCalls = {r1, r2}
    FailureThreshold = 2
    JupCalls = {r1, r2, r3}
    Spacing = 2
    MaxWait = 3
    MaxRetries = 1
    MaxClock = 5
SYMMETRY ServicesSymmetry
INVARIANTS
    ServicesTypeOK
       LinkSafety
    MarketSafety UpstreamSafety
PROPERTIES DuelMoves EmptyAccountTakesNothing 
CHECK_DEADLOCK FALSE
