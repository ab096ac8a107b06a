CONSTANTS
    q1 = q1
    q2 = q2
    h1 = h1
    r1 = r1
    r2 = r2
    w1 = w1
    relayer = relayer
    swapCall = swapCall
    None = None
    Quotes = {q1}
    Hashes = {h1, r1, r2}
    Handlers = {api1}
    Worker = sweep
    Addresses = {w1, relayer}
    Calls = {swapCall}
    Sender <- MCSender
    Call <- MCCall
    Wallet <- MCWallet
    UnsignedTx <- MCUnsignedTx
    FeeUnsignedTx <- MCNoFee
    MinConfirmations = 1
    ReorgDepth = 1
    RpcHiccups = TRUE
    SplitDepthRead = FALSE
    Relayer = relayer
    RelayHashes = {r1, r2}
    RelayHandlers = {relay1, relay2}
SPECIFICATION RelaySpec
INVARIANTS
    AtMostOneRelay
    BroadcastIsRecorded
    SponsoredNeverConfirmed
