CONSTANTS
    q1 = q1
    q2 = q2
    h1 = h1
    h2 = h2
    h3 = h3
    h4 = h4
    w1 = w1
    w2 = w2
    swapCall = swapCall
    feeCall = feeCall
    None = None
    Quotes = {q1}
    Hashes = {h1, h3}
    Handlers = {api1, api2}
    Worker = sweep
    Addresses = {w1, w2}
    Calls = {swapCall, feeCall}
    Sender <- MCSender
    Call <- MCCall
    Wallet <- MCWallet
    UnsignedTx <- MCUnsignedTx
    FeeUnsignedTx <- MCFeeUnsignedTx
    MinConfirmations = 1
    ReorgDepth = 0
    RpcHiccups = FALSE
    SplitDepthRead = FALSE
SPECIFICATION Spec
INVARIANT FeeIntegrity
