SPECIFICATION PnlSpec
CONSTANTS
    None = None
    b1 = b1
    b2 = b2
    s1 = s1
    s2 = s2
    h1 = h1
    h2 = h2
    h3 = h3
    w1 = w1
    w2 = w2
    Quotes = {b1, b2, s1, s2}
    Buys = {b1, b2}
    Hashes = {h1, h2, h3}
    Sweepers = {w1, w2}
    buyAmount = 2
    sellAmount = 3
    Quoted <- MCQuoted
    Side <- MCSide
    Amount <- MCAmount
    Position <- MCPosition
    Priceable = {b1, b2, s1, s2}
    Skippable = {s2}
    BatchSize = 1
    MaxTime = 2
    DatabaseFails = TRUE
SYMMETRY MCSymmetry
INVARIANTS LotConserved BookedSafety
PROPERTIES OldestLotFirst UnmatchedOnlyWhenEmpty
