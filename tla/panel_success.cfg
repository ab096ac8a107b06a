SPECIFICATION PanelSpec
CONSTANTS
    PanelQuotes = {a1, a2}
    NeedsApproval = {}
    Extreme = {}
    WithConsent = {}
    WithFee = {a1}
    PanelHandlers = {k1, k2}
    Selling = FALSE
    MaxSwaps = 2
    MaxFees = 1
    MaxAsked = 1
    MaxAnswers = 1
    NoQuote = NoQuote
INVARIANT NoFalseSuccess
CHECK_DEADLOCK FALSE
