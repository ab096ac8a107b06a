SPECIFICATION SocialSpec
CONSTANTS
    CallUsers = {u1, u2}
    CallRequests = {r1, r2}
    CallLounge = FALSE
    MaxParticipants = 2
    MaxCallIds = 1
    AfterBypass = FALSE
    NoCall = NoCall
    LiveViewers = {u1, u2}
    LiveRequests = {r1, r2}
    MaxRooms = 2
    ReportsToEnd = 2
    MaxCutOff = 1
    NoRoom = NoRoom
    Tips = {t1, t2}
    TipRequests = {r1, r2}
    NoTip = NoTip
    Voters = {u1, u2}
    PollOptions = {yes}
    PollRequests = {r1, r2}
    Resolvers = {i1, i2}
    SlowResolvers = FALSE
    NoOption = NoOption
    NoVoter = NoVoter
    NoTally = NoTally
    Stems = {m1, m2, m3}
    Generators = {i1, i2}
    OpenAutoCap = 2
    MaxPollBlock = 3
    PanelQuotes = {a1, a2}
    NeedsApproval = {a1}
    Extreme = {a2}
    WithConsent = {a2}
    WithFee = {a1}
    PanelHandlers = {k1, k2}
    Selling = TRUE
    MaxSwaps = 2
    MaxFees = 1
    MaxAsked = 1
    MaxAnswers = 1
    NoQuote = NoQuote
    DmUsers = {u1, u2}
    DmRequests = {r1, r2}
    RequestMessagesMax = 2
    MaxDm = 3
    SlowWrites = FALSE
    NoUser = NoUser
SYMMETRY SocialSymmetry
INVARIANTS
    SocialTypeOK  LiveSafety  TallyAgrees GeneratorSafety PanelSafety DmSafety
PROPERTY OutcomeIsFinal
CHECK_DEADLOCK FALSE
