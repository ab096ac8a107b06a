----------------------------- MODULE TradePanel -----------------------------
(***************************************************************************)
(* The trade panel of the web client (apps/web/components/trading/         *)
(* TradePanel.tsx): from a quote over approval, signature, recording and   *)
(* polling to the fee transfer, with the API and the wallet as it sees     *)
(* them.                                                                   *)
(*                                                                         *)
(* A handler of the panel keeps, across its awaits, the quote of the       *)
(* render it was made in; answers come late, in any order, and nothing     *)
(* that is under way is cancelled.  A trade of the API is named by its     *)
(* quote, a swap or fee transfer by its place among those broadcast.       *)
(* Amounts, prices and the move of funds from another chain are left out.  *)
(***************************************************************************)
EXTENDS Integers, Sequences, FiniteSets

CONSTANTS
  PanelQuotes,    \* quotes the API gives this panel
  NeedsApproval,  \* requiresApproval
  Extreme,        \* priceImpactLevel = "extreme"
  WithConsent,    \* with consentTypedData: the relayer broadcasts
  WithFee,        \* with feeUnsignedTx: a second transfer pays the fee
  PanelHandlers,  \* handlers that can be under way at a time
  Selling,        \* does a trade take away the balance it was quoted for?
  MaxSwaps, MaxFees, MaxAsked, MaxAnswers,
  NoQuote

ASSUME PanelAssumption ==
  /\ NeedsApproval \cup Extreme \cup WithConsent \cup WithFee \subseteq PanelQuotes
  /\ Selling \in BOOLEAN
  /\ {MaxSwaps, MaxFees, MaxAsked, MaxAnswers} \subseteq Nat \ {0}
  /\ NoQuote \notin PanelQuotes

VARIABLES
  panel,      \* the React state
  polling,    \* pollRef: the trade its interval reads, and the quote of its closure
  feeAsked,   \* feeRequestedRef
  handler,    \* what each handler under way remembers
  debounce,   \* the timer of the quote effect is set
  asked,      \* quote requests under way
  answers,    \* answers of getTransaction under way, in any order
  given,      \* quotes the API has given
  lapsed,     \* those past expiresAt
  trade,      \* the API's rows
  swaps,      \* swaps broadcast: the quote each one carries out
  fees,       \* fee transfers broadcast: for which trade, and the quote that says how much
  swapsNow    \* history: swaps the wallet has sent since the panel was last reset

quoteVars == <<debounce, asked, given, lapsed>>
backendVars == <<trade, swaps, fees, swapsNow>>
pollingVars == <<polling, feeAsked, answers>>
panelVars == <<panel, handler, quoteVars, pollingVars, backendVars>>

MaybeQuote == PanelQuotes \cup {NoQuote}
Settled == {"CONFIRMED", "FAILED", "EXPIRED"}
RowStatus == Settled \cup {"none", "PENDING"}
NoRow == [hash |-> 0, status |-> "none", feeHash |-> 0, fee |-> "none"]
Rows == [hash: 0..MaxSwaps, status: RowStatus, feeHash: 0..MaxFees, fee: RowStatus]
NotPolling == [of |-> NoQuote, quote |-> NoQuote]
NoAnswer == [of |-> NoQuote, quote |-> NoQuote, row |-> NoRow]
AtRest == [pc |-> "idle", quote |-> NoQuote, of |-> NoQuote, hash |-> 0]
ReviewSteps == {"review", "approving", "signing"}
StatusSteps == {"submitted", "pending", "confirmed", "failed"}

PanelTypeOK ==
  /\ panel \in [step: {"form", "record-failed"} \cup ReviewSteps \cup StatusSteps,
                quote: MaybeQuote, quoteStatus: {"idle", "loading", "ready", "error"},
                approved: BOOLEAN, ack: BOOLEAN, pendingHash: 0..MaxSwaps,
                of: MaybeQuote, row: Rows,
                feeSign: {"idle", "signing", "record-failed"}, feePendingHash: 0..MaxFees]
  /\ polling \in [of: MaybeQuote, quote: MaybeQuote]
  /\ feeAsked \in BOOLEAN /\ debounce \in BOOLEAN /\ asked \in 0..MaxAsked
  /\ handler \in [PanelHandlers -> [pc: {"idle", "approve", "dryRun", "send", "record",
                                         "consent", "relay", "feeSend", "feeRecord"},
                                    quote: MaybeQuote, of: MaybeQuote,
                                    hash: 0..(MaxSwaps + MaxFees)]]
  /\ answers \in [1..MaxAnswers -> [of: MaybeQuote, quote: MaybeQuote, row: Rows]]
  /\ lapsed \subseteq given /\ given \subseteq PanelQuotes
  /\ trade \in [PanelQuotes -> Rows]
  /\ swaps \in Seq(PanelQuotes) /\ swapsNow <= Len(swaps) /\ Len(swaps) <= MaxSwaps
  /\ fees \in Seq([for: PanelQuotes, quote: PanelQuotes]) /\ Len(fees) <= MaxFees

FreshPanel == [step |-> "form", quote |-> NoQuote, quoteStatus |-> "idle", approved |-> FALSE,
               ack |-> FALSE, pendingHash |-> 0, of |-> NoQuote, row |-> NoRow,
               feeSign |-> "idle", feePendingHash |-> 0]

PanelInit ==
  /\ panel = FreshPanel
  /\ polling = NotPolling /\ feeAsked = FALSE
  /\ answers = [i \in 1..MaxAnswers |-> NoAnswer]
  /\ handler = [h \in PanelHandlers |-> AtRest]
  /\ debounce = FALSE /\ asked = 0 /\ given = {} /\ lapsed = {}
  /\ trade = [q \in PanelQuotes |-> NoRow]
  /\ swaps = <<>> /\ fees = <<>> /\ swapsNow = 0

-----------------------------------------------------------------------------
(* Quotes. *)

HasLapsed(q) == q \in lapsed
Shown == panel.quote

\* The quote effect, unless silent: the buttons wait for the new quote.
Loading(p) == [p EXCEPT !.quoteStatus = "loading", !.approved = FALSE, !.ack = FALSE]

\* The user waits for the wallet and for what the panel says it is doing; nobody can wait
\* for a quote or an answer that comes silently.
UserActs == \A h \in PanelHandlers : handler[h] = AtRest

\* The amount, the side or the slippage changes; the timer of the last effect is
\* cleared, a request that is out is not.
ChangeInput(valid) ==
  /\ UserActs /\ panel.step = "form"
  /\ panel' = IF valid THEN Loading(panel)
              ELSE [panel EXCEPT !.quote = NoQuote, !.quoteStatus = "idle"]
  /\ debounce' = valid
  /\ UNCHANGED <<handler, asked, given, lapsed, pollingVars, backendVars>>

Ask ==
  /\ asked < MaxAsked
  /\ asked' = asked + 1 /\ debounce' = FALSE
  /\ UNCHANGED <<panel, handler, given, lapsed, pollingVars, backendVars>>

getQuote == debounce /\ Ask

\* Six seconds before the quote expires: asked for again without a sign of it.
SilentRefresh ==
  /\ Shown # NoQuote /\ panel.quoteStatus = "ready" /\ panel.step \in {"form", "review"}
  /\ Ask

\* Whichever request it answers and whatever the panel is doing.  A high price
\* impact may widen the automatic slippage, which is a change of input.
QuoteArrives(q, widens) ==
  /\ asked > 0 /\ q \notin given
  /\ widens => q \in Extreme
  /\ LET p == [panel EXCEPT !.quote = q, !.quoteStatus = "ready"]
     IN panel' = IF widens THEN Loading(p) ELSE p
  /\ asked' = asked - 1 /\ given' = given \cup {q} /\ debounce' = (debounce \/ widens)
  /\ UNCHANGED <<handler, lapsed, pollingVars, backendVars>>

QuoteFails ==
  /\ asked > 0 /\ asked' = asked - 1
  /\ panel' = [panel EXCEPT !.quote = NoQuote, !.quoteStatus = "error"]
  /\ UNCHANGED <<handler, debounce, given, lapsed, pollingVars, backendVars>>

\* overBalance: useBalance sees less than the amount typed in, in any step.
BalanceDrops ==
  /\ Selling /\ Len(swaps) > 0 /\ Shown # NoQuote
  /\ panel' = [panel EXCEPT !.quote = NoQuote, !.quoteStatus = "idle"]
  /\ debounce' = FALSE
  /\ UNCHANGED <<handler, asked, given, lapsed, pollingVars, backendVars>>

QuoteExpires(q) ==
  /\ q \in given \ lapsed /\ lapsed' = lapsed \cup {q}
  /\ UNCHANGED <<panel, handler, debounce, asked, given, pollingVars, backendVars>>

-----------------------------------------------------------------------------
(* From the tap to the broadcast. *)

SpareHandler == CHOOSE h \in PanelHandlers : handler[h] = AtRest
MayBegin == \E h \in PanelHandlers : handler[h] = AtRest
Holding(h, pc, q, of, hash) ==
  handler' = [handler EXCEPT ![h] = [pc |-> pc, quote |-> q, of |-> of, hash |-> hash]]
StartHandler(pc, q, of, hash) == MayBegin /\ Holding(SpareHandler, pc, q, of, hash)
GoesTo(h, pc) == handler' = [handler EXCEPT ![h].pc = pc]
Returns(h) == handler' = [handler EXCEPT ![h] = AtRest]
BackToReview == panel' = [panel EXCEPT !.step = "review"]

\* handleConfirmAndSign up to its first await, with the quote of its closure.
ConfirmAndSign(h, q, p) ==
  IF HasLapsed(q) THEN panel' = p /\ Returns(h)
  ELSE /\ panel' = [p EXCEPT !.step = "signing"]
       /\ Holding(h, IF q \in WithConsent THEN "consent" ELSE "dryRun", q, NoQuote, 0)

\* handleOneTap.
OneTap ==
  /\ UserActs /\ MayBegin
  /\ panel.step = "form" /\ panel.quoteStatus = "ready" /\ Shown # NoQuote
  /\ \/ /\ HasLapsed(Shown)
        /\ panel' = Loading(panel) /\ debounce' = TRUE /\ UNCHANGED handler
     \/ /\ ~HasLapsed(Shown) /\ Shown \in Extreme
        /\ BackToReview /\ UNCHANGED <<handler, debounce>>
     \/ /\ ~HasLapsed(Shown) /\ Shown \in NeedsApproval \ Extreme
        /\ panel' = [panel EXCEPT !.step = "approving"]
        /\ StartHandler("approve", Shown, NoQuote, 0) /\ UNCHANGED debounce
     \/ /\ ~HasLapsed(Shown) /\ Shown \notin NeedsApproval \cup Extreme
        /\ ConfirmAndSign(SpareHandler, Shown, panel) /\ UNCHANGED debounce
  /\ UNCHANGED <<asked, given, lapsed, pollingVars, backendVars>>

\* The review screen: shown while a trade is under way too, and blank without a quote.
Reviewing == panel.step \in ReviewSteps /\ Shown # NoQuote

\* handleApprove, from its button.
ApproveButton ==
  /\ UserActs /\ Reviewing
  /\ Shown \in NeedsApproval /\ ~panel.approved
  /\ panel.step # "approving" /\ ~HasLapsed(Shown)
  /\ panel' = [panel EXCEPT !.step = "approving"]
  /\ StartHandler("approve", Shown, NoQuote, 0)
  /\ UNCHANGED <<quoteVars, pollingVars, backendVars>>

\* handleConfirmAndSign, from its button.
ConfirmButton ==
  /\ UserActs /\ MayBegin /\ Reviewing
  /\ ~HasLapsed(Shown) /\ panel.step # "signing"
  /\ Shown \in NeedsApproval => panel.approved
  /\ Shown \in Extreme => panel.ack
  /\ ConfirmAndSign(SpareHandler, Shown, panel)
  /\ UNCHANGED <<quoteVars, pollingVars, backendVars>>

\* "I understand".
Acknowledge ==
  /\ UserActs /\ Reviewing /\ Shown \in Extreme
  /\ panel' = [panel EXCEPT !.ack = ~@]
  /\ UNCHANGED <<handler, quoteVars, pollingVars, backendVars>>

Back ==
  /\ UserActs /\ Reviewing /\ panel.step = "review"
  /\ panel' = [panel EXCEPT !.step = "form"]
  /\ UNCHANGED <<handler, quoteVars, pollingVars, backendVars>>

\* "This quote expired, refresh it".
RefreshLink ==
  /\ UserActs /\ Reviewing /\ HasLapsed(Shown)
  /\ panel' = [Loading(panel) EXCEPT !.step = "form"]
  /\ debounce' = TRUE
  /\ UNCHANGED <<handler, asked, given, lapsed, pollingVars, backendVars>>

\* handleApprove after the wallet; it goes on with the quote it started with.
Approve(h, ok) ==
  /\ handler[h].pc = "approve"
  /\ IF ok THEN ConfirmAndSign(h, handler[h].quote, [panel EXCEPT !.approved = TRUE])
     ELSE BackToReview /\ Returns(h)
  /\ UNCHANGED <<quoteVars, pollingVars, backendVars>>

wouldRevert(h, reverts) ==
  /\ handler[h].pc = "dryRun"
  /\ IF reverts THEN BackToReview /\ Returns(h) ELSE GoesTo(h, "send") /\ UNCHANGED panel
  /\ UNCHANGED <<quoteVars, pollingVars, backendVars>>

\* sendTransaction: refused in the wallet, or broadcast.
SendSwap(h, ok) ==
  /\ handler[h].pc = "send"
  /\ IF ok
     THEN /\ Len(swaps) < MaxSwaps
          /\ swaps' = Append(swaps, handler[h].quote) /\ swapsNow' = swapsNow + 1
          /\ Holding(h, "record", handler[h].quote, NoQuote, Len(swaps'))
          /\ panel' = [panel EXCEPT !.step = "submitted"]
     ELSE BackToReview /\ Returns(h) /\ UNCHANGED <<swaps, swapsNow>>
  /\ UNCHANGED <<quoteVars, pollingVars, trade, fees>>

-----------------------------------------------------------------------------
(* Recording and relaying.  A request may fail on the way there or, once the *)
(* API has done its part, on the way back: ok is "no", "done" or "answered". *)

Outcomes == {"no", "done", "answered"}

\* The row submitTransaction returns: that of the quote, else that of the hash.
RowOf(q, n) == IF trade[q] = NoRow /\ \E r \in PanelQuotes : trade[r].hash = n
               THEN CHOOSE r \in PanelQuotes : trade[r].hash = n ELSE q

Insert(q, n) == IF trade[RowOf(q, n)] # NoRow THEN trade
                ELSE [trade EXCEPT ![q] = [NoRow EXCEPT !.hash = n, !.status = "PENDING"]]

\* setTransaction and pollTransactionStatus, which replaces the interval there is.
ShowAndPoll(p, r, q) ==
  /\ panel' = [p EXCEPT !.of = r, !.row = trade'[r]]
  /\ polling' = [of |-> r, quote |-> q]

\* A mutant: a trade that is not recorded goes back to the review.
NotRecorded_ToReview(h) == BackToReview /\ UNCHANGED polling

\* recordSubmittedTransaction's catch.
NotRecorded(h) ==
  /\ panel' = [panel EXCEPT !.step = "record-failed", !.pendingHash = handler[h].hash]
  /\ UNCHANGED polling

\* recordSubmittedTransaction.
RecordSwap(h, ok) ==
  LET q == handler[h].quote
      n == handler[h].hash
      r == RowOf(q, n)
  IN /\ handler[h].pc = "record"
     /\ ok # "no" => trade[q] # NoRow \/ ~HasLapsed(q)
     /\ trade' = IF ok = "no" THEN trade ELSE Insert(q, n)
     /\ IF ok = "answered"
        THEN ShowAndPoll([panel EXCEPT !.step = "pending", !.pendingHash = 0], r, q)
             /\ feeAsked' = FALSE
        ELSE NotRecorded(h) /\ UNCHANGED feeAsked
     /\ Returns(h)
     /\ UNCHANGED <<quoteVars, answers, swaps, fees, swapsNow>>

\* handleRetryRecording: with the quote the panel has now.
RetryRecording ==
  /\ UserActs /\ panel.step = "record-failed" /\ panel.pendingHash # 0 /\ Shown # NoQuote
  /\ panel' = [panel EXCEPT !.step = "submitted"]
  /\ StartHandler("record", Shown, NoQuote, panel.pendingHash)
  /\ UNCHANGED <<quoteVars, pollingVars, backendVars>>

\* handleConfirmAndRelay: the consent.
SignConsent(h, ok) ==
  /\ handler[h].pc = "consent"
  /\ IF ok THEN panel' = [panel EXCEPT !.step = "submitted"] /\ GoesTo(h, "relay")
     ELSE BackToReview /\ Returns(h)
  /\ UNCHANGED <<quoteVars, pollingVars, backendVars>>

\* handleConfirmAndRelay: POST /trade/relay broadcasts once for a quote.
RelaySwap(h, ok) ==
  LET q == handler[h].quote
  IN /\ handler[h].pc = "relay"
     /\ IF ok = "no" \/ trade[q] # NoRow
        THEN UNCHANGED <<swaps, trade>>
        ELSE /\ ~HasLapsed(q) /\ Len(swaps) < MaxSwaps
             /\ swaps' = Append(swaps, q) /\ trade' = Insert(q, Len(swaps'))
     /\ IF ok = "answered"
        THEN ShowAndPoll([panel EXCEPT !.step = "pending"], q, q)
        ELSE BackToReview /\ UNCHANGED polling
     /\ Returns(h)
     /\ UNCHANGED <<quoteVars, feeAsked, answers, fees, swapsNow>>

-----------------------------------------------------------------------------
(* Polling and the fee transfer. *)

\* The interval of pollTransactionStatus; the answer is what the API knows now.
PollTick ==
  /\ polling # NotPolling
  /\ \E i \in 1..MaxAnswers :
       /\ \A j \in 1..i : (answers[j] = NoAnswer) = (j = i)
       /\ answers' = [answers EXCEPT ![i] = [of |-> polling.of, quote |-> polling.quote,
                                            row |-> trade[polling.of]]]
  /\ UNCHANGED <<panel, handler, polling, feeAsked, quoteVars, backendVars>>

\* A mutant: whatever has ended has succeeded.
StepOf_AnyEnd(status, step) == IF status = "PENDING" THEN step ELSE "confirmed"

StepOf(status, step) ==
  CASE status = "PENDING" -> step [] status = "CONFIRMED" -> "confirmed" [] OTHER -> "failed"

\* A mutant: the fee is asked for as soon as the swap is seen.
FeeDue_Early(a) == a.quote \in WithFee /\ a.row.feeHash = 0 /\ ~feeAsked

\* The fee is asked for once the swap has landed.
FeeDue(a) ==
  /\ a.row.status = "CONFIRMED" /\ a.quote \in WithFee
  /\ a.row.feeHash = 0 /\ ~feeAsked

\* A mutant: only the fee is looked at.
StopsPolling_FeeOnly(r) == r.fee # "PENDING"

StopsPolling(r) == r.status # "PENDING" /\ r.fee # "PENDING"

\* An answer sets the step and stops the interval, whichever they are by now.
AnswerArrives(i) ==
  LET a == answers[i]
      p == [panel EXCEPT !.of = a.of, !.row = a.row, !.step = StepOf(a.row.status, @)]
  IN /\ a # NoAnswer /\ answers' = [answers EXCEPT ![i] = NoAnswer]
     /\ IF FeeDue(a)
        THEN /\ panel' = [p EXCEPT !.feeSign = "signing"] /\ feeAsked' = TRUE
             /\ StartHandler("feeSend", a.quote, a.of, 0)
        ELSE panel' = p /\ UNCHANGED <<feeAsked, handler>>
     /\ polling' = IF StopsPolling(a.row) THEN NotPolling ELSE polling
     /\ UNCHANGED <<quoteVars, backendVars>>

\* FeeTransferSection is on the screen.
FeeSection ==
  /\ panel.step \in StatusSteps /\ Shown \in WithFee /\ panel.of # NoQuote
  /\ panel.row.status = "CONFIRMED" \/ panel.row.feeHash # 0 \/ panel.of \in WithConsent

\* handleSignFeeTransfer, from "Send platform fee".
FeeButton ==
  /\ UserActs /\ FeeSection /\ panel.feeSign = "idle"
  /\ panel.row.feeHash = 0 /\ panel.of \notin WithConsent
  /\ panel' = [panel EXCEPT !.feeSign = "signing"]
  /\ StartHandler("feeSend", Shown, panel.of, 0)
  /\ UNCHANGED <<quoteVars, pollingVars, backendVars>>

\* handleSignFeeTransfer after the wallet.
SendFee(h, ok) ==
  /\ handler[h].pc = "feeSend"
  /\ IF ok
     THEN /\ Len(fees) < MaxFees
          /\ fees' = Append(fees, [for |-> handler[h].of, quote |-> handler[h].quote])
          /\ Holding(h, "feeRecord", handler[h].quote, handler[h].of, Len(fees'))
          /\ UNCHANGED panel
     ELSE panel' = [panel EXCEPT !.feeSign = "idle"] /\ Returns(h) /\ UNCHANGED fees
  /\ UNCHANGED <<quoteVars, pollingVars, trade, swaps, swapsNow>>

\* submitFeeTransaction takes one fee transfer per trade and one trade per transfer.
FeeAccepted(q, n) ==
  /\ q \in WithFee /\ trade[q].feeHash \in {0, n}
  /\ \A r \in PanelQuotes \ {q} : trade[r].feeHash # n

\* recordFeeTransaction; polling starts again for this trade.
RecordFee(h, ok) ==
  LET q == handler[h].of
      n == handler[h].hash
  IN /\ handler[h].pc = "feeRecord"
     /\ ok # "no" => FeeAccepted(q, n)
     /\ trade' = IF ok # "no" /\ trade[q].feeHash = 0
                 THEN [trade EXCEPT ![q].feeHash = n, ![q].fee = "PENDING"] ELSE trade
     /\ IF ok = "answered"
        THEN ShowAndPoll([panel EXCEPT !.feeSign = "idle", !.feePendingHash = 0], q,
                         handler[h].quote)
        ELSE /\ panel' = [panel EXCEPT !.feeSign = "record-failed", !.feePendingHash = n]
             /\ UNCHANGED polling
     /\ Returns(h)
     /\ UNCHANGED <<quoteVars, feeAsked, answers, swaps, fees, swapsNow>>

\* handleRetryFeeRecording: for the trade on the screen.
RetryFee ==
  /\ UserActs /\ FeeSection /\ panel.feeSign = "record-failed" /\ panel.feePendingHash # 0
  /\ StartHandler("feeRecord", Shown, panel.of, panel.feePendingHash)
  /\ UNCHANGED <<panel, quoteVars, pollingVars, backendVars>>

\* resetToForm, which leaves the interval and the handlers.
ResetToForm ==
  /\ UserActs /\ panel.step \in {"confirmed", "failed"}
  /\ panel' = [FreshPanel EXCEPT !.approved = panel.approved, !.ack = panel.ack]
  /\ debounce' = FALSE /\ swapsNow' = 0
  /\ UNCHANGED <<handler, asked, given, lapsed, pollingVars, trade, swaps, fees>>

-----------------------------------------------------------------------------
(* The API settles rows by the chain: see TradeLifecycle for how, and TradeRelay *)
(* for why a swap the relayer has sent is never CONFIRMED.                       *)

SettleSwap(q, status) ==
  /\ trade[q].status = "PENDING"
  /\ status = "CONFIRMED" => q \notin WithConsent /\ swaps[trade[q].hash] = q
  /\ trade' = [trade EXCEPT ![q].status = status]
  /\ UNCHANGED <<panel, handler, quoteVars, pollingVars, swaps, fees, swapsNow>>

SettleFee(q, status) ==
  /\ trade[q].fee = "PENDING"
  /\ status = "CONFIRMED" => fees[trade[q].feeHash].quote = q
  /\ trade' = [trade EXCEPT ![q].fee = status]
  /\ UNCHANGED <<panel, handler, quoteVars, pollingVars, swaps, fees, swapsNow>>

QuoteStep ==
  \/ \E valid \in BOOLEAN : ChangeInput(valid)
  \/ getQuote \/ SilentRefresh \/ QuoteFails \/ BalanceDrops
  \/ \E q \in PanelQuotes : QuoteExpires(q) \/ \E widens \in BOOLEAN : QuoteArrives(q, widens)

UserStep ==
  \/ OneTap \/ ApproveButton \/ ConfirmButton \/ Acknowledge \/ Back \/ RefreshLink
  \/ RetryRecording \/ FeeButton \/ RetryFee \/ ResetToForm

WalletStep(h) ==
  \E ok \in BOOLEAN : Approve(h, ok) \/ wouldRevert(h, ok) \/ SendSwap(h, ok)
                        \/ SignConsent(h, ok) \/ SendFee(h, ok)

RequestStep(h) ==
  \E ok \in Outcomes : RecordSwap(h, ok) \/ RelaySwap(h, ok) \/ RecordFee(h, ok)

ApiStep(q) == \E status \in Settled : SettleSwap(q, status) \/ SettleFee(q, status)

PanelNext ==
  \/ QuoteStep \/ UserStep
  \/ \E h \in PanelHandlers : WalletStep(h) \/ RequestStep(h)
  \/ PollTick \/ \E i \in 1..MaxAnswers : AnswerArrives(i)
  \/ \E q \in PanelQuotes : ApiStep(q)

PanelSpec == PanelInit /\ [][PanelNext]_panelVars

-----------------------------------------------------------------------------
(* What the panel promises. *)

\* A fee transfer is signed only for a swap that has landed, whichever interval, late answer
\* or button asked for it (TradePanel.tsx, pollTransactionStatus).
FeeOnlyAfterSwap == \A i \in DOMAIN fees : trade[fees[i].for].status = "CONFIRMED"

\* The success screen appears only once a trade has been confirmed by the very swap it was
\* quoted for; a trade that failed or expired never leads to it.
SuccessIsReal ==
  panel.step = "confirmed" =>
    \E q \in PanelQuotes : trade[q].status = "CONFIRMED" /\ swaps[trade[q].hash] = q

\* Between two resets of the panel the wallet sends one swap: once it is broadcast no
\* failure, retry or late answer leads back to a button that signs again.
OneSwapPerTrade == swapsNow <= 1

\* The three together, for the run of the services.
PanelSafety == FeeOnlyAfterSwap /\ SuccessIsReal /\ OneSwapPerTrade

\* "Never showing a false success": when the panel says confirmed, the trade just sent is.
\* It fails: the interval of the trade before, kept alive by its pending fee, or an answer
\* to it that comes late, sets the step of the next trade.
NoFalseSuccess ==
  panel.step = "confirmed" /\ swapsNow > 0 => trade[swaps[Len(swaps)]].status = "CONFIRMED"

\* A broadcast swap is recorded, about to be, or kept in pendingHash.  It fails in the same
\* way: the wrong success screen has a Done button, which forgets the hash.
SwapIsHeld ==
  \A n \in DOMAIN swaps :
    \/ \E q \in PanelQuotes : trade[q].hash = n
    \/ \E h \in PanelHandlers : handler[h].pc = "record" /\ handler[h].hash = n
    \/ panel.pendingHash = n

\* The interval runs while the page is open, a read is answered in the end, and the worker's
\* sweep settles every row.  Nothing is assumed of the user or the wallet.
PanelFairness ==
  /\ WF_panelVars(PollTick)
  /\ WF_panelVars(\E i \in 1..MaxAnswers : AnswerArrives(i))
  /\ \A q \in PanelQuotes : WF_panelVars(\E status \in Settled : SettleSwap(q, status))

\* A panel that waits for confirmation does not wait for ever, although intervals are
\* replaced and stopped by answers about other trades.
PendingEnds ==
  PanelFairness => (panel.step = "pending" ~> panel.step \in {"confirmed", "failed"})
=============================================================================
