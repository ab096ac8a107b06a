------------------------------ MODULE PnlLedger ------------------------------
(***************************************************************************)
(* The realized-profit ledger: sweepers turn CONFIRMED trades into lots    *)
(* (buys) and into events that consume lots first in, first out (sells),   *)
(* pnl-ledger-sweep.ts, on top of what TradeLedger promises of the trades. *)
(*                                                                         *)
(* A sweeper reads a batch of rows once and then works from that copy, one *)
(* database transaction per row; in between, other sweepers and the trades *)
(* themselves move on.  Transactions on one position (user, chain, token)  *)
(* exclude each other through an advisory lock, here the fact that a       *)
(* transaction on the position is open; their writes appear at commit.     *)
(***************************************************************************)
EXTENDS TradeLedger, Integers

CONSTANTS Side,           \* Side[q]: "BUY" or "SELL"
          Amount,         \* Amount[q]: raw units of the traded token
          Position,       \* Position[q]: user, chain and token, the key of lots and lock
          Priceable,      \* rows that can be valued in dollars
          Skippable,      \* rows whose price or token decimals may be unknown when swept
          Sweepers,       \* worker processes with the sweep enabled
          BatchSize,
          MaxTime,        \* bound on the times stamped on a confirmation
          DatabaseFails   \* a database call may fail, a worker may restart

ASSUME PnlAssumption ==
    /\ None \notin Quotes \cup Hashes
    /\ Quoted \in [Quotes -> SUBSET Hashes]
    /\ Side \in [Quotes -> {"BUY", "SELL"}]
    /\ Amount \in [Quotes -> Nat \ {0}]
    /\ Priceable \cup Skippable = Quotes
    /\ BatchSize \in Nat \ {0}
    /\ MaxTime \in Nat \ {0}

VARIABLES confirmedAt,  \* confirmedAt[q]: time of the last confirmation, 0 for none
          processed,    \* rows with pnlProcessedAt set
          lot,          \* lot[b]: the TokenLot of buy b, acquiredAt 0 when there is none
          matched,      \* keys <<sell, lot>> of the RealizedPnlEvent rows
          sold,         \* sold[b]: sum of quantityMatchedRaw over the events of lot b
          booked,       \* booked[s]: sum of quantityMatchedRaw over the events of sell s
          batch,        \* batch[w]: rows of the sweep that w has not come to yet
          tx            \* tx[w]: the open transaction of w, quote None when there is none

books == <<processed, lot, matched, sold, booked>>
pnlVars == <<ledgerVars, confirmedAt, books, batch, tx>>

Time == 1..MaxTime
Row == [quote : Quotes, at : Time]
NoLot == [acquiredAt |-> 0, remaining |-> 0]
Nothing == [b \in Quotes |-> 0]

NoTx == [quote |-> None, at |-> 0, left |-> 0, open |-> Nothing, taken |-> Nothing]

PnlInit ==
    /\ LedgerInit
    /\ confirmedAt = [q \in Quotes |-> 0]
    /\ processed = {}
    /\ lot = [b \in Quotes |-> NoLot]
    /\ matched = {}
    /\ sold = Nothing
    /\ booked = Nothing
    /\ batch = [w \in Sweepers |-> {}]
    /\ tx = [w \in Sweepers |-> NoTx]

-----------------------------------------------------------------------------
(* The trades. *)

\* The confirming process reads its clock before its update reaches the
\* database, so the times become visible in any order.
ConfirmTrade(q) ==
    /\ Confirm(q)
    /\ \E t \in Time : confirmedAt' = [confirmedAt EXCEPT ![q] = t]
    /\ UNCHANGED <<books, batch, tx>>

OtherTradeStep ==
    /\ Settle \/ \E q \in Quotes : (\E h \in Hashes : Open(q, h)) \/ GiveUp(q)
    /\ UNCHANGED <<confirmedAt, books, batch, tx>>

-----------------------------------------------------------------------------
(* One tick of a sweeper. *)

\* Mutants: the query without its status filter, and without its marker filter.
DueAnyStatus == {q \in Quotes : book[q].status # "NONE" /\ q \notin processed}
DueAgain == {q \in Quotes : book[q].status = "CONFIRMED"}

Due == {q \in Quotes : book[q].status = "CONFIRMED" /\ q \notin processed}

\* A tick starts when the previous one is over.
Query(w) ==
    /\ tx[w].quote = None /\ batch[w] = {}
    /\ \E T \in SUBSET Due \ {{}} :
          /\ Cardinality(T) <= BatchSize
          /\ T = Due \/ Cardinality(T) = BatchSize
          /\ \A q \in T, d \in Due \ T : confirmedAt[q] <= confirmedAt[d]
          /\ batch' = [batch EXCEPT ![w] = {[quote |-> q, at |-> confirmedAt[q]] : q \in T}]
    /\ UNCHANGED <<ledgerVars, confirmedAt, books, tx>>

\* The row the loop of w comes to next; rows of one time come in either order.
IsNext(w, r) == r \in batch[w] /\ \A r2 \in batch[w] : r.at <= r2.at

\* A row that cannot be valued is marked and nothing else, outside any lock.
\* The decimals of a token may be learnt at any time, so a row can be both
\* Priceable and Skippable.
Skip(w) ==
    /\ tx[w].quote = None
    /\ \E r \in batch[w] :
          /\ IsNext(w, r) /\ r.quote \in Skippable
          /\ processed' = processed \cup {r.quote}
          /\ batch' = [batch EXCEPT ![w] = @ \ {r}]
    /\ UNCHANGED <<ledgerVars, confirmedAt, lot, matched, sold, booked, tx>>

Locked(p) == \E w \in Sweepers : tx[w].quote # None /\ Position[tx[w].quote] = p

OpenLots(q) ==
    [b \in Quotes |-> IF Side[q] = "SELL" /\ Position[b] = Position[q]
                      THEN lot[b].remaining ELSE 0]

Opened(r) ==
    [quote |-> r.quote, at |-> r.at, left |-> Amount[r.quote],
     open |-> OpenLots(r.quote), taken |-> Nothing]

\* A mutant: no lock.
BeginUnlocked(w) ==
    /\ tx[w].quote = None
    /\ \E r \in batch[w] :
          /\ IsNext(w, r) /\ r.quote \in Priceable
          /\ batch' = [batch EXCEPT ![w] = @ \ {r}]
          /\ tx' = [tx EXCEPT ![w] = Opened(r)]
    /\ UNCHANGED <<ledgerVars, confirmedAt, books>>

\* Take the lock and, for a sell, read the open lots of the position.
Begin(w) ==
    /\ tx[w].quote = None
    /\ \E r \in batch[w] :
          /\ IsNext(w, r) /\ r.quote \in Priceable
          /\ ~Locked(Position[r.quote])
          /\ batch' = [batch EXCEPT ![w] = @ \ {r}]
          /\ tx' = [tx EXCEPT ![w] = Opened(r)]
    /\ UNCHANGED <<ledgerVars, confirmedAt, books>>

CommitBuy(w) ==
    LET t == tx[w] IN
    /\ t.quote # None /\ Side[t.quote] = "BUY"
    /\ lot[t.quote].acquiredAt = 0
    /\ lot' = [lot EXCEPT ![t.quote] = [acquiredAt |-> t.at, remaining |-> Amount[t.quote]]]
    /\ processed' = processed \cup {t.quote}
    /\ tx' = [tx EXCEPT ![w] = NoTx]
    /\ UNCHANGED <<ledgerVars, confirmedAt, matched, sold, booked, batch>>

\* Mutant: only lots older than the sell are considered.
UnmatchedOlder(t) == {b \in Quotes : t.open[b] > 0 /\ t.taken[b] = 0 /\ lot[b].acquiredAt < t.at}

Unmatched(t) == {b \in Quotes : t.open[b] > 0 /\ t.taken[b] = 0}

Used(t, b, qty) ==
    [quote |-> t.quote, at |-> t.at, left |-> t.left - qty,
     open |-> t.open, taken |-> [t.taken EXCEPT ![b] = qty]]

\* A mutant: the open lots without their order.
MatchAnyLot(w) ==
    LET t == tx[w] IN
    /\ t.quote # None /\ Side[t.quote] = "SELL" /\ t.left > 0
    /\ \E b \in Unmatched(t) :
          LET qty == IF t.left < t.open[b] THEN t.left ELSE t.open[b] IN
          tx' = [tx EXCEPT ![w] = Used(t, b, qty)]
    /\ UNCHANGED <<ledgerVars, confirmedAt, books, batch>>

\* One round of the matching loop: the oldest lot not yet used.
MatchLot(w) ==
    LET t == tx[w] IN
    /\ t.quote # None /\ Side[t.quote] = "SELL" /\ t.left > 0
    /\ \E b \in Unmatched(t) :
          /\ \A b2 \in Unmatched(t) : lot[b].acquiredAt <= lot[b2].acquiredAt
          /\ LET qty == IF t.left < t.open[b] THEN t.left ELSE t.open[b] IN
             tx' = [tx EXCEPT ![w] = Used(t, b, qty)]
    /\ UNCHANGED <<ledgerVars, confirmedAt, books, batch>>

Matches(t) == {b \in Quotes : t.taken[b] > 0}

\* The event table holds one row per sell and lot.
DuplicateEvent(t) == \E b \in Matches(t) : <<t.quote, b>> \in matched

CommitSell(w) ==
    LET t == tx[w] IN
    /\ t.quote # None /\ Side[t.quote] = "SELL"
    /\ t.left = 0 \/ Unmatched(t) = {}
    /\ ~DuplicateEvent(t)
    /\ lot' = [b \in Quotes |-> IF b \in Matches(t)
                                THEN [acquiredAt |-> lot[b].acquiredAt,
                                      remaining |-> t.open[b] - t.taken[b]]
                                ELSE lot[b]]
    /\ matched' = matched \cup {<<t.quote, b>> : b \in Matches(t)}
    /\ sold' = [b \in Quotes |-> sold[b] + t.taken[b]]
    /\ booked' = [booked EXCEPT ![t.quote] = @ + (Amount[t.quote] - t.left)]
    /\ processed' = processed \cup {t.quote}
    /\ tx' = [tx EXCEPT ![w] = NoTx]
    /\ UNCHANGED <<ledgerVars, confirmedAt, batch>>

\* A failed row is rolled back, logged and left for a later tick, and the
\* loop goes on.  A key that exists already fails the row as well.
DuplicateKey(t) ==
    \/ Side[t.quote] = "BUY" /\ lot[t.quote].acquiredAt # 0
    \/ Side[t.quote] = "SELL" /\ DuplicateEvent(t)

RollBack(w) ==
    /\ tx[w].quote # None
    /\ DatabaseFails \/ DuplicateKey(tx[w])
    /\ tx' = [tx EXCEPT ![w] = NoTx]
    /\ UNCHANGED <<ledgerVars, confirmedAt, books, batch>>

FailRow(w) ==
    /\ DatabaseFails /\ tx[w].quote = None
    /\ \E r \in batch[w] : IsNext(w, r) /\ batch' = [batch EXCEPT ![w] = @ \ {r}]
    /\ UNCHANGED <<ledgerVars, confirmedAt, books, tx>>

\* A worker that restarts loses its batch and its open transaction.
Restart(w) ==
    /\ DatabaseFails /\ batch[w] # {}
    /\ batch' = [batch EXCEPT ![w] = {}]
    /\ tx' = [tx EXCEPT ![w] = NoTx]
    /\ UNCHANGED <<ledgerVars, confirmedAt, books>>

-----------------------------------------------------------------------------
SweepStep(w) ==
    Query(w) \/ Skip(w) \/ Begin(w) \/ CommitBuy(w) \/ MatchLot(w) \/ CommitSell(w)

PnlNext ==
    \/ \E q \in Quotes : ConfirmTrade(q)
    \/ OtherTradeStep
    \/ \E w \in Sweepers : SweepStep(w) \/ RollBack(w) \/ FailRow(w) \/ Restart(w)

PnlSpec == PnlInit /\ [][PnlNext]_pnlVars

\* The ticker of a worker keeps calling the sweep, whose loop keeps running.
PnlFairness == \A w \in Sweepers : WF_pnlVars(SweepStep(w) \/ RollBack(w))

-----------------------------------------------------------------------------
(* Properties. *)

OpenTx ==
    [quote : Quotes, at : Time, left : Nat,
     open : [Quotes -> Nat], taken : [Quotes -> Nat]]

\* Type invariant of the ledger, its tables and the sweepers.
PnlTypeOK ==
    /\ settled \subseteq Hashes
    /\ book \in [Quotes -> [hash : Hashes \cup {None},
                            status : {"NONE", "PENDING", "CONFIRMED", "FAILED", "EXPIRED"}]]
    /\ confirmedAt \in [Quotes -> Time \cup {0}]
    /\ processed \subseteq Quotes
    /\ lot \in [Quotes -> [acquiredAt : Time \cup {0}, remaining : Nat]]
    /\ matched \subseteq Quotes \X Quotes
    /\ sold \in [Quotes -> Nat]
    /\ booked \in [Quotes -> Nat]
    /\ batch \in [Sweepers -> SUBSET Row]
    /\ tx \in [Sweepers -> OpenTx \cup {NoTx}]

\* Every unit of a lot is either still open or in exactly one event,
\* however many sweepers work on the position: matchAndRecordSell writes
\* back quantities it computed from an earlier read of the lots.
LotConserved ==
    \A b \in Quotes :
        IF lot[b].acquiredAt = 0
        THEN lot[b].remaining = 0 /\ sold[b] = 0
        ELSE lot[b].remaining + sold[b] = Amount[b]

\* Lots and events exist only for trades whose transaction is the quoted
\* one and settled, although a sweeper works from a copy of the row and the
\* status may have changed since it was read.
BookedIsSettled ==
    \A q \in Quotes :
        lot[q].acquiredAt # 0 \/ booked[q] > 0 => book[q].hash \in Quoted[q] \cap settled

\* A buy that can be valued is marked processed exactly when its lot exists: a
\* crash between the two writes of processEvmRow leaves neither.
MarkedWithItsLot ==
    \A q \in Quotes :
        Side[q] = "BUY" /\ q \notin Skippable => (q \in processed <=> lot[q].acquiredAt # 0)

\* What the sweep wrote for a trade is backed by a settled transaction, and whole.
BookedSafety == BookedIsSettled /\ MarkedWithItsLot

\* The documentation's promise for the lock, "the correctness backstop
\* regardless of how many replicas end up running it": no sell is booked
\* for more than was sold.
SellBookedOnce == \A s \in Quotes : booked[s] <= Amount[s]

\* First in, first out on the committed tables: no step takes from a lot
\* while an older lot of the same position stays open, lots that other
\* sweepers create meanwhile included.
OldestLotFirst ==
    [][\A b1, b2 \in Quotes :
          /\ Position[b1] = Position[b2]
          /\ lot'[b2].remaining < lot[b2].remaining
          /\ lot'[b1].acquiredAt # 0
          /\ lot'[b1].acquiredAt < lot'[b2].acquiredAt
          => lot'[b1].remaining = 0]_pnlVars

\* A sell that can be valued and is marked processed is booked in full, unless there
\* was nothing left to match it with: the rest of matchFifoSell is written
\* nowhere only when the position holds no open lot any more.
UnmatchedOnlyWhenEmpty ==
    [][\A s \in Quotes :
          Side[s] = "SELL" /\ s \notin Skippable /\ s \notin processed /\ s \in processed' =>
             \/ booked'[s] = Amount[s]
             \/ \A b \in Quotes : Position[b] = Position[s] => lot'[b].remaining = 0]_pnlVars

\* A trade that is CONFIRMED is accounted for in the end, whatever its place
\* in the backlog and however small the batch, or stops being CONFIRMED.
ConfirmedIsAccounted ==
    PnlFairness => \A q \in Quotes :
        book[q].status = "CONFIRMED" ~> (q \in processed \/ book[q].status # "CONFIRMED")
=============================================================================
