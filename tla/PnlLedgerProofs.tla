--------------------------- MODULE PnlLedgerProofs ---------------------------
(***************************************************************************)
(* Proofs about PnlLedger for any rows, amounts, positions, batch size and *)
(* number of sweepers.                                                     *)
(***************************************************************************)
EXTENDS PnlLedger, TLAPS

\* The transaction recorded for q is the quoted one and settled.
Backed(q) == book[q].hash \in Quoted[q] \cap settled

\* What a sweeper works on is backed, even if its status changed meanwhile.
WorkBacked ==
    /\ \A q \in Quotes : book[q].status = "CONFIRMED" => Backed(q)
    /\ \A w \in Sweepers :
          /\ \A r \in batch[w] : Backed(r.quote)
          /\ tx[w].quote # None => Backed(tx[w].quote)

\* A confirmation is stamped by the update that writes it.
ConfirmedIsStamped == \A q \in Quotes : book[q].status = "CONFIRMED" => confirmedAt[q] # 0

\* The lock: open transactions are on different positions.
Exclusive ==
    \A w1, w2 \in Sweepers :
        tx[w1].quote # None /\ tx[w2].quote # None /\ w1 # w2
            => Position[tx[w1].quote] # Position[tx[w2].quote]

\* An open transaction: the lots it read are still what the table holds, it
\* has used them oldest first, and all of a lot before the next.
TxInv(t) ==
    t.quote # None =>
        /\ t.open = OpenLots(t.quote)
        /\ t.left <= Amount[t.quote]
        /\ \A b \in Quotes :
              /\ t.taken[b] <= t.open[b]
              /\ t.taken[b] > 0 /\ t.taken[b] < t.open[b] => t.left = 0
        /\ \A b, b2 \in Quotes :
              t.taken[b] > 0 /\ t.open[b2] > 0 /\ lot[b2].acquiredAt < lot[b].acquiredAt
                  => t.taken[b2] = t.open[b2]

BookedIsMarked == \A s \in Quotes : booked[s] > 0 => s \in processed

PnlInv ==
    /\ PnlTypeOK
    /\ LotConserved
    /\ ConfirmedIsStamped
    /\ WorkBacked
    /\ BookedIsSettled
    /\ Exclusive
    /\ \A w \in Sweepers : TxInv(tx[w])

\* No sell is in the hands of two sweepers at once, in a batch or in a transaction.
Sells == {q \in Quotes : Side[q] = "SELL"}
Holds(w, q) == tx[w].quote = q \/ \E r \in batch[w] : r.quote = q
SellsApart == \A s \in Sells, w1, w2 \in Sweepers : Holds(w1, s) /\ Holds(w2, s) => w1 = w2

\* While that is so, the sells a sweeper has at hand are unprocessed and each there once.
AtHandOnce(w) ==
    /\ tx[w].quote \in Sells => tx[w].quote \notin processed
    /\ \A r \in batch[w] : r.quote \in Sells => r.quote \notin processed /\ r.quote # tx[w].quote
    /\ \A r1, r2 \in batch[w] : r1.quote = r2.quote => r1 = r2

OnceInv == SellBookedOnce /\ BookedIsMarked /\ \A w \in Sweepers : AtHandOnce(w)

-----------------------------------------------------------------------------
\* The initial state satisfies the invariant.
LEMMA InitPnlInv == PnlInit => PnlInv
<1> SUFFICES ASSUME PnlInit PROVE PnlInv
    OBVIOUS
<1> USE PnlAssumption DEF PnlInit, LedgerInit, Nothing, NoLot, NoTx
<1>1. PnlTypeOK
    BY DEF PnlTypeOK, Time
<1>2. LotConserved /\ BookedIsSettled
    BY DEF LotConserved, BookedIsSettled
<1>3. ConfirmedIsStamped
    BY DEF ConfirmedIsStamped
<1>4. WorkBacked /\ Exclusive /\ \A w \in Sweepers : TxInv(tx[w])
    BY DEF WorkBacked, Exclusive, TxInv
<1> QED
    BY <1>1, <1>2, <1>3, <1>4 DEF PnlInv

\* What is backed stays backed: a trade keeps its hash and settled
\* transactions stay settled.
LEMMA BackedStays ==
    ASSUME PnlTypeOK, [PnlNext]_pnlVars, NEW q \in Quotes, Backed(q)
    PROVE  Backed(q)'
<1>1. CASE \E q2 \in Quotes : ConfirmTrade(q2)
    BY <1>1 DEF ConfirmTrade, Confirm, Backed, PnlTypeOK
<1>2. CASE OtherTradeStep
  <2>1. CASE Settle
    BY <2>1 DEF Settle, Backed
  <2>2. CASE \E q2 \in Quotes, h \in Hashes : Open(q2, h)
    <3> PICK q2 \in Quotes, h \in Hashes : Open(q2, h)
        BY <2>2
    <3> q # q2
        BY PnlAssumption DEF Open, Backed
    <3> QED
        BY DEF Open, Backed, PnlTypeOK
  <2>3. CASE \E q2 \in Quotes : GiveUp(q2)
    BY <2>3 DEF GiveUp, Backed, PnlTypeOK
  <2> QED
    BY <1>2, <2>1, <2>2, <2>3 DEF OtherTradeStep
<1>3. CASE UNCHANGED <<settled, book>>
    BY <1>3 DEF Backed
<1> QED
    BY <1>1, <1>2, <1>3
    DEF PnlNext, SweepStep, Query, Skip, Begin, CommitBuy, MatchLot, CommitSell,
        RollBack, FailRow, Restart, ledgerVars, pnlVars

\* The steps of the trades leave lots, batches and transactions alone.
LEMMA TradeStepKeepsPnlInv ==
    ASSUME PnlInv, (\E q \in Quotes : ConfirmTrade(q)) \/ OtherTradeStep
    PROVE  PnlInv'
<1>0. PnlTypeOK /\ [PnlNext]_pnlVars
    BY DEF PnlInv, PnlNext
<1>1. UNCHANGED <<books, batch, tx>>
    BY DEF ConfirmTrade, OtherTradeStep
<1>2. PnlTypeOK'
  <2>1. CASE \E q \in Quotes : ConfirmTrade(q)
    <3> PICK q \in Quotes : ConfirmTrade(q)
        BY <2>1
    <3>1. (settled \subseteq Hashes)' /\ (confirmedAt \in [Quotes -> Time \cup {0}])'
        BY <1>0 DEF PnlTypeOK, ConfirmTrade, Confirm
    <3>2. (book \in [Quotes -> [hash : Hashes \cup {None}, status : {"NONE", "PENDING", "CONFIRMED", "FAILED", "EXPIRED"}]])'
        BY <1>0 DEF PnlTypeOK, ConfirmTrade, Confirm
    <3> QED
        BY <1>0, <1>1, <3>1, <3>2 DEF PnlTypeOK, books
  <2>2. CASE OtherTradeStep
    <3>1. (settled \subseteq Hashes)' /\ (confirmedAt \in [Quotes -> Time \cup {0}])'
        BY <1>0, <2>2 DEF PnlTypeOK, OtherTradeStep, Settle, Open, GiveUp
    <3>2. (book \in [Quotes -> [hash : Hashes \cup {None}, status : {"NONE", "PENDING", "CONFIRMED", "FAILED", "EXPIRED"}]])'
      <4>1. book \in [Quotes -> [hash : Hashes \cup {None}, status : {"NONE", "PENDING", "CONFIRMED", "FAILED", "EXPIRED"}]]
          BY <1>0 DEF PnlTypeOK
      <4>2. CASE Settle
          BY <4>1, <4>2 DEF Settle
      <4>3. ASSUME NEW q \in Quotes, NEW h \in Hashes, Open(q, h)
            PROVE  (book \in [Quotes -> [hash : Hashes \cup {None}, status : {"NONE", "PENDING", "CONFIRMED", "FAILED", "EXPIRED"}]])'
          BY <4>1, <4>3 DEF Open
      <4>4. ASSUME NEW q \in Quotes, GiveUp(q)
            PROVE  (book \in [Quotes -> [hash : Hashes \cup {None}, status : {"NONE", "PENDING", "CONFIRMED", "FAILED", "EXPIRED"}]])'
          BY <4>1, <4>4 DEF GiveUp
      <4> QED
          BY <2>2, <4>2, <4>3, <4>4 DEF OtherTradeStep
    <3> QED
        BY <1>0, <1>1, <3>1, <3>2 DEF PnlTypeOK, books
  <2> QED
    BY <2>1, <2>2
<1>3. WorkBacked'
  <2>1. ASSUME NEW q \in Quotes, book'[q].status = "CONFIRMED"
        PROVE  Backed(q)'
    <3>1. CASE book[q].status = "CONFIRMED"
        BY <1>0, <3>1, BackedStays DEF PnlInv, WorkBacked
    <3>2. CASE book[q].status # "CONFIRMED"
      <4>1. Confirm(q)
        <5>1. CASE \E q2 \in Quotes : ConfirmTrade(q2)
          <6> PICK q2 \in Quotes : Confirm(q2)
              BY <5>1 DEF ConfirmTrade
          <6>1. q = q2
              BY <1>0, <2>1, <3>2 DEF Confirm, PnlTypeOK
          <6> QED
              BY <6>1
        <5>2. CASE OtherTradeStep
          <6>1. ~Settle
              BY <2>1, <3>2 DEF Settle
          <6>2. ASSUME NEW q2 \in Quotes, NEW h \in Hashes PROVE ~Open(q2, h)
              BY <1>0, <2>1, <3>2 DEF Open, PnlTypeOK
          <6>3. ASSUME NEW q2 \in Quotes PROVE ~GiveUp(q2)
              BY <1>0, <2>1, <3>2 DEF GiveUp, PnlTypeOK
          <6> QED
              BY <5>2, <6>1, <6>2, <6>3 DEF OtherTradeStep
        <5> QED
            BY <5>1, <5>2
      <4> QED
          BY <1>0, <4>1 DEF Confirm, Backed, PnlTypeOK
    <3> QED
        BY <3>1, <3>2
  <2>2. ASSUME NEW w \in Sweepers
        PROVE  (/\ \A r \in batch[w] : Backed(r.quote)
                /\ tx[w].quote # None => Backed(tx[w].quote))'
    <3>1. \A r \in batch[w] : r.quote \in Quotes /\ Backed(r.quote)
        BY DEF PnlInv, PnlTypeOK, WorkBacked, Row
    <3>2. tx[w].quote # None => tx[w].quote \in Quotes /\ Backed(tx[w].quote)
        BY DEF PnlInv, PnlTypeOK, WorkBacked, OpenTx, NoTx
    <3>3. \A q \in Quotes : Backed(q) => Backed(q)'
        BY <1>0, BackedStays
    <3> QED
        BY <1>1, <3>1, <3>2, <3>3 DEF Backed
  <2> QED
    BY <2>1, <2>2 DEF WorkBacked
<1>4. BookedIsSettled'
  <2>1. ASSUME NEW q \in Quotes, lot[q].acquiredAt # 0 \/ booked[q] > 0
        PROVE  Backed(q)'
    <3> Backed(q)
        BY <2>1 DEF PnlInv, BookedIsSettled, Backed
    <3> QED
        BY <1>0, BackedStays
  <2> QED
      BY <1>1, <2>1 DEF BookedIsSettled, Backed, books
<1>5. LotConserved' /\ Exclusive'
    BY <1>1 DEF PnlInv, LotConserved, Exclusive, books
<1>6. ConfirmedIsStamped'
  <2>1. CASE \E q \in Quotes : ConfirmTrade(q)
    <3> PICK q \in Quotes : ConfirmTrade(q)
        BY <2>1
    <3> QED
        BY <1>0 DEF PnlInv, ConfirmedIsStamped, PnlTypeOK, ConfirmTrade, Confirm, Time
  <2>2. CASE OtherTradeStep
    <3>1. \A q \in Quotes : book'[q].status = "CONFIRMED" => book[q].status = "CONFIRMED"
        BY <1>0, <2>2 DEF PnlTypeOK, OtherTradeStep, Settle, Open, GiveUp
    <3> QED
        BY <2>2, <3>1 DEF PnlInv, ConfirmedIsStamped, OtherTradeStep
  <2> QED
    BY <2>1, <2>2
<1>7. \A w \in Sweepers : TxInv(tx[w])'
    BY <1>1 DEF PnlInv, TxInv, OpenLots, books
<1> QED
    BY <1>2, <1>3, <1>4, <1>5, <1>6, <1>7 DEF PnlInv

\* What a transaction holds is about the lots only: it stays true of the same
\* transaction while the lots do not change.
LEMMA SameLotsKeepTxInv ==
    ASSUME lot' = lot, NEW w \in Sweepers, NEW t, tx'[w] = t, TxInv(t)
    PROVE  TxInv(tx[w])'
BY DEF TxInv, OpenLots

\* Reading a batch: only CONFIRMED rows are read, and those are backed.
LEMMA QueryKeepsPnlInv ==
    ASSUME PnlInv, NEW w \in Sweepers, Query(w)
    PROVE  PnlInv'
<1>1. UNCHANGED <<settled, book, confirmedAt, processed, lot, matched, sold, booked, tx>>
    BY DEF Query, ledgerVars, books
<1>2. PICK T \in SUBSET Due :
         batch' = [batch EXCEPT ![w] = {[quote |-> q, at |-> confirmedAt[q]] : q \in T}]
    BY DEF Query
<1>3. \A q \in T : q \in Quotes /\ Backed(q) /\ confirmedAt[q] \in Time
  <2> SUFFICES ASSUME NEW q \in T PROVE q \in Quotes /\ Backed(q) /\ confirmedAt[q] \in Time
      OBVIOUS
  <2>1. q \in Quotes /\ book[q].status = "CONFIRMED"
      BY DEF Due
  <2>2. Backed(q)
      BY <2>1 DEF PnlInv, WorkBacked
  <2>3. confirmedAt[q] # 0
      BY <2>1 DEF PnlInv, ConfirmedIsStamped
  <2> QED
      BY <2>1, <2>2, <2>3 DEF PnlInv, PnlTypeOK
<1>4. PnlTypeOK'
  <2> batch' \in [Sweepers -> SUBSET Row]
      BY <1>2, <1>3 DEF PnlInv, PnlTypeOK, Row
  <2> QED
      BY <1>1 DEF PnlInv, PnlTypeOK
<1>5. WorkBacked'
  <2>1. ASSUME NEW w2 \in Sweepers, NEW r \in batch'[w2] PROVE Backed(r.quote)
    <3>1. CASE w2 = w
      <4> PICK q \in T : r = [quote |-> q, at |-> confirmedAt[q]]
          BY <1>2, <3>1 DEF PnlInv, PnlTypeOK
      <4> QED
          BY <1>3
    <3>2. CASE w2 # w
        BY <1>2, <3>2 DEF PnlInv, PnlTypeOK, WorkBacked
    <3> QED
        BY <3>1, <3>2
  <2> QED
      BY <1>1, <2>1 DEF PnlInv, WorkBacked, Backed
<1>6. LotConserved' /\ BookedIsSettled' /\ Exclusive' /\ ConfirmedIsStamped'
    BY <1>1 DEF PnlInv, LotConserved, BookedIsSettled, Exclusive, ConfirmedIsStamped
<1>7. \A w2 \in Sweepers : TxInv(tx[w2])'
    BY <1>1 DEF PnlInv, TxInv, OpenLots
<1> QED
    BY <1>4, <1>5, <1>6, <1>7 DEF PnlInv

\* Skipping or failing a row only shortens a batch.
LEMMA DropKeepsPnlInv ==
    ASSUME PnlInv, NEW w \in Sweepers, Skip(w) \/ FailRow(w)
    PROVE  PnlInv'
<1>1. UNCHANGED <<settled, book, confirmedAt, lot, matched, sold, booked, tx>>
    BY DEF Skip, FailRow, ledgerVars, books
<1>2. PICK r \in batch[w] : batch' = [batch EXCEPT ![w] = @ \ {r}]
    BY DEF Skip, FailRow
<1>3. batch' \in [Sweepers -> SUBSET Row] /\ \A w2 \in Sweepers : batch'[w2] \subseteq batch[w2]
    BY <1>2 DEF PnlInv, PnlTypeOK
<1>4. processed' \subseteq Quotes
    BY DEF PnlInv, PnlTypeOK, Row, Skip, FailRow, books
<1>5. PnlTypeOK'
    BY <1>1, <1>3, <1>4 DEF PnlInv, PnlTypeOK
<1>6. WorkBacked'
    BY <1>1, <1>3 DEF PnlInv, WorkBacked, Backed
<1>7. LotConserved' /\ BookedIsSettled' /\ Exclusive' /\ ConfirmedIsStamped'
    BY <1>1 DEF PnlInv, LotConserved, BookedIsSettled, Exclusive, ConfirmedIsStamped
<1>8. \A w2 \in Sweepers : TxInv(tx[w2])'
    BY <1>1 DEF PnlInv, TxInv, OpenLots
<1> QED
    BY <1>5, <1>6, <1>7, <1>8 DEF PnlInv

\* Giving up a transaction writes nothing.
LEMMA UndoKeepsPnlInv ==
    ASSUME PnlInv, NEW w \in Sweepers, RollBack(w) \/ Restart(w)
    PROVE  PnlInv'
<1>1. UNCHANGED <<settled, book, confirmedAt, processed, lot, matched, sold, booked>>
    BY DEF RollBack, Restart, ledgerVars, books
<1>2. tx' = [tx EXCEPT ![w] = NoTx]
    BY DEF RollBack, Restart
<1>3. batch' \in [Sweepers -> SUBSET Row] /\ \A w2 \in Sweepers : batch'[w2] \subseteq batch[w2]
    BY DEF PnlInv, PnlTypeOK, RollBack, Restart
<1>4. /\ tx' \in [Sweepers -> OpenTx \cup {NoTx}]
      /\ \A w2 \in Sweepers : tx'[w2].quote # None => tx'[w2] = tx[w2]
    BY <1>2 DEF PnlInv, PnlTypeOK, NoTx
<1>5. PnlTypeOK'
    BY <1>1, <1>3, <1>4 DEF PnlInv, PnlTypeOK
<1>6. WorkBacked'
    BY <1>1, <1>3, <1>4 DEF PnlInv, WorkBacked, Backed
<1>7. LotConserved' /\ BookedIsSettled' /\ ConfirmedIsStamped'
    BY <1>1 DEF PnlInv, LotConserved, BookedIsSettled, ConfirmedIsStamped
<1>8. Exclusive'
    BY <1>4 DEF PnlInv, Exclusive
<1>9. \A w2 \in Sweepers : TxInv(tx[w2])'
  <2> TAKE w2 \in Sweepers
  <2>1. CASE tx'[w2].quote = None
      BY <2>1 DEF TxInv
  <2>2. CASE tx'[w2].quote # None
    <3>1. tx'[w2] = tx[w2]
        BY <1>4, <2>2
    <3>2. TxInv(tx[w2])
        BY DEF PnlInv
    <3> QED
        BY <1>1, <3>1, <3>2, SameLotsKeepTxInv
  <2> QED
      BY <2>1, <2>2
<1> QED
    BY <1>5, <1>6, <1>7, <1>8, <1>9 DEF PnlInv

\* Opening a transaction: the lock makes it the only one on its position,
\* and what it reads of the lots is what the table holds.
LEMMA BeginKeepsPnlInv ==
    ASSUME PnlInv, NEW w \in Sweepers, Begin(w)
    PROVE  PnlInv'
<1>1. UNCHANGED <<settled, book, confirmedAt, processed, lot, matched, sold, booked>>
    BY DEF Begin, ledgerVars, books
<1>2. PICK r \in batch[w] :
         /\ ~Locked(Position[r.quote])
         /\ batch' = [batch EXCEPT ![w] = @ \ {r}]
         /\ tx' = [tx EXCEPT ![w] = Opened(r)]
    BY DEF Begin
<1>3. r \in Row /\ Backed(r.quote)
    BY DEF PnlInv, PnlTypeOK, WorkBacked
<1>4. Opened(r) \in OpenTx /\ Opened(r).quote = r.quote
    BY <1>3, PnlAssumption
    DEF PnlInv, PnlTypeOK, Opened, OpenTx, OpenLots, Row, Nothing
<1>5. batch' \in [Sweepers -> SUBSET Row] /\ \A w2 \in Sweepers : batch'[w2] \subseteq batch[w2]
    BY <1>2 DEF PnlInv, PnlTypeOK
<1>6. /\ tx' \in [Sweepers -> OpenTx \cup {NoTx}]
      /\ tx'[w] = Opened(r)
      /\ \A w2 \in Sweepers : w2 # w => tx'[w2] = tx[w2]
    BY <1>2, <1>4 DEF PnlInv, PnlTypeOK
<1>7. PnlTypeOK'
    BY <1>1, <1>5, <1>6 DEF PnlInv, PnlTypeOK
<1>8. WorkBacked'
    BY <1>1, <1>3, <1>4, <1>5, <1>6 DEF PnlInv, WorkBacked, Backed
<1>9. LotConserved' /\ BookedIsSettled' /\ ConfirmedIsStamped'
    BY <1>1 DEF PnlInv, LotConserved, BookedIsSettled, ConfirmedIsStamped
<1>10. Exclusive'
  <2>1. \A w2 \in Sweepers : tx[w2].quote # None => Position[tx[w2].quote] # Position[r.quote]
      BY <1>2 DEF Locked
  <2> QED
      BY <1>4, <1>6, <2>1 DEF PnlInv, Exclusive
<1>11. TxInv(Opened(r))
    BY <1>3, PnlAssumption
    DEF PnlInv, PnlTypeOK, Opened, TxInv, OpenLots, Row, Nothing
<1>12. \A w2 \in Sweepers : TxInv(tx[w2])'
    BY <1>1, <1>6, <1>11 DEF PnlInv, TxInv, OpenLots
<1> QED
    BY <1>7, <1>8, <1>9, <1>10, <1>12 DEF PnlInv

\* A round of the matching loop keeps the order in which lots are used.
LEMMA UsedKeepsTxInv ==
    ASSUME PnlTypeOK, NEW t \in OpenTx, TxInv(t), t.left > 0,
           NEW b \in Unmatched(t),
           \A b2 \in Unmatched(t) : lot[b].acquiredAt <= lot[b2].acquiredAt,
           NEW qty, qty = IF t.left < t.open[b] THEN t.left ELSE t.open[b]
    PROVE  Used(t, b, qty) \in OpenTx /\ TxInv(Used(t, b, qty))
<1>1. /\ b \in Quotes /\ t.open[b] \in Nat /\ t.open[b] > 0 /\ t.taken[b] = 0
      /\ t.left \in Nat /\ t.quote \in Quotes /\ t.quote # None
    BY PnlAssumption DEF Unmatched, OpenTx
<1>2. qty \in Nat /\ qty > 0 /\ qty <= t.left /\ qty <= t.open[b]
    BY <1>1
<1> DEFINE u == Used(t, b, qty)
<1>3. /\ u.quote = t.quote /\ u.at = t.at /\ u.open = t.open /\ u.left = t.left - qty
      /\ u.taken = [t.taken EXCEPT ![b] = qty]
      /\ u = [quote |-> t.quote, at |-> t.at, left |-> t.left - qty,
              open |-> t.open, taken |-> [t.taken EXCEPT ![b] = qty]]
    BY DEF OpenTx, Used
<1> HIDE DEF u
<1>4. u \in OpenTx
    BY <1>1, <1>2, <1>3 DEF OpenTx
<1>5. /\ u.taken[b] = qty
      /\ \A b2 \in Quotes : b2 # b => u.taken[b2] = t.taken[b2]
    BY <1>1, <1>3 DEF OpenTx
<1>6. /\ t.open = OpenLots(t.quote) /\ t.left <= Amount[t.quote]
      /\ \A b2 \in Quotes : t.taken[b2] <= t.open[b2]
      /\ \A b2 \in Quotes : t.taken[b2] > 0 => t.taken[b2] = t.open[b2]
    BY <1>1 DEF TxInv, OpenTx
<1>7. u.left <= Amount[u.quote]
    BY <1>1, <1>2, <1>3, <1>6, PnlAssumption
<1>8. ASSUME NEW b2 \in Quotes
      PROVE  /\ u.taken[b2] <= u.open[b2]
             /\ u.taken[b2] > 0 /\ u.taken[b2] < u.open[b2] => u.left = 0
  <2>1. CASE b2 = b
      BY <2>1, <1>1, <1>2, <1>3, <1>5
  <2>2. CASE b2 # b
      BY <2>2, <1>3, <1>5, <1>6 DEF OpenTx
  <2> QED
      BY <2>1, <2>2
<1>9. ASSUME NEW b1 \in Quotes, NEW b2 \in Quotes,
             u.taken[b1] > 0, u.open[b2] > 0, lot[b2].acquiredAt < lot[b1].acquiredAt
      PROVE  u.taken[b2] = u.open[b2]
  <2>0. lot[b].acquiredAt \in Int /\ lot[b1].acquiredAt \in Int /\ lot[b2].acquiredAt \in Int
      BY <1>1, PnlAssumption DEF PnlTypeOK, Time
  <2>1. CASE b2 = b
    <3>1. b1 # b /\ t.taken[b1] > 0
        BY <1>5, <1>9, <2>0, <2>1
    <3>2. t.taken[b] = t.open[b]
        BY <1>1, <1>9, <2>1, <3>1 DEF TxInv
    <3> QED
        BY <1>1, <3>2
  <2>2. CASE b2 # b /\ b1 = b
    <3>1. b2 \notin Unmatched(t)
        BY <1>9, <2>0, <2>2
    <3>2. t.taken[b2] > 0
        BY <1>3, <1>9, <3>1 DEF Unmatched, OpenTx
    <3> QED
        BY <1>3, <1>5, <1>6, <2>2, <3>2
  <2>3. CASE b2 # b /\ b1 # b
      BY <1>1, <1>3, <1>5, <1>9, <2>3 DEF TxInv
  <2> QED
      BY <2>1, <2>2, <2>3
<1>10. TxInv(u)
    BY <1>3, <1>6, <1>7, <1>8, <1>9 DEF TxInv
<1> QED
    BY <1>4, <1>10 DEF u

\* A round of the matching loop changes nothing but the transaction's own
\* record.
LEMMA MatchLotKeepsPnlInv ==
    ASSUME PnlInv, NEW w \in Sweepers, MatchLot(w)
    PROVE  PnlInv'
<1>1. UNCHANGED <<settled, book, confirmedAt, processed, lot, matched, sold, booked, batch>>
    BY DEF MatchLot, ledgerVars, books
<1>2. tx[w] \in OpenTx /\ tx[w].quote # None /\ tx[w].left > 0 /\ TxInv(tx[w])
    BY DEF MatchLot, PnlInv, PnlTypeOK, NoTx
<1>3. PICK b \in Unmatched(tx[w]) :
         /\ \A b2 \in Unmatched(tx[w]) : lot[b].acquiredAt <= lot[b2].acquiredAt
         /\ tx' = [tx EXCEPT ![w] = Used(tx[w], b,
                     IF tx[w].left < tx[w].open[b] THEN tx[w].left ELSE tx[w].open[b])]
    BY DEF MatchLot
<1> DEFINE u == Used(tx[w], b, IF tx[w].left < tx[w].open[b] THEN tx[w].left ELSE tx[w].open[b])
<1>4. u \in OpenTx /\ TxInv(u)
    BY <1>2, <1>3, UsedKeepsTxInv DEF PnlInv
<1>5. u.quote = tx[w].quote
    BY <1>2 DEF OpenTx, Used
<1> HIDE DEF u
<1>6. tx' = [tx EXCEPT ![w] = u]
    BY <1>3 DEF u
<1>7. /\ tx' \in [Sweepers -> OpenTx \cup {NoTx}]
      /\ tx'[w] = u
      /\ \A w2 \in Sweepers : w2 # w => tx'[w2] = tx[w2]
      /\ \A w2 \in Sweepers : tx'[w2].quote = tx[w2].quote
    BY <1>4, <1>5, <1>6 DEF PnlInv, PnlTypeOK
<1>8. PnlTypeOK'
    BY <1>1, <1>7 DEF PnlInv, PnlTypeOK
<1>9. WorkBacked' /\ Exclusive'
    BY <1>1, <1>7 DEF PnlInv, WorkBacked, Backed, Exclusive
<1>10. LotConserved' /\ BookedIsSettled' /\ ConfirmedIsStamped'
    BY <1>1 DEF PnlInv, LotConserved, BookedIsSettled, ConfirmedIsStamped
<1>11. \A w2 \in Sweepers : TxInv(tx[w2])'
  <2> TAKE w2 \in Sweepers
  <2>1. CASE w2 = w
      BY <1>1, <1>4, <1>7, <2>1, SameLotsKeepTxInv
  <2>2. CASE w2 # w
    <3>1. tx'[w2] = tx[w2]
        BY <1>7, <2>2
    <3>2. TxInv(tx[w2])
        BY DEF PnlInv
    <3> QED
        BY <1>1, <3>1, <3>2, SameLotsKeepTxInv
  <2> QED
      BY <2>1, <2>2
<1> QED
    BY <1>8, <1>9, <1>10, <1>11 DEF PnlInv
\* A commit on one position does not disturb a transaction on another.
LEMMA OtherPositionKeepsTxInv ==
    ASSUME PnlTypeOK, NEW t \in OpenTx, TxInv(t),
           \A b \in Quotes : Position[b] = Position[t.quote] => lot'[b] = lot[b]
    PROVE  TxInv(t)'
<1>1. /\ t.quote # None /\ t.open = OpenLots(t.quote)
      /\ \A b \in Quotes : t.taken[b] <= t.open[b] /\ t.open[b] \in Nat /\ t.taken[b] \in Nat
    BY PnlAssumption DEF TxInv, OpenTx
<1>2. \A b \in Quotes : t.open[b] > 0 => Position[b] = Position[t.quote]
    BY <1>1 DEF OpenLots
<1>3. OpenLots(t.quote)' = OpenLots(t.quote)
    BY DEF OpenLots
<1>4. ASSUME NEW b \in Quotes, NEW b2 \in Quotes,
             t.taken[b] > 0, t.open[b2] > 0, lot'[b2].acquiredAt < lot'[b].acquiredAt
      PROVE  t.taken[b2] = t.open[b2]
  <2>1. lot'[b] = lot[b] /\ lot'[b2] = lot[b2]
      BY <1>1, <1>2, <1>4
  <2> QED
      BY <1>1, <1>4, <2>1 DEF TxInv
<1> QED
    BY <1>1, <1>3, <1>4 DEF TxInv

\* Committing a buy creates its lot, once.
LEMMA CommitBuyKeepsPnlInv ==
    ASSUME PnlInv, NEW w \in Sweepers, CommitBuy(w)
    PROVE  PnlInv'
<1>1. UNCHANGED <<settled, book, confirmedAt, matched, sold, booked, batch>>
    BY DEF CommitBuy, ledgerVars
<1>2. PICK t : t = tx[w]
    OBVIOUS
<1>3. t \in OpenTx /\ t.quote # None /\ t.quote \in Quotes /\ t.at \in Time
    BY <1>2 DEF CommitBuy, PnlInv, PnlTypeOK, NoTx, OpenTx
<1> DEFINE new == [acquiredAt |-> t.at, remaining |-> Amount[t.quote]]
<1>4. /\ lot[t.quote].acquiredAt = 0
      /\ lot' = [lot EXCEPT ![t.quote] = new]
      /\ processed' = processed \cup {t.quote}
      /\ tx' = [tx EXCEPT ![w] = NoTx]
    BY <1>2 DEF CommitBuy
<1>5. new \in [acquiredAt : Time \cup {0}, remaining : Nat] /\ new.acquiredAt # 0
      /\ new.remaining = Amount[t.quote]
    BY <1>3, PnlAssumption DEF Time
<1> HIDE DEF new
<1>6. /\ tx' \in [Sweepers -> OpenTx \cup {NoTx}]
      /\ \A w2 \in Sweepers : tx'[w2].quote # None => w2 # w /\ tx'[w2] = tx[w2]
    BY <1>4 DEF PnlInv, PnlTypeOK, NoTx
<1>7. /\ lot' \in [Quotes -> [acquiredAt : Time \cup {0}, remaining : Nat]]
      /\ lot'[t.quote] = new
      /\ \A b \in Quotes : b # t.quote => lot'[b] = lot[b]
    BY <1>3, <1>4, <1>5 DEF PnlInv, PnlTypeOK
<1>8. PnlTypeOK'
  <2> processed' \subseteq Quotes
      BY <1>3, <1>4 DEF PnlInv, PnlTypeOK
  <2> QED
      BY <1>1, <1>6, <1>7 DEF PnlInv, PnlTypeOK
<1>9. LotConserved'
  <2>1. sold[t.quote] = 0
      BY <1>3, <1>4 DEF PnlInv, LotConserved
  <2> QED
      BY <1>1, <1>3, <1>5, <1>7, <2>1, PnlAssumption DEF PnlInv, LotConserved
<1>10. WorkBacked'
    BY <1>1, <1>6 DEF PnlInv, WorkBacked, Backed
<1>11. BookedIsSettled'
  <2>1. Backed(t.quote)
      BY <1>2, <1>3 DEF PnlInv, WorkBacked
  <2> QED
      BY <1>1, <1>7, <2>1 DEF PnlInv, BookedIsSettled, Backed
<1>12. ConfirmedIsStamped'
    BY <1>1 DEF PnlInv, ConfirmedIsStamped
<1>13. Exclusive'
    BY <1>6 DEF PnlInv, Exclusive
<1>14. ASSUME NEW w2 \in Sweepers PROVE TxInv(tx[w2])'
  <2>1. CASE tx'[w2].quote = None
      BY <2>1 DEF TxInv
  <2>2. CASE tx'[w2].quote # None
    <3>1. PICK u : u = tx[w2]
        OBVIOUS
    <3>2. u \in OpenTx /\ TxInv(u) /\ tx'[w2] = u /\ Position[u.quote] # Position[t.quote]
        BY <1>2, <1>3, <1>6, <2>2, <3>1 DEF PnlInv, PnlTypeOK, NoTx, Exclusive
    <3>3. TxInv(u)'
        BY <1>7, <3>2, OtherPositionKeepsTxInv DEF PnlInv
    <3> QED
        BY <3>2, <3>3 DEF TxInv, OpenLots
  <2> QED
      BY <2>1, <2>2
<1> QED
    BY <1>8, <1>9, <1>10, <1>11, <1>12, <1>13, <1>14 DEF PnlInv

\* Committing a sell moves units from the lots it used to their events.
LEMMA CommitSellKeepsPnlInv ==
    ASSUME PnlInv, NEW w \in Sweepers, CommitSell(w)
    PROVE  PnlInv'
<1>1. UNCHANGED <<settled, book, confirmedAt, batch>>
    BY DEF CommitSell, ledgerVars
<1>2. PICK t : t = tx[w]
    OBVIOUS
<1>3. /\ t \in OpenTx /\ t.quote # None /\ t.quote \in Quotes /\ t.left \in Nat
      /\ \A b \in Quotes : t.open[b] \in Nat /\ t.taken[b] \in Nat
    BY <1>2 DEF CommitSell, PnlInv, PnlTypeOK, NoTx, OpenTx
<1>4. /\ lot' = [b \in Quotes |-> IF b \in Matches(t)
                                  THEN [acquiredAt |-> lot[b].acquiredAt,
                                        remaining |-> t.open[b] - t.taken[b]]
                                  ELSE lot[b]]
      /\ matched' = matched \cup {<<t.quote, b>> : b \in Matches(t)}
      /\ sold' = [b \in Quotes |-> sold[b] + t.taken[b]]
      /\ booked' = [booked EXCEPT ![t.quote] = @ + (Amount[t.quote] - t.left)]
      /\ processed' = processed \cup {t.quote}
      /\ tx' = [tx EXCEPT ![w] = NoTx]
    BY <1>2 DEF CommitSell
<1>5. /\ t.open = OpenLots(t.quote) /\ t.left <= Amount[t.quote]
      /\ \A b \in Quotes : t.taken[b] <= t.open[b]
    BY <1>2, <1>3 DEF PnlInv, TxInv
<1>6. \A b \in Quotes : t.open[b] > 0 =>
         Position[b] = Position[t.quote] /\ t.open[b] = lot[b].remaining
    BY <1>5 DEF OpenLots
<1>7. ASSUME NEW b \in Quotes
      PROVE  /\ lot'[b] \in [acquiredAt : Time \cup {0}, remaining : Nat]
             /\ lot'[b].acquiredAt = lot[b].acquiredAt
             /\ lot'[b].remaining = lot[b].remaining - t.taken[b]
             /\ Position[b] # Position[t.quote] => lot'[b] = lot[b]
             /\ sold'[b] = sold[b] + t.taken[b]
  <2>1. lot[b] \in [acquiredAt : Time \cup {0}, remaining : Nat]
      BY DEF PnlInv, PnlTypeOK
  <2>2. CASE b \in Matches(t)
      BY <1>3, <1>4, <1>5, <1>6, <2>1, <2>2 DEF Matches
  <2>3. CASE b \notin Matches(t)
      BY <1>3, <1>4, <1>5, <2>1, <2>3 DEF Matches
  <2> QED
      BY <2>2, <2>3
<1>8. /\ tx' \in [Sweepers -> OpenTx \cup {NoTx}]
      /\ \A w2 \in Sweepers : tx'[w2].quote # None => w2 # w /\ tx'[w2] = tx[w2]
    BY <1>4 DEF PnlInv, PnlTypeOK, NoTx
<1>9. PnlTypeOK'
  <2>1. processed' \subseteq Quotes /\ matched' \subseteq Quotes \X Quotes
      BY <1>3, <1>4 DEF PnlInv, PnlTypeOK, Matches
  <2>2. lot' \in [Quotes -> [acquiredAt : Time \cup {0}, remaining : Nat]]
      BY <1>4, <1>7
  <2>3. sold' \in [Quotes -> Nat]
      BY <1>3, <1>4 DEF PnlInv, PnlTypeOK
  <2>4. booked' \in [Quotes -> Nat]
    <3>1. booked[t.quote] + (Amount[t.quote] - t.left) \in Nat
        BY <1>3, <1>5, PnlAssumption DEF PnlInv, PnlTypeOK
    <3> QED
        BY <1>3, <1>4, <3>1 DEF PnlInv, PnlTypeOK
  <2> QED
      BY <1>1, <1>8, <2>1, <2>2, <2>3, <2>4 DEF PnlInv, PnlTypeOK
<1>10. LotConserved'
  <2> SUFFICES ASSUME NEW b \in Quotes
               PROVE  IF lot'[b].acquiredAt = 0
                      THEN lot'[b].remaining = 0 /\ sold'[b] = 0
                      ELSE lot'[b].remaining + sold'[b] = Amount[b]
      BY DEF LotConserved
  <2>1. lot[b].remaining \in Nat /\ sold[b] \in Nat /\ Amount[b] \in Nat
      BY PnlAssumption DEF PnlInv, PnlTypeOK
  <2>2. lot[b].remaining = 0 => t.taken[b] = 0
      BY <1>3, <1>5, <1>6
  <2>3. IF lot[b].acquiredAt = 0
        THEN lot[b].remaining = 0 /\ sold[b] = 0
        ELSE lot[b].remaining + sold[b] = Amount[b]
      BY DEF PnlInv, LotConserved
  <2>4. /\ t.taken[b] \in Nat /\ lot'[b].acquiredAt = lot[b].acquiredAt
        /\ lot'[b].remaining = lot[b].remaining - t.taken[b]
        /\ sold'[b] = sold[b] + t.taken[b]
      BY <1>3, <1>7
  <2> QED
      BY <2>1, <2>2, <2>3, <2>4
<1>11. WorkBacked'
    BY <1>1, <1>8 DEF PnlInv, WorkBacked, Backed
<1>12. BookedIsSettled'
  <2>1. Backed(t.quote)
      BY <1>2, <1>3 DEF PnlInv, WorkBacked
  <2>2. \A q \in Quotes : q # t.quote => booked'[q] = booked[q]
      BY <1>4 DEF PnlInv, PnlTypeOK
  <2> QED
      BY <1>1, <1>7, <2>1, <2>2 DEF PnlInv, BookedIsSettled, Backed
<1>13. ConfirmedIsStamped'
    BY <1>1 DEF PnlInv, ConfirmedIsStamped
<1>14. Exclusive'
    BY <1>8 DEF PnlInv, Exclusive
<1>15. ASSUME NEW w2 \in Sweepers PROVE TxInv(tx[w2])'
  <2>1. CASE tx'[w2].quote = None
      BY <2>1 DEF TxInv
  <2>2. CASE tx'[w2].quote # None
    <3>1. PICK u : u = tx[w2]
        OBVIOUS
    <3>2. u \in OpenTx /\ TxInv(u) /\ tx'[w2] = u /\ Position[u.quote] # Position[t.quote]
        BY <1>2, <1>3, <1>8, <2>2, <3>1 DEF PnlInv, PnlTypeOK, NoTx, Exclusive
    <3>3. TxInv(u)'
        BY <1>7, <3>2, OtherPositionKeepsTxInv DEF PnlInv
    <3> QED
        BY <3>2, <3>3 DEF TxInv, OpenLots
  <2> QED
      BY <2>1, <2>2
<1> QED
    BY <1>9, <1>10, <1>11, <1>12, <1>13, <1>14, <1>15 DEF PnlInv

\* PnlInv is inductive.
LEMMA NextKeepsPnlInv == PnlInv /\ [PnlNext]_pnlVars => PnlInv'
<1> SUFFICES ASSUME PnlInv, [PnlNext]_pnlVars PROVE PnlInv'
    OBVIOUS
<1>1. CASE UNCHANGED pnlVars
    BY <1>1
    DEF pnlVars, ledgerVars, books, PnlInv, PnlTypeOK, LotConserved, ConfirmedIsStamped,
        WorkBacked, Backed, BookedIsSettled, Exclusive, TxInv, OpenLots
<1>2. CASE (\E q \in Quotes : ConfirmTrade(q)) \/ OtherTradeStep
    BY <1>2, TradeStepKeepsPnlInv
<1>3. ASSUME NEW w \in Sweepers, SweepStep(w) \/ RollBack(w) \/ FailRow(w) \/ Restart(w)
      PROVE  PnlInv'
    BY <1>3, QueryKeepsPnlInv, DropKeepsPnlInv, UndoKeepsPnlInv, BeginKeepsPnlInv,
       MatchLotKeepsPnlInv, CommitBuyKeepsPnlInv, CommitSellKeepsPnlInv DEF SweepStep
<1> QED
    BY <1>1, <1>2, <1>3 DEF PnlNext

\* PnlInv holds throughout.
THEOREM PnlInvHolds == PnlSpec => []PnlInv
    BY InitPnlInv, NextKeepsPnlInv, PTL DEF PnlSpec
-----------------------------------------------------------------------------
\* Type correctness of the ledger.
THEOREM PnlTypeCorrect == PnlSpec => []PnlTypeOK
    BY PnlInvHolds, PTL DEF PnlInv

\* matchAndRecordSell never loses or invents a unit of a lot, with any
\* number of sweepers.
THEOREM LotConservedHolds == PnlSpec => []LotConserved
    BY PnlInvHolds, PTL DEF PnlInv

\* Profit and loss is only ever computed from settled, quoted transactions.
THEOREM BookedIsSettledHolds == PnlSpec => []BookedIsSettled
    BY PnlInvHolds, PTL DEF PnlInv

\* What a step that is not CommitSell does to the quantities of lots.
LEMMA OnlySellsConsume ==
    ASSUME PnlInv, [PnlNext]_pnlVars, ~(\E w \in Sweepers : CommitSell(w)), NEW b \in Quotes
    PROVE  ~(lot'[b].remaining < lot[b].remaining)
<1>1. CASE \E w \in Sweepers : CommitBuy(w)
  <2> PICK w \in Sweepers : CommitBuy(w)
      BY <1>1
  <2>1. PICK q : q = tx[w].quote
      OBVIOUS
  <2>2. /\ q \in Quotes /\ lot[q].acquiredAt = 0
        /\ lot' = [lot EXCEPT ![q] = [acquiredAt |-> tx[w].at, remaining |-> Amount[q]]]
      BY <2>1 DEF CommitBuy, PnlInv, PnlTypeOK, NoTx, OpenTx
  <2>3. lot[q].remaining = 0 /\ Amount[q] \in Nat /\ lot[b].remaining \in Nat
      BY <2>2, PnlAssumption DEF PnlInv, LotConserved, PnlTypeOK
  <2>4. lot'[b].remaining = IF b = q THEN Amount[q] ELSE lot[b].remaining
      BY <2>2 DEF PnlInv, PnlTypeOK
  <2> QED
      BY <2>3, <2>4
<1>2. CASE UNCHANGED lot
    BY <1>2 DEF PnlInv, PnlTypeOK
<1> QED
    BY <1>1, <1>2
    DEF PnlNext, ConfirmTrade, OtherTradeStep, SweepStep, Query, Skip, Begin, MatchLot,
        RollBack, FailRow, Restart, books, pnlVars

\* First in, first out holds of the committed tables for every position,
\* amount and interleaving.
THEOREM OldestLotFirstHolds == PnlSpec => OldestLotFirst
<1> DEFINE Fifo(b1, b2) ==
        (/\ Position[b1] = Position[b2]
         /\ lot'[b2].remaining < lot[b2].remaining
         /\ lot'[b1].acquiredAt # 0
         /\ lot'[b1].acquiredAt < lot'[b2].acquiredAt)
        => lot'[b1].remaining = 0
<1>1. ASSUME PnlInv, [PnlNext]_pnlVars PROVE \A b1, b2 \in Quotes : Fifo(b1, b2)
  <2> SUFFICES ASSUME NEW b1 \in Quotes, NEW b2 \in Quotes,
                      Position[b1] = Position[b2],
                      lot'[b2].remaining < lot[b2].remaining,
                      lot'[b1].acquiredAt # 0,
                      lot'[b1].acquiredAt < lot'[b2].acquiredAt
               PROVE  lot'[b1].remaining = 0
      OBVIOUS
  <2>1. PICK w \in Sweepers : CommitSell(w)
      BY <1>1, OnlySellsConsume
  <2>2. PICK t : t = tx[w]
      OBVIOUS
  <2>3. /\ t.quote # None /\ t \in OpenTx /\ TxInv(t) /\ Side[t.quote] = "SELL"
        /\ \A b \in Quotes : t.open[b] \in Nat /\ t.taken[b] \in Nat
      BY <1>1, <2>1, <2>2 DEF CommitSell, PnlInv, PnlTypeOK, NoTx, OpenTx
  <2>4. lot' = [b \in Quotes |-> IF b \in Matches(t)
                                 THEN [acquiredAt |-> lot[b].acquiredAt,
                                       remaining |-> t.open[b] - t.taken[b]]
                                 ELSE lot[b]]
      BY <2>1, <2>2 DEF CommitSell
  <2>5. \A b \in Quotes : lot[b].remaining \in Nat /\ lot'[b].acquiredAt = lot[b].acquiredAt
      BY <1>1, <2>4 DEF PnlInv, PnlTypeOK
  <2>6. b2 \in Matches(t)
      BY <2>4, <2>5
  <2>7. Position[b2] = Position[t.quote]
      BY <2>3, <2>6 DEF TxInv, OpenLots, Matches
  <2>8. t.open[b1] = lot[b1].remaining
      BY <2>3, <2>7 DEF TxInv, OpenLots
  <2>9. CASE t.open[b1] = 0
    <3>1. b1 \notin Matches(t)
        BY <2>3, <2>9 DEF TxInv, Matches
    <3> QED
        BY <2>4, <2>8, <2>9, <3>1
  <2>10. CASE t.open[b1] > 0
    <3>1. t.taken[b1] = t.open[b1]
        BY <2>3, <2>5, <2>6, <2>10 DEF TxInv, Matches
    <3> QED
        BY <2>3, <2>4, <2>10, <3>1 DEF Matches
  <2> QED
      BY <2>3, <2>9, <2>10
<1>2. ASSUME PnlInv, [PnlNext]_pnlVars PROVE [\A b1, b2 \in Quotes : Fifo(b1, b2)]_pnlVars
    BY <1>1, <1>2
<1> QED
    BY <1>2, PnlInvHolds, PTL DEF PnlSpec, OldestLotFirst
-----------------------------------------------------------------------------
\* Marker and lot of a buy, marker and events of a sell, are written together.
MarksAgree == MarkedWithItsLot /\ BookedIsMarked

\* Every step keeps them together, whatever fails or restarts in between.
LEMMA NextKeepsMarksAgree == PnlInv /\ MarksAgree /\ [PnlNext]_pnlVars => MarksAgree'
<1> SUFFICES ASSUME PnlInv, MarksAgree, [PnlNext]_pnlVars PROVE MarksAgree'
    OBVIOUS
<1> USE DEF MarksAgree, MarkedWithItsLot, BookedIsMarked
<1>0. /\ PnlTypeOK /\ None \notin Quotes
    BY PnlAssumption DEF PnlInv
<1>1. CASE UNCHANGED <<processed, lot, booked>>
    BY <1>1
<1>2. ASSUME NEW w \in Sweepers, Skip(w) PROVE MarksAgree'
  <2> PICK r \in batch[w] : r.quote \in Skippable /\ processed' = processed \cup {r.quote}
      BY <1>2 DEF Skip
  <2> lot' = lot /\ booked' = booked
      BY <1>2 DEF Skip
  <2> QED
      OBVIOUS
<1>3. ASSUME NEW w \in Sweepers, CommitBuy(w) PROVE MarksAgree'
  <2>1. PICK t : t = tx[w]
      OBVIOUS
  <2>2. /\ t.quote \in Quotes /\ t.at \in Time
        /\ lot' = [lot EXCEPT ![t.quote] = [acquiredAt |-> t.at, remaining |-> Amount[t.quote]]]
        /\ processed' = processed \cup {t.quote} /\ booked' = booked
      BY <1>0, <1>3, <2>1 DEF CommitBuy, PnlTypeOK, OpenTx, NoTx
  <2>3. \A q \in Quotes : lot'[q].acquiredAt = IF q = t.quote THEN t.at ELSE lot[q].acquiredAt
      BY <1>0, <2>2 DEF PnlTypeOK
  <2>4. t.at # 0
      BY <2>2 DEF Time
  <2> QED
      BY <2>2, <2>3, <2>4
<1>4. ASSUME NEW w \in Sweepers, CommitSell(w) PROVE MarksAgree'
  <2>1. PICK t : t = tx[w]
      OBVIOUS
  <2>2. /\ t.quote \in Quotes /\ Side[t.quote] = "SELL" /\ processed' = processed \cup {t.quote}
        /\ lot' = [b \in Quotes |-> IF b \in Matches(t)
                                    THEN [acquiredAt |-> lot[b].acquiredAt,
                                          remaining |-> t.open[b] - t.taken[b]]
                                    ELSE lot[b]]
        /\ booked' = [booked EXCEPT ![t.quote] = @ + (Amount[t.quote] - t.left)]
      BY <1>0, <1>4, <2>1 DEF CommitSell, PnlTypeOK, OpenTx, NoTx
  <2>3. \A q \in Quotes : lot'[q].acquiredAt = lot[q].acquiredAt
      BY <2>2
  <2>4. \A q \in Quotes : q # t.quote => booked'[q] = booked[q]
      BY <1>0, <2>2 DEF PnlTypeOK
  <2>5. "SELL" # "BUY"
      OBVIOUS
  <2> QED
      BY <2>2, <2>3, <2>4, <2>5
<1> QED
    BY <1>1, <1>2, <1>3, <1>4
    DEF PnlNext, ConfirmTrade, OtherTradeStep, SweepStep, Query, Begin, MatchLot, RollBack,
        FailRow, Restart, books, pnlVars

\* They are together in every reachable state.
LEMMA MarksAgreeHolds == PnlSpec => []MarksAgree
<1>1. PnlInit => MarksAgree
    BY DEF PnlInit, MarksAgree, MarkedWithItsLot, BookedIsMarked, NoLot, Nothing
<1> QED
    BY <1>1, NextKeepsMarksAgree, PnlInvHolds, PTL DEF PnlSpec

\* What the sweep wrote for a trade is backed by a settled transaction, and whole,
\* for any number of sweepers that fail and restart at any point.
THEOREM BookedSafetyHolds == PnlSpec => []BookedSafety
<1>1. PnlInv /\ MarksAgree => BookedSafety
    BY DEF PnlInv, MarksAgree, BookedSafety
<1> QED
    BY <1>1, PnlInvHolds, MarksAgreeHolds, PTL

\* A sell that can be valued leaves nothing unmatched while its position has an open lot.
THEOREM UnmatchedOnlyWhenEmptyHolds == PnlSpec => UnmatchedOnlyWhenEmpty
<1> DEFINE Whole(s) ==
        (Side[s] = "SELL" /\ s \notin Skippable /\ s \notin processed /\ s \in processed') =>
           \/ booked'[s] = Amount[s]
           \/ \A b \in Quotes : Position[b] = Position[s] => lot'[b].remaining = 0
<1>1. ASSUME PnlInv, MarksAgree, [PnlNext]_pnlVars PROVE \A s \in Quotes : Whole(s)
  <2> SUFFICES ASSUME NEW s \in Quotes, Side[s] = "SELL", s \notin Skippable,
                      s \notin processed, s \in processed'
               PROVE  \/ booked'[s] = Amount[s]
                      \/ \A b \in Quotes : Position[b] = Position[s] => lot'[b].remaining = 0
      OBVIOUS
  <2>1. PICK w \in Sweepers : CommitSell(w) /\ tx[w].quote = s
    <3>1. ASSUME NEW w \in Sweepers, Skip(w) PROVE FALSE
        BY <3>1 DEF Skip
    <3>2. ASSUME NEW w \in Sweepers, CommitBuy(w) PROVE FALSE
      <4>1. processed' = processed \cup {tx[w].quote} /\ Side[tx[w].quote] = "BUY"
          BY <3>2 DEF CommitBuy
      <4>2. "SELL" # "BUY"
          OBVIOUS
      <4> QED
          BY <4>1, <4>2
    <3>3. processed' # processed
        OBVIOUS
    <3>4. PICK w \in Sweepers : CommitSell(w)
        BY <1>1, <3>1, <3>2, <3>3
        DEF PnlNext, ConfirmTrade, OtherTradeStep, SweepStep, Query, Begin, MatchLot, RollBack,
            FailRow, Restart, books, pnlVars
    <3>5. processed' = processed \cup {tx[w].quote}
        BY <3>4 DEF CommitSell
    <3> QED
        BY <3>4, <3>5
  <2>2. PICK t : t = tx[w]
      OBVIOUS
  <2>3. /\ t.quote = s /\ t.quote # None /\ TxInv(t) /\ t.left \in Nat
        /\ \A b \in Quotes : t.open[b] \in Nat /\ t.taken[b] \in Nat
      BY <1>1, <2>1, <2>2 DEF CommitSell, PnlInv, PnlTypeOK, NoTx, OpenTx
  <2>4. /\ t.left = 0 \/ Unmatched(t) = {}
        /\ lot' = [b \in Quotes |-> IF b \in Matches(t)
                                    THEN [acquiredAt |-> lot[b].acquiredAt,
                                          remaining |-> t.open[b] - t.taken[b]]
                                    ELSE lot[b]]
        /\ booked' = [booked EXCEPT ![s] = @ + (Amount[s] - t.left)]
      BY <2>1, <2>2 DEF CommitSell
  <2>5. CASE t.left = 0
    <3>1. booked[s] = 0 /\ Amount[s] \in Nat
        BY <1>1, PnlAssumption DEF PnlInv, PnlTypeOK, MarksAgree, BookedIsMarked
    <3>2. booked'[s] = booked[s] + (Amount[s] - t.left)
        BY <1>1, <2>4 DEF PnlInv, PnlTypeOK
    <3> QED
        BY <2>5, <3>1, <3>2
  <2>6. CASE t.left # 0
    <3> SUFFICES ASSUME NEW b \in Quotes, Position[b] = Position[s]
                 PROVE  lot'[b].remaining = 0
        OBVIOUS
    <3>1. t.open[b] = lot[b].remaining
        BY <2>3 DEF TxInv, OpenLots
    <3>2. CASE t.open[b] = 0
      <4>1. b \notin Matches(t)
          BY <2>3, <3>2 DEF TxInv, Matches
      <4> QED
          BY <2>4, <3>1, <3>2, <4>1
    <3>3. CASE t.open[b] > 0
      <4>1. t.taken[b] > 0
          BY <2>3, <2>4, <2>6, <3>3 DEF Unmatched
      <4>2. t.taken[b] = t.open[b]
          BY <2>3, <2>6, <4>1 DEF TxInv
      <4>3. b \in Matches(t) /\ t.open[b] - t.taken[b] = 0
          BY <2>3, <4>1, <4>2 DEF Matches
      <4> QED
          BY <2>4, <4>3
    <3> QED
        BY <2>3, <3>2, <3>3
  <2> QED
      BY <2>5, <2>6
<1>2. ASSUME PnlInv, MarksAgree, [PnlNext]_pnlVars PROVE [\A s \in Quotes : Whole(s)]_pnlVars
    BY <1>1, <1>2
<1> QED
    BY <1>2, PnlInvHolds, MarksAgreeHolds, PTL DEF PnlSpec, UnmatchedOnlyWhenEmpty
-----------------------------------------------------------------------------
\* What one sweeper does leaves what the others have at hand unmarked.
LEMMA OthersAtHand ==
    ASSUME SellsApart, OnceInv, NEW w \in Sweepers,
           \A q \in Sells : q \in processed' => q \in processed \/ Holds(w, q),
           \A w2 \in Sweepers \ {w} : batch'[w2] = batch[w2] /\ tx'[w2] = tx[w2],
           AtHandOnce(w)'
    PROVE  \A w2 \in Sweepers : AtHandOnce(w2)'
<1> SUFFICES ASSUME NEW w2 \in Sweepers, w2 # w PROVE AtHandOnce(w2)'
    OBVIOUS
<1>1. AtHandOnce(w2) /\ batch'[w2] = batch[w2] /\ tx'[w2] = tx[w2]
    BY DEF OnceInv
<1>2. \A q \in Sells : Holds(w2, q) => ~Holds(w, q)
    BY DEF SellsApart
<1> QED
    BY <1>1, <1>2 DEF AtHandOnce, Holds, Sells

\* A sell never comes to hand again once it is marked.
LEMMA NextKeepsOnceInv ==
    ASSUME SellsApart, PnlInv, OnceInv, [PnlNext]_pnlVars
    PROVE  OnceInv'
<1>0. /\ tx \in [Sweepers -> OpenTx \cup {NoTx}] /\ batch \in [Sweepers -> SUBSET Row]
      /\ booked \in [Quotes -> Nat] /\ None \notin Quotes /\ None \notin Sells
      /\ \A r \in Row : r.quote \in Quotes
    BY PnlAssumption DEF PnlInv, PnlTypeOK, Row, Sells
<1>1. CASE UNCHANGED <<processed, booked, batch, tx>>
    BY <1>1 DEF OnceInv, SellBookedOnce, BookedIsMarked, AtHandOnce, Sells
<1>2. ASSUME NEW w \in Sweepers, SweepStep(w) \/ RollBack(w) \/ FailRow(w) \/ Restart(w)
      PROVE  OnceInv'
  <2>0. /\ AtHandOnce(w)
        /\ \A w2 \in Sweepers \ {w} : batch'[w2] = batch[w2] /\ tx'[w2] = tx[w2]
      BY <1>0, <1>2
      DEF OnceInv, SweepStep, Query, Skip, Begin, CommitBuy, MatchLot, CommitSell, RollBack, FailRow, Restart
  <2>a. ASSUME UNCHANGED <<processed, booked>>, AtHandOnce(w)' PROVE OnceInv'
    <3>1. \A w2 \in Sweepers : AtHandOnce(w2)'
        BY <2>0, <2>a, OthersAtHand
    <3> QED
        BY <2>a, <3>1 DEF OnceInv, SellBookedOnce, BookedIsMarked
  <2>1. CASE Query(w)
    <3>1. UNCHANGED <<processed, booked, tx>> /\ tx[w].quote = None
        BY <2>1 DEF Query, books
    <3>2. PICK T \in SUBSET Due :
             batch' = [batch EXCEPT ![w] = {[quote |-> q, at |-> confirmedAt[q]] : q \in T}]
        BY <2>1 DEF Query
    <3>3. batch'[w] = {[quote |-> q, at |-> confirmedAt[q]] : q \in T}
        BY <1>0, <3>2
    <3>4. AtHandOnce(w)'
        BY <1>0, <3>1, <3>3 DEF AtHandOnce, Due, Sells
    <3> QED
        BY <2>a, <3>1, <3>4
  <2>2. CASE Skip(w)
    <3>1. UNCHANGED <<booked, tx>> /\ tx[w].quote = None
        BY <2>2 DEF Skip
    <3>2. PICK r \in batch[w] :
             processed' = processed \cup {r.quote} /\ batch' = [batch EXCEPT ![w] = @ \ {r}]
        BY <2>2 DEF Skip
    <3>3. batch'[w] = batch[w] \ {r}
        BY <1>0, <3>2
    <3>4. AtHandOnce(w)'
        BY <1>0, <2>0, <3>1, <3>2, <3>3 DEF AtHandOnce, Sells
    <3>5. \A w2 \in Sweepers : AtHandOnce(w2)'
      <4>1. \A q \in Sells : q \in processed' => q \in processed \/ Holds(w, q)
          BY <3>2 DEF Holds
      <4> QED
          BY <2>0, <3>4, <4>1, OthersAtHand
    <3> QED
        BY <3>1, <3>2, <3>5 DEF OnceInv, SellBookedOnce, BookedIsMarked
  <2>3. CASE FailRow(w) \/ RollBack(w) \/ Restart(w)
    <3>1. UNCHANGED <<processed, booked>>
        BY <2>3 DEF FailRow, RollBack, Restart, books
    <3>2. /\ batch'[w] \subseteq batch[w]
          /\ tx'[w].quote = tx[w].quote \/ tx'[w].quote = None
        BY <1>0, <2>3 DEF FailRow, RollBack, Restart, NoTx
    <3>3. \A r \in batch[w] : r.quote # None
        BY <1>0
    <3>4. AtHandOnce(w)'
        BY <1>0, <2>0, <3>1, <3>2, <3>3 DEF AtHandOnce, Sells
    <3> QED
        BY <2>a, <3>1, <3>4
  <2>4. CASE Begin(w)
    <3>1. UNCHANGED <<processed, booked>>
        BY <2>4 DEF Begin, books
    <3>2. PICK r \in batch[w] :
             batch' = [batch EXCEPT ![w] = @ \ {r}] /\ tx' = [tx EXCEPT ![w] = Opened(r)]
        BY <2>4 DEF Begin
    <3>3. batch'[w] = batch[w] \ {r} /\ tx'[w].quote = r.quote
        BY <1>0, <3>2 DEF Opened
    <3>4. AtHandOnce(w)'
        BY <2>0, <3>1, <3>3 DEF AtHandOnce, Sells
    <3> QED
        BY <2>a, <3>1, <3>4
  <2>5. CASE MatchLot(w)
    <3>1. UNCHANGED <<processed, booked, batch>>
        BY <2>5 DEF MatchLot, books
    <3>2. tx'[w].quote = tx[w].quote
        BY <1>0, <2>5 DEF MatchLot, Used
    <3>3. AtHandOnce(w)'
        BY <2>0, <3>1, <3>2 DEF AtHandOnce, Sells
    <3> QED
        BY <2>a, <3>1, <3>3
  <2>6. CASE CommitBuy(w) \/ CommitSell(w)
    <3>1. PICK q : q = tx[w].quote
        OBVIOUS
    <3>2. /\ q \in Quotes /\ processed' = processed \cup {q}
          /\ UNCHANGED batch /\ tx'[w].quote = None
        BY <1>0, <2>6, <3>1 DEF CommitBuy, CommitSell, OpenTx, NoTx
    <3>3. AtHandOnce(w)'
        BY <1>0, <2>0, <3>1, <3>2 DEF AtHandOnce, Sells
    <3>4. ASSUME NEW s \in Quotes
          PROVE  booked'[s] <= Amount[s] /\ (booked'[s] > 0 => s \in processed')
      <4>1. CASE booked'[s] = booked[s]
          BY <4>1, <3>2 DEF OnceInv, SellBookedOnce, BookedIsMarked
      <4>2. CASE booked'[s] # booked[s]
        <5>1. CommitSell(w) /\ s = q
            BY <1>0, <2>6, <3>1, <4>2 DEF CommitBuy, CommitSell
        <5>2. tx[w].left \in Nat /\ Amount[q] \in Nat
            BY <1>0, <3>1, <3>2, PnlAssumption DEF OpenTx, NoTx
        <5>3. q \in Sells /\ q \notin processed
            BY <2>0, <3>1, <3>2, <5>1 DEF CommitSell, AtHandOnce, Sells
        <5>4. booked[q] = 0
            BY <1>0, <3>2, <5>3 DEF OnceInv, BookedIsMarked
        <5>5. booked'[q] = booked[q] + (Amount[q] - tx[w].left)
            BY <1>0, <3>1, <3>2, <5>1 DEF CommitSell
        <5> QED
            BY <3>2, <5>1, <5>2, <5>4, <5>5
      <4> QED
          BY <4>1, <4>2
    <3>5. \A w2 \in Sweepers : AtHandOnce(w2)'
      <4>1. \A s \in Sells : s \in processed' => s \in processed \/ Holds(w, s)
          BY <3>1, <3>2 DEF Holds
      <4> QED
          BY <2>0, <3>3, <4>1, OthersAtHand
    <3> QED
        BY <3>4, <3>5 DEF OnceInv, SellBookedOnce, BookedIsMarked
  <2> QED
      BY <1>2, <2>1, <2>2, <2>3, <2>4, <2>5, <2>6 DEF SweepStep
<1> QED
    BY <1>1, <1>2 DEF PnlNext, ConfirmTrade, OtherTradeStep, books, pnlVars

\* For any number of sweepers, failures and restarts: no sell is booked for more than was
\* sold, unless two sweepers have it at hand at once.  When they do, the lock makes them book
\* it one after the other, each against the lots the other left.
THEOREM SellBookedOnceUnlessShared == PnlSpec /\ []SellsApart => []SellBookedOnce
<1>1. PnlInit => OnceInv
    BY PnlAssumption
    DEF PnlInit, OnceInv, SellBookedOnce, BookedIsMarked, AtHandOnce, Nothing, NoTx, Sells
<1>2. SellsApart /\ PnlInv /\ OnceInv /\ [PnlNext]_pnlVars => OnceInv'
    BY NextKeepsOnceInv
<1>3. OnceInv => SellBookedOnce
    BY DEF OnceInv
<1> QED
    BY <1>1, <1>2, <1>3, PnlInvHolds, PTL DEF PnlSpec

\* In particular with a single sweeper.
THEOREM SellBookedOnceHolds ==
    ASSUME \A w1, w2 \in Sweepers : w1 = w2
    PROVE  PnlSpec => []SellBookedOnce
<1>1. SellsApart
    BY DEF SellsApart
<1> QED
    BY <1>1, SellBookedOnceUnlessShared, PTL
=============================================================================
