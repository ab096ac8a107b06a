-------------------------- MODULE TradeLedgerProofs --------------------------
(***************************************************************************)
(* TradeLifecycle implements TradeLedger: initial states map to initial    *)
(* states, and under the inductive invariant every step maps to a step of  *)
(* the ledger or to a stutter.                                             *)
(***************************************************************************)
EXTENDS TradeLifecycleProofs

\* The initial state, with nothing recorded and nothing mined, is the ledger's.
LEMMA LedgerInitial == Init => Ledger!LedgerInit
BY DEF Init, Ledger!LedgerInit, Settled, NoLeg, Legs

\* A step that leaves the swap legs and what is settled alone is a stutter.
LEMMA LedgerStutter ==
    ASSUME chain' = chain, \A q \in Quotes : row'[q]["swap"] = row[q]["swap"]
    PROVE  UNCHANGED Ledger!ledgerVars
BY DEF Ledger!ledgerVars, Settled

\* A step of the chain that unsettles nothing settles something or is a stutter.
LEMMA LedgerSettle ==
    ASSUME row' = row, \A h \in Hashes : Settled(h) => Settled(h)'
    PROVE  [Ledger!LedgerNext]_(Ledger!ledgerVars)
<1> DEFINE S == {h \in Hashes : Settled(h)}
           H == S' \ S
<1>1. S' = S \cup H /\ H \in SUBSET (Hashes \ S)
  OBVIOUS
<1>2. [q \in Quotes |-> row[q]["swap"]]' = [q \in Quotes |-> row[q]["swap"]]
  OBVIOUS
<1>3. CASE H = {}
  BY <1>1, <1>2, <1>3 DEF Ledger!ledgerVars
<1>4. CASE H # {}
  BY <1>1, <1>2, <1>4 DEF Ledger!LedgerNext, Ledger!Settle
<1> QED BY <1>3, <1>4

\* Inserting the row of a quote that has none, under a hash that no row has, opens a trade.
LEMMA LedgerOpen ==
    ASSUME row \in [Quotes -> [Legs -> Leg]], chain' = chain, NEW q \in Quotes, NEW h \in Hashes,
           row[q]["swap"].hash = None, ~HashRecorded(h, "swap"),
           row' = [row EXCEPT ![q]["swap"] = [hash |-> h, status |-> "PENDING"]]
    PROVE  Ledger!LedgerNext
<1> DEFINE bk == [q2 \in Quotes |-> row[q2]["swap"]]
           new == [hash |-> h, status |-> "PENDING"]
<1>1. new \in Leg /\ row' = [row EXCEPT ![q]["swap"] = new]
  BY DEF Leg, TradeStatus
<1> HIDE DEF new
<1>2. row'[q]["swap"] = new /\ \A q2 \in Quotes : q2 # q => row'[q2]["swap"] = row[q2]["swap"]
  BY <1>1, SetLeg DEF Legs
<1>3. bk' = [bk EXCEPT ![q] = new]
  BY <1>2 DEF new
<1>4. bk[q].hash = None /\ \A q2 \in Quotes : bk[q2].hash # h
  BY DEF HashRecorded
<1>5. {h2 \in Hashes : Settled(h2)}' = {h2 \in Hashes : Settled(h2)}
  BY DEF Settled
<1>6. Ledger!Open(q, h)
  BY <1>3, <1>4, <1>5 DEF Ledger!Open, new
<1> QED BY <1>6 DEF Ledger!LedgerNext

\* Every step is a step of the ledger or a stutter.
LEMMA LedgerStep ==
    ASSUME ~SplitDepthRead
    PROVE  IntegrityInv /\ [Next]_vars => [Ledger!LedgerNext]_(Ledger!ledgerVars)
<1> SUFFICES ASSUME IntegrityInv, [Next]_vars PROVE [Ledger!LedgerNext]_(Ledger!ledgerVars)
  OBVIOUS
<1> DEFINE bk == [q \in Quotes |-> row[q]["swap"]]
<1>a. TypeInv /\ row \in [Quotes -> [Legs -> Leg]] /\ Handlers \subseteq Processes
  BY DEF IntegrityInv, TypeInv, TypeOK, Processes
<1>1. ASSUME NEW p \in Handlers, CreateRow(p) PROVE [Ledger!LedgerNext]_(Ledger!ledgerVars)
  <2>0. PICK q \in Quotes, h \in Hashes : q = task[p].quote /\ h = task[p].hash
    BY <1>1, <1>a DEF CreateRow, IntegrityInv, TaskBound
  <2> DEFINE new == [hash |-> h, status |-> "PENDING"]
  <2>2. CASE row' = row
    BY <1>1, <2>2, LedgerStutter DEF CreateRow
  <2>3. CASE /\ row[q]["swap"].hash = None /\ ~HashRecorded(h, "swap")
             /\ row' = [row EXCEPT ![q]["swap"] = new]
    BY <1>1, <1>a, <2>0, <2>3, LedgerOpen DEF CreateRow
  <2> QED BY <1>1, <2>0, <2>2, <2>3 DEF CreateRow
<1>2. ASSUME NEW p \in Handlers, FeeUpdate(p) PROVE [Ledger!LedgerNext]_(Ledger!ledgerVars)
  <2> DEFINE new == [hash |-> task[p].hash, status |-> "PENDING"]
  <2>1. task[p].quote \in Quotes /\ new \in Leg
    BY <1>2, <1>a DEF FeeUpdate, IntegrityInv, TaskBound, Leg, TradeStatus
  <2>2. row' = row \/ row' = [row EXCEPT ![task[p].quote]["fee"] = new]
    BY <1>2 DEF FeeUpdate
  <2> HIDE DEF new
  <2>3. \A q \in Quotes : row'[q]["swap"] = row[q]["swap"]
    BY <1>a, <2>1, <2>2, SetLeg DEF TypeInv, Legs
  <2> QED BY <1>2, <2>3, LedgerStutter DEF FeeUpdate
<1>3. ASSUME NEW p \in Processes, WriteStatus(p) PROVE [Ledger!LedgerNext]_(Ledger!ledgerVars)
  <2> DEFINE t == task[p]
  <2>1. GoodTask(t) /\ t.pc = "write" /\ HoldsRowHash(t) /\ PassedGate(t)
    BY <1>3, <1>a, CurrentTask DEF WriteStatus, IntegrityInv, SnapshotsCurrent, GatePassed
  <2>2. t.quote \in Quotes /\ t.hash \in Hashes /\ t.leg \in Legs /\ t.verdict \in {"CONFIRMED", "FAILED", "EXPIRED"}
    BY <2>1 DEF GoodTask, Task, PassedGate, TradeStatus
  <2>3. /\ row'[t.quote][t.leg] = [hash |-> row[t.quote][t.leg].hash, status |-> t.verdict]
        /\ \A q2 \in Quotes, leg2 \in Legs :
              q2 # t.quote \/ leg2 # t.leg => row'[q2][leg2] = row[q2][leg2]
    BY <1>3, <2>1, SetStatus DEF IntegrityInv
  <2>4. CASE t.leg = "fee"
    <3>1. \A q \in Quotes : row'[q]["swap"] = row[q]["swap"]
      BY <2>3, <2>4 DEF Legs
    <3> QED BY <1>3, <3>1, LedgerStutter DEF WriteStatus
  <2>5. CASE t.leg = "swap"
    <3>0. PICK q \in Quotes : q = t.quote
      BY <2>2
    <3>1. bk[q] \in Leg /\ bk[q].hash = t.hash
      BY <3>0, <1>a, <2>1, <2>2, <2>5 DEF HoldsRowHash, Legs
    <3>2. bk' = [bk EXCEPT ![q] = [hash |-> t.hash, status |-> t.verdict]]
      BY <2>2, <2>3, <2>5, <3>0, <3>1 DEF Legs
    <3>3. bk' = [bk EXCEPT ![q].status = t.verdict]
      BY <2>2, <3>1, <3>2 DEF Leg
    <3>4. {h2 \in Hashes : Settled(h2)}' = {h2 \in Hashes : Settled(h2)}
      BY <1>3 DEF WriteStatus, Settled
    <3>5. CASE t.verdict = "CONFIRMED"
      <4>1. Settled(t.hash) /\ transactionMatchesQuote(t.hash, q, "swap")
        BY <2>1, <2>5, <3>0, <3>5 DEF PassedGate, Confirming
      <4>2. Ledger!Confirm(q)
        BY <2>2, <3>1, <3>3, <3>4, <3>5, <4>1 DEF Ledger!Confirm
      <4> QED BY <4>2 DEF Ledger!LedgerNext
    <3>6. CASE t.verdict \in {"FAILED", "EXPIRED"}
      <4>1. Ledger!GiveUp(q)
        BY <2>2, <3>1, <3>3, <3>4, <3>6, NoneAssumption DEF Ledger!GiveUp
      <4> QED BY <4>1 DEF Ledger!LedgerNext
    <3> QED BY <2>2, <3>5, <3>6
  <2> QED BY <2>2, <2>4, <2>5 DEF Legs
<1>4. CASE row' = row /\ (chain' = chain \/ (\E h \in Hashes : Mine(h)) \/ NewBlock
                            \/ \E blocks \in 1..ReorgDepth : Reorg(blocks))
  <2>1. ASSUME NEW h \in Hashes, Settled(h) PROVE Settled(h)'
    BY <1>4, <2>1, DepthAssumption DEF Settled, Mine, NewBlock, Deeper, Reorg, IntegrityInv, TypeOK
  <2> QED BY <1>4, <2>1, LedgerSettle
<1>5. ASSUME NEW p \in Handlers, HandlerStep(p) PROVE [Ledger!LedgerNext]_(Ledger!ledgerVars)
  BY <1>1, <1>2, <1>4, <1>5 DEF HandlerStep, SubmitTransaction, SubmitDetails, SubmitFeeTransaction,
                               FeeDetails, GetTransaction
<1>6. ASSUME NEW p \in Processes, RefreshStep(p) \/ Abort(p) PROVE [Ledger!LedgerNext]_(Ledger!ledgerVars)
  BY <1>3, <1>4, <1>6 DEF RefreshStep, ReadReceipt, ReadDetails, ReadConfirmations, ReadHead, Abort
<1>7. CASE SweepStep \/ Environment \/ UNCHANGED vars
  <2>1. row' = row /\ (chain' = chain \/ (\E h \in Hashes : Mine(h)) \/ NewBlock
                            \/ \E blocks \in 1..ReorgDepth : Reorg(blocks))
    BY <1>7 DEF SweepStep, SweepQuery, SweepRow, Environment, AgeSubmission, ExpireQuote,
                UnlinkWallet, Mine, NewBlock, Reorg, vars
  <2> QED BY <1>4, <2>1
<1> QED BY <1>5, <1>6, <1>7 DEF Next

\* Everything that reads the table may rely on the ledger's promises, as long as the depth
\* of a transaction is read off one view of the chain.
THEOREM LifecycleImplementsLedger ==
    ASSUME ~SplitDepthRead
    PROVE  Spec => ImplementsLedger
BY LedgerInitial, LedgerStep, IntegrityHolds, PTL DEF Spec, ImplementsLedger, Ledger!LedgerSpec
=============================================================================
