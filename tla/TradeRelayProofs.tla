-------------------------- MODULE TradeRelayProofs --------------------------
(***************************************************************************)
(* Proofs about TradeRelay, for every set of quotes, hashes and requests:  *)
(* the claim is held once, so the relayer pays once; and what it pays for  *)
(* can never pass the integrity gate.                                      *)
(***************************************************************************)
EXTENDS TradeRelay, TradeLedgerProofs

\* The part of the invariant that is about the relay's own state.
RelayOwn == RelayBound /\ ClaimHeldOnce /\ AtMostOneRelay

\* The invariant holds initially.
LEMMA RelayInvInit == RelayInit => RelayInv
<1> SUFFICES ASSUME RelayInit PROVE RelayInv
  OBVIOUS
<1>1. IntegrityInv /\ TypeOK
  BY IntegrityInit DEF RelayInit, IntegrityInv
<1>2. RelayTypeOK
  BY <1>1 DEF RelayInit, RelayTypeOK, EvmRelayerQuoteStatus, RelayTask, RelayPC, RelayIdle
<1>3. RelayOwn /\ BroadcastIsRecorded /\ SponsoredIsRelayed
  BY DEF RelayInit, RelayOwn, RelayBound, ClaimHeldOnce, Claimed, AtMostOneRelay,
         BroadcastIsRecorded, SponsoredIsRelayed, RelayIdle
<1> QED BY <1>1, <1>2, <1>3 DEF RelayInv, RelayOwn

\* A step that leaves TradeLifecycle's state alone keeps its invariant.
LEMMA LifecycleUntouched ==
    ASSUME RelayInv, UNCHANGED vars
    PROVE  IntegrityInv' /\ TypeOK'
BY IntegrityStep DEF RelayInv, IntegrityInv

\* Every step preserves it.
LEMMA RelayInvStep == RelayInv /\ [RelayNext]_allVars => RelayInv'
<1> SUFFICES ASSUME RelayInv, [RelayNext]_allVars PROVE RelayInv'
  OBVIOUS
<1> USE DEF RelayOwn
<1>1. CASE LifecycleStep
  <2>1. IntegrityInv' /\ TypeOK'
    BY <1>1, IntegrityStep DEF LifecycleStep, RelayInv, IntegrityInv
  <2>2. UNCHANGED relayVars
    BY <1>1 DEF LifecycleStep
  <2>3. \A q \in Quotes : row[q]["swap"].hash # None => row'[q]["swap"].hash = row[q]["swap"].hash
    BY <1>1, RowChanges, HashKept DEF LifecycleStep, RelayInv, IntegrityInv, TypeInv
  <2>4. None \notin RelayHashes
    BY RelayAssumption, NoneAssumption
  <2>5. RelayTypeOK' /\ RelayOwn'
    BY <2>1, <2>2 DEF relayVars, RelayInv, RelayTypeOK, RelayBound, ClaimHeldOnce, AtMostOneRelay
  <2>6. BroadcastIsRecorded'
    <3> SUFFICES ASSUME NEW q \in Quotes, relayerStatus[q] = "BROADCAST"
                 PROVE  q \in sponsored /\ row'[q]["swap"].hash \in sent[q]
      BY <2>2 DEF relayVars, BroadcastIsRecorded
    <3>1. q \in sponsored /\ row[q]["swap"].hash \in sent[q] /\ sent[q] \subseteq RelayHashes
      BY DEF RelayInv, BroadcastIsRecorded, RelayTypeOK
    <3> QED BY <2>3, <2>4, <3>1
  <2>7. SponsoredIsRelayed'
    BY <2>2, <2>3, <2>4 DEF relayVars, RelayInv, RelayTypeOK, SponsoredIsRelayed
  <2> QED BY <2>1, <2>5, <2>6, <2>7 DEF RelayInv
<1>2. ASSUME NEW q \in Quotes, AttachSponsorship(q) PROVE RelayInv'
  <2>1. IntegrityInv' /\ TypeOK'
    BY <1>2, LifecycleUntouched DEF AttachSponsorship
  <2>2. RelayTypeOK' /\ RelayOwn'
    BY <1>2, <2>1 DEF AttachSponsorship, RelayInv, RelayTypeOK, EvmRelayerQuoteStatus,
                      RelayBound, ClaimHeldOnce, AtMostOneRelay
  <2>3. BroadcastIsRecorded' /\ SponsoredIsRelayed'
    BY <1>2 DEF AttachSponsorship, RelayInv, RelayTypeOK, vars, BroadcastIsRecorded, SponsoredIsRelayed
  <2> QED BY <2>1, <2>2, <2>3 DEF RelayInv
<1>3. ASSUME NEW p \in RelayHandlers, NEW q \in Quotes, Relay(p, q) PROVE RelayInv'
  <2>1. IntegrityInv' /\ TypeOK'
    BY <1>3, LifecycleUntouched DEF Relay
  <2>2. PICK pc \in {"markFailed", "claim"} : relay' = [relay EXCEPT ![p] = Relaying(pc, q, None)]
    BY <1>3 DEF Relay
  <2> DEFINE t == Relaying(pc, q, None)
  <2>3. t \in RelayTask /\ t.pc = pc /\ t.quote = q /\ relay' = [relay EXCEPT ![p] = t]
    BY <2>2 DEF Relaying, RelayTask, RelayPC
  <2> HIDE DEF t
  <2>4. RelayTypeOK'
    BY <1>3, <2>1, <2>3 DEF Relay, RelayInv, RelayTypeOK
  <2>5. RelayOwn'
    BY <1>3, <2>3 DEF Relay, RelayInv, RelayTypeOK, RelayBound, ClaimHeldOnce, Claimed, AtMostOneRelay
  <2>6. BroadcastIsRecorded' /\ SponsoredIsRelayed'
    BY <1>3 DEF Relay, RelayInv, vars, BroadcastIsRecorded, SponsoredIsRelayed
  <2> QED BY <2>1, <2>4, <2>5, <2>6 DEF RelayInv
<1>4. ASSUME NEW p \in RelayHandlers, MarkFailed(p) PROVE RelayInv'
  <2>1. IntegrityInv' /\ TypeOK'
    BY <1>4, LifecycleUntouched DEF MarkFailed
  <2>2. RelayTypeOK'
    BY <1>4, <2>1 DEF MarkFailed, RelayInv, RelayTypeOK, EvmRelayerQuoteStatus, RelayTask, RelayPC, RelayIdle
  <2>3. RelayOwn'
    BY <1>4 DEF MarkFailed, RelayInv, RelayTypeOK, RelayBound, ClaimHeldOnce, Claimed, AtMostOneRelay, RelayIdle
  <2>4. BroadcastIsRecorded' /\ SponsoredIsRelayed'
    BY <1>4 DEF MarkFailed, RelayInv, RelayTypeOK, vars, BroadcastIsRecorded, SponsoredIsRelayed
  <2> QED BY <2>1, <2>2, <2>3, <2>4 DEF RelayInv
<1>5. ASSUME NEW p \in RelayHandlers, Claim(p) PROVE RelayInv'
  <2>1. IntegrityInv' /\ TypeOK'
    BY <1>5, LifecycleUntouched DEF Claim
  <2>2. relay[p] \in RelayTask /\ relay[p].quote \in Quotes
    BY <1>5 DEF Claim, RelayInv, RelayTypeOK, RelayBound
  <2>3. CASE relayerStatus[relay[p].quote] = "PENDING_CONSENT"
    <3>1. /\ relayerStatus' = [relayerStatus EXCEPT ![relay[p].quote] = "CONSENT_RECEIVED"]
          /\ relay' = [relay EXCEPT ![p] = [relay[p] EXCEPT !.pc = "simulate"]]
      BY <1>5, <2>3 DEF Claim, RelayInv, RelayTypeOK
    <3>2. RelayTypeOK'
      BY <1>5, <2>1, <2>2, <3>1 DEF Claim, RelayInv, RelayTypeOK, EvmRelayerQuoteStatus, RelayTask, RelayPC
    <3>3. RelayOwn'
      BY <1>5, <2>2, <2>3, <3>1 DEF Claim, RelayInv, RelayTypeOK, RelayBound, ClaimHeldOnce, Claimed,
                                    AtMostOneRelay, RelayTask
    <3>4. BroadcastIsRecorded' /\ SponsoredIsRelayed'
      BY <1>5, <2>2, <3>1 DEF Claim, RelayInv, RelayTypeOK, vars, BroadcastIsRecorded, SponsoredIsRelayed
    <3> QED BY <2>1, <3>2, <3>3, <3>4 DEF RelayInv
  <2>4. CASE relayerStatus[relay[p].quote] # "PENDING_CONSENT"
    <3>1. relayerStatus' = relayerStatus /\ relay' = [relay EXCEPT ![p] = RelayIdle]
      BY <1>5, <2>4 DEF Claim
    <3>2. RelayTypeOK'
      BY <1>5, <2>1, <3>1 DEF Claim, RelayInv, RelayTypeOK, RelayTask, RelayPC, RelayIdle
    <3>3. RelayOwn'
      BY <1>5, <3>1 DEF Claim, RelayInv, RelayTypeOK, RelayBound, ClaimHeldOnce, Claimed,
                        AtMostOneRelay, RelayIdle
    <3>4. BroadcastIsRecorded' /\ SponsoredIsRelayed'
      BY <1>5, <3>1 DEF Claim, RelayInv, vars, BroadcastIsRecorded, SponsoredIsRelayed
    <3> QED BY <2>1, <3>2, <3>3, <3>4 DEF RelayInv
  <2> QED BY <2>3, <2>4
<1>6. ASSUME NEW p \in RelayHandlers, Simulate(p) \/ CheckGasCeiling(p) PROVE RelayInv'
  <2>1. IntegrityInv' /\ TypeOK'
    BY <1>6, LifecycleUntouched DEF Simulate, CheckGasCeiling
  <2>2. PICK pc \in {"ceiling", "broadcast", "markFailed"} :
           relay' = [relay EXCEPT ![p] = [relay[p] EXCEPT !.pc = pc]]
    BY <1>6 DEF Simulate, CheckGasCeiling, RelayInv, RelayTypeOK
  <2>3. Claimed(relay[p]) /\ relay[p] \in RelayTask /\ UNCHANGED <<vars, relayerStatus, sent, sponsored>>
    BY <1>6 DEF Simulate, CheckGasCeiling, Claimed, RelayInv, RelayTypeOK
  <2>4. RelayTypeOK'
    BY <2>1, <2>2, <2>3 DEF RelayInv, RelayTypeOK, RelayTask, RelayPC
  <2>5. RelayOwn'
    BY <2>2, <2>3 DEF RelayInv, RelayTypeOK, RelayBound, ClaimHeldOnce, Claimed, AtMostOneRelay, RelayTask
  <2>6. BroadcastIsRecorded' /\ SponsoredIsRelayed'
    BY <2>3 DEF RelayInv, vars, BroadcastIsRecorded, SponsoredIsRelayed
  <2> QED BY <2>1, <2>4, <2>5, <2>6 DEF RelayInv
<1>7. ASSUME NEW p \in RelayHandlers, Broadcast(p) PROVE RelayInv'
  <2>1. IntegrityInv' /\ TypeOK'
    BY <1>7, LifecycleUntouched DEF Broadcast
  <2> DEFINE q == relay[p].quote
  <2>2. Claimed(relay[p]) /\ relay[p] \in RelayTask /\ q \in Quotes /\ sent[q] = {}
    BY <1>7 DEF Broadcast, Claimed, RelayInv, RelayTypeOK, RelayBound, ClaimHeldOnce
  <2>3. PICK h \in RelayHashes :
           /\ sent' = [sent EXCEPT ![q] = sent[q] \cup {h}]
           /\ \/ relay' = [relay EXCEPT ![p] = Relaying("persist", q, h)]
              \/ relay' = [relay EXCEPT ![p] = RelayIdle]
    BY <1>7, <2>2 DEF Broadcast, RelayInv, RelayTypeOK
  <2>4. UNCHANGED <<vars, relayerStatus, sponsored>>
    BY <1>7 DEF Broadcast
  <2>5. sent' = [sent EXCEPT ![q] = {h}]
    BY <2>2, <2>3
  <2>6. h \in Hashes
    BY RelayAssumption
  <2>7. PICK t \in RelayTask : /\ relay' = [relay EXCEPT ![p] = t]
                               /\ \/ t.pc = "persist" /\ t.quote = q /\ t.hash = h
                                  \/ t.pc = "idle"
    <3>1. Relaying("persist", q, h) \in RelayTask /\ RelayIdle \in RelayTask
      BY <2>2, <2>6 DEF Relaying, RelayTask, RelayPC, RelayIdle
    <3>2. /\ Relaying("persist", q, h).pc = "persist" /\ Relaying("persist", q, h).quote = q
          /\ Relaying("persist", q, h).hash = h /\ RelayIdle.pc = "idle"
      BY DEF Relaying, RelayIdle
    <3> QED BY <2>3, <3>1, <3>2
  <2>8. RelayTypeOK'
    BY <2>1, <2>2, <2>4, <2>5, <2>7 DEF RelayInv, RelayTypeOK
  <2>9. RelayBound'
    BY <2>2, <2>5, <2>7 DEF RelayInv, RelayTypeOK, RelayBound
  <2>10. ClaimHeldOnce'
    BY <2>2, <2>4, <2>5, <2>7 DEF RelayInv, RelayTypeOK, RelayBound, ClaimHeldOnce, Claimed
  <2>11. AtMostOneRelay'
    BY <2>2, <2>5 DEF RelayInv, RelayTypeOK, AtMostOneRelay
  <2>12. BroadcastIsRecorded' /\ SponsoredIsRelayed'
    BY <2>2, <2>4, <2>5 DEF RelayInv, RelayTypeOK, vars, BroadcastIsRecorded, SponsoredIsRelayed
  <2> QED BY <2>1, <2>8, <2>9, <2>10, <2>11, <2>12 DEF RelayInv
<1>8. ASSUME NEW p \in RelayHandlers, Persist(p) PROVE RelayInv'
  <2> DEFINE q == relay[p].quote
             h == relay[p].hash
  <2>1. q \in Quotes /\ h \in sent[q] /\ h \in RelayHashes /\ h \in Hashes
    BY <1>8, RelayAssumption DEF Persist, RelayInv, RelayTypeOK, RelayBound
  <2>2. relay' = [relay EXCEPT ![p] = RelayIdle] /\ sent' = sent /\ chain' = chain /\ task' = task /\ batch' = batch
    BY <1>8 DEF Persist
  <2>3. CASE row' = row /\ relayerStatus' = relayerStatus /\ sponsored' = sponsored
    <3>1. IntegrityInv' /\ TypeOK'
      BY <1>8, <2>3, LifecycleUntouched DEF Persist, vars
    <3>2. RelayTypeOK'
      BY <2>2, <2>3, <3>1 DEF RelayInv, RelayTypeOK, RelayTask, RelayPC, RelayIdle
    <3>3. RelayOwn'
      BY <2>2, <2>3 DEF RelayInv, RelayTypeOK, RelayBound, ClaimHeldOnce, Claimed, AtMostOneRelay, RelayIdle
    <3>4. BroadcastIsRecorded' /\ SponsoredIsRelayed'
      BY <2>2, <2>3 DEF RelayInv, BroadcastIsRecorded, SponsoredIsRelayed
    <3> QED BY <3>1, <3>2, <3>3, <3>4 DEF RelayInv
  <2>4. CASE /\ row[q]["swap"].hash = None
             /\ row' = [row EXCEPT ![q]["swap"] = [hash |-> h, status |-> "PENDING"]]
             /\ relayerStatus' = [relayerStatus EXCEPT ![q] = "BROADCAST"]
             /\ sponsored' = sponsored \cup {q}
    <3> DEFINE new == [hash |-> h, status |-> "PENDING"]
    <3>1. new \in Leg
      BY <2>1 DEF Leg, TradeStatus
    <3>2. /\ row' \in [Quotes -> [Legs -> Leg]] /\ row'[q]["swap"] = new
          /\ \A q2 \in Quotes : q2 # q => row'[q2]["swap"] = row[q2]["swap"]
      <4>1. row \in [Quotes -> [Legs -> Leg]] /\ row' = [row EXCEPT ![q]["swap"] = new] /\ "swap" \in Legs
        BY <2>4 DEF RelayInv, IntegrityInv, TypeOK, Legs
      <4> HIDE DEF new
      <4> QED BY <2>1, <3>1, <4>1, SetLeg
    <3>3. TypeInv'
      BY <1>8, <3>2 DEF Persist, RelayInv, IntegrityInv, TypeInv, TypeOK, TaskBound
    <3>4. IntegrityInv'
      BY <2>1, <2>2, <2>4, <3>3, InsertRow DEF RelayInv
    <3>5. RelayTypeOK'
      BY <2>1, <2>2, <2>4, <3>3 DEF TypeInv, RelayInv, RelayTypeOK, EvmRelayerQuoteStatus, RelayTask, RelayPC, RelayIdle
    <3>6. RelayOwn'
      BY <2>1, <2>2, <2>4 DEF RelayInv, RelayTypeOK, RelayBound, ClaimHeldOnce, Claimed, AtMostOneRelay, RelayIdle
    <3>7. BroadcastIsRecorded' /\ SponsoredIsRelayed'
      BY <2>1, <2>2, <2>4, <3>2 DEF RelayInv, RelayTypeOK, BroadcastIsRecorded, SponsoredIsRelayed
    <3> QED BY <3>4, <3>5, <3>6, <3>7 DEF RelayInv
  <2> QED BY <1>8, <2>3, <2>4 DEF Persist
<1>9. ASSUME NEW p \in RelayHandlers, RelayAbort(p) PROVE RelayInv'
  <2>1. IntegrityInv' /\ TypeOK'
    BY <1>9, LifecycleUntouched DEF RelayAbort
  <2>2. RelayTypeOK'
    BY <1>9, <2>1 DEF RelayAbort, RelayInv, RelayTypeOK, RelayTask, RelayPC, RelayIdle
  <2>3. RelayOwn'
    BY <1>9 DEF RelayAbort, RelayInv, RelayTypeOK, RelayBound, ClaimHeldOnce, Claimed, AtMostOneRelay, RelayIdle
  <2>4. BroadcastIsRecorded' /\ SponsoredIsRelayed'
    BY <1>9 DEF RelayAbort, RelayInv, vars, BroadcastIsRecorded, SponsoredIsRelayed
  <2> QED BY <2>1, <2>2, <2>3, <2>4 DEF RelayInv
<1>10. CASE UNCHANGED allVars
  <2>1. IntegrityInv' /\ TypeOK'
    BY <1>10, LifecycleUntouched DEF allVars
  <2> QED BY <1>10, <2>1 DEF allVars, relayVars, vars, RelayInv, RelayTypeOK, RelayBound, ClaimHeldOnce,
                           AtMostOneRelay, BroadcastIsRecorded, SponsoredIsRelayed
<1> QED BY <1>1, <1>2, <1>3, <1>4, <1>5, <1>6, <1>7, <1>8, <1>9, <1>10 DEF RelayNext, RelayStep

\* The inductive invariant holds in every reachable state.
LEMMA RelayInvHolds == RelaySpec => []RelayInv
BY RelayInvInit, RelayInvStep, PTL DEF RelaySpec

\* The relayer pays for at most one broadcast per quote, whatever requests race or die.
THEOREM AtMostOneRelayHolds == RelaySpec => []AtMostOneRelay
<1>1. RelayInv => AtMostOneRelay
  BY DEF RelayInv
<1> QED BY <1>1, RelayInvHolds, PTL

\* relayerStatus BROADCAST hands over to a row that carries what the relayer broadcast.
THEOREM BroadcastIsRecordedHolds == RelaySpec => []BroadcastIsRecorded
<1>1. RelayInv => BroadcastIsRecorded
  BY DEF RelayInv
<1> QED BY <1>1, RelayInvHolds, PTL

\* No sponsored trade is ever CONFIRMED: its transaction is the relayer's, and the gate asks
\* for the wallet's.
THEOREM SponsoredNeverConfirmedHolds == RelaySpec => []SponsoredNeverConfirmed
<1>1. RelayInv => SponsoredNeverConfirmed
  <2> SUFFICES ASSUME RelayInv, NEW q \in sponsored, row[q]["swap"].status = "CONFIRMED"
               PROVE  FALSE
    BY DEF SponsoredNeverConfirmed
  <2>1. q \in Quotes /\ row[q]["swap"].hash \in RelayHashes
    BY DEF RelayInv, RelayTypeOK, SponsoredIsRelayed
  <2>2. Sender[row[q]["swap"].hash] = Wallet[q]
    BY <2>1 DEF RelayInv, IntegrityInv, SwapIntegrity, transactionMatchesQuote
  <2> QED BY <2>1, <2>2, RelayAssumption
<1> QED BY <1>1, RelayInvHolds, PTL

-----------------------------------------------------------------------------
(* What TradeLifecycle promises still holds when the relayer writes to its table, too. *)

\* The gate is as strict with sponsored trades beside self-paid ones.
THEOREM RelaySwapIntegrityHolds == RelaySpec => []SwapIntegrity
<1>1. RelayInv => SwapIntegrity
  BY DEF RelayInv, IntegrityInv
<1> QED BY <1>1, RelayInvHolds, PTL

\* The relay changes the rows only by inserting one, like a submission.
LEMMA RelayRowChanges == RelayInv /\ [RelayNext]_allVars => RowChange
<1> SUFFICES ASSUME RelayInv, [RelayNext]_allVars PROVE RowChange
  OBVIOUS
<1>1. CASE LifecycleStep
  BY <1>1, RowChanges DEF LifecycleStep, RelayInv, IntegrityInv, TypeInv
<1>2. ASSUME NEW p \in RelayHandlers, Persist(p) PROVE RowChange
  <2>1. relay[p].quote \in Quotes /\ relay[p].hash \in Hashes
    BY <1>2, RelayAssumption DEF Persist, RelayInv, RelayTypeOK, RelayBound
  <2> QED BY <1>2, <2>1 DEF Persist, RowChange, HashRecorded
<1>3. CASE UNCHANGED vars
  BY <1>3 DEF vars, RowChange
<1> QED
  BY <1>1, <1>2, <1>3 DEF RelayNext, RelayStep, AttachSponsorship, Relay, MarkFailed, Claim, Simulate,
                          CheckGasCeiling, Broadcast, RelayAbort, allVars

\* No transaction stands for two trades, and the hash of a trade never changes, however
\* sponsored and self-paid submissions of a quote race.
THEOREM RelayRowsKept == RelaySpec => []OneRowPerTransaction /\ SwapHashImmutable
<1>1. RelayInit => OneRowPerTransaction
  BY DEF RelayInit, Init, OneRowPerTransaction, NoLeg
<1>2. RelayInv => TypeInv
  BY DEF RelayInv, IntegrityInv, TypeInv
<1>3. ASSUME RelayInv, [RelayNext]_allVars
      PROVE  [\A q \in Quotes : row[q]["swap"].hash # None
                 => row'[q]["swap"].hash = row[q]["swap"].hash]_vars
  BY <1>2, <1>3, RelayRowChanges, HashKept
<1> QED
  BY <1>1, <1>2, <1>3, RelayInvHolds, RelayRowChanges, OneRowKept, PTL DEF RelaySpec, SwapHashImmutable

\* Persisting a sponsored trade opens it in the ledger; no other step of the relay shows there.
LEMMA RelayLedgerStep ==
    ASSUME ~SplitDepthRead
    PROVE  RelayInv /\ [RelayNext]_allVars => [Ledger!LedgerNext]_(Ledger!ledgerVars)
<1> SUFFICES ASSUME RelayInv, [RelayNext]_allVars PROVE [Ledger!LedgerNext]_(Ledger!ledgerVars)
  OBVIOUS
<1>1. CASE LifecycleStep
  BY <1>1, LedgerStep DEF LifecycleStep, RelayInv
<1>2. ASSUME NEW p \in RelayHandlers, Persist(p) PROVE [Ledger!LedgerNext]_(Ledger!ledgerVars)
  <2> DEFINE q == relay[p].quote
             h == relay[p].hash
  <2>1. q \in Quotes /\ h \in Hashes /\ row \in [Quotes -> [Legs -> Leg]] /\ chain' = chain
    BY <1>2, RelayAssumption DEF Persist, RelayInv, RelayTypeOK, RelayBound, TypeOK
  <2>2. CASE row' = row
    BY <2>1, <2>2, LedgerStutter
  <2>3. CASE row' # row
    <3>1. /\ row[q]["swap"].hash = None /\ ~HashRecorded(h, "swap")
          /\ row' = [row EXCEPT ![q]["swap"] = [hash |-> h, status |-> "PENDING"]]
      BY <1>2, <2>3 DEF Persist
    <3> QED BY <2>1, <3>1, LedgerOpen
  <2> QED BY <2>2, <2>3
<1>3. CASE UNCHANGED vars
  BY <1>3, LedgerStutter DEF vars
<1> QED
  BY <1>1, <1>2, <1>3 DEF RelayNext, RelayStep, AttachSponsorship, Relay, MarkFailed, Claim, Simulate,
                          CheckGasCeiling, Broadcast, RelayAbort, allVars

\* Readers of the table may rely on the ledger's promises with the relayer as a second writer.
THEOREM RelayImplementsLedger ==
    ASSUME ~SplitDepthRead
    PROVE  RelaySpec => ImplementsLedger
<1>1. RelayInit => Ledger!LedgerInit
  BY LedgerInitial DEF RelayInit
<1> QED
  BY <1>1, RelayLedgerStep, RelayInvHolds, PTL DEF RelaySpec, ImplementsLedger, Ledger!LedgerSpec
=============================================================================
