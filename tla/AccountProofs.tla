--------------------------- MODULE AccountProofs ----------------------------
(***************************************************************************)
(* Proofs about what users own: gas top-ups, wallet linking, Solana trades *)
(* and duels, for any number of users, requests and rows; and, at the end, *)
(* what all the services keep side by side.                                *)
(***************************************************************************)
EXTENDS MarketProofs

-----------------------------------------------------------------------------
(* GasTopup *)

One(b) == IF b THEN 1 ELSE 0

\* Requests whose count of the day is not spent yet, and those of a wallet's.
Held == {r \in TopupRequests : topup[r].pc \in {"queued", "refund"}}
HeldOf(w) ==
  {r \in TopupRequests : topup[r].wallet = w /\ topup[r].pc \in {"day", "queued", "refund"}}

\* What was sent in time and what is held stay below the counter and below the cap.
Budget(spent, lost, held, count, cap) ==
  /\ IsFiniteSet(held) /\ lost <= spent
  /\ spent - lost + Cardinality(held) <= count
  /\ spent - lost + Cardinality(held) <= cap

Budgets ==
  /\ Budget(tankSent, tankLate, Held, dayCount, DailyCap)
  /\ \A w \in Wallets : Budget(sent[w], late[w], HeldOf(w), walletCount[w], PerWalletDaily)

\* The request that waits for a receipt is the head of the queue.
SenderIsHead ==
  \A r \in TopupRequests : topup[r].pc = "receipt" =>
    /\ tankQueue # <<>> /\ Head(tankQueue) = r
    /\ tankLate < tankSent /\ late[topup[r].wallet] < sent[topup[r].wallet]

HasWallet == \A r \in TopupRequests : topup[r].pc # "idle" => topup[r].wallet \in Wallets

TopupInv == TopupTypeOK /\ HasWallet /\ SenderIsHead /\ Budgets

\* The invariant holds when nothing was sent.
LEMMA TopupInvInit == TopupInit => TopupInv
<1> SUFFICES ASSUME TopupInit PROVE TopupInv
    OBVIOUS
<1>1. IdleTopup \in TopupTask /\ IdleTopup.pc = "idle"
    BY DEF IdleTopup, TopupTask
<1>2. Held = {} /\ \A w \in Wallets : HeldOf(w) = {}
    BY <1>1 DEF TopupInit, Held, HeldOf
<1>3. IsFiniteSet({}) /\ Cardinality({}) = 0
    BY FS_EmptySet
<1>4. Budgets
  <2>1. DailyCap \in Nat /\ PerWalletDaily \in Nat
      BY TopupAssumption
  <2>2. Budget(tankSent, tankLate, Held, dayCount, DailyCap)
      BY <1>2, <1>3, <2>1 DEF TopupInit, Budget
  <2>3. ASSUME NEW w \in Wallets
        PROVE  Budget(sent[w], late[w], HeldOf(w), walletCount[w], PerWalletDaily)
    <3>1. sent[w] = 0 /\ late[w] = 0 /\ HeldOf(w) = {} /\ walletCount[w] = 0
        BY <1>2 DEF TopupInit
    <3> QED
        BY <1>3, <2>1, <3>1 DEF Budget
  <2> QED
      BY <2>2, <2>3 DEF Budgets
<1>5. TopupTypeOK
    BY <1>1, TopupAssumption DEF TopupInit, TopupTypeOK
<1> QED
    BY <1>1, <1>4, <1>5 DEF TopupInit, TopupInv, HasWallet, SenderIsHead

\* How many a set has after one element was put in or taken out.
LEMMA OneMoves ==
    ASSUME NEW S, NEW T, NEW r, IsFiniteSet(S), NEW b \in BOOLEAN,
           T = (S \ {r}) \cup (IF b THEN {r} ELSE {})
    PROVE  /\ IsFiniteSet(T) /\ Cardinality(T) \in Nat /\ Cardinality(S) \in Nat
           /\ Cardinality(T) = Cardinality(S) - One(r \in S) + One(b)
<1>1. Cardinality(S) \in Nat
    BY FS_CardinalityType
<1>2. /\ IsFiniteSet(S \ {r})
      /\ Cardinality(S \ {r}) = Cardinality(S) - One(r \in S)
    BY <1>1, FS_RemoveElement DEF One
<1>3. CASE b
  <2>1. T = (S \ {r}) \cup {r} /\ r \notin S \ {r}
      BY <1>3
  <2>2. IsFiniteSet(T) /\ Cardinality(T) = Cardinality(S \ {r}) + 1
      BY <1>2, <2>1, FS_AddElement
  <2> QED
      BY <1>1, <1>2, <1>3, <2>2, FS_CardinalityType DEF One
<1>4. CASE ~b
  <2>1. T = S \ {r}
      BY <1>4
  <2> QED
      BY <1>1, <1>2, <1>4, <2>1, FS_CardinalityType DEF One
<1> QED
    BY <1>3, <1>4

\* What is held after one request went on to the task t, of the day's count ...
LEMMA TopupMoves ==
    ASSUME TopupInv, NEW r \in TopupRequests, NEW t \in TopupTask,
           topup' = [topup EXCEPT ![r] = t], t.pc # "idle" => t.wallet \in Wallets
    PROVE  /\ topup' \in [TopupRequests -> TopupTask] /\ HasWallet'
           /\ IsFiniteSet(Held') /\ Cardinality(Held') \in Nat /\ Cardinality(Held) \in Nat
           /\ Cardinality(Held') = Cardinality(Held) - One(topup[r].pc \in {"queued", "refund"})
                                     + One(t.pc \in {"queued", "refund"})
<1> DEFINE b == t.pc \in {"queued", "refund"}
<1>0. topup \in [TopupRequests -> TopupTask]
    BY DEF TopupInv, TopupTypeOK
<1>1. topup' \in [TopupRequests -> TopupTask] /\ HasWallet'
    BY <1>0 DEF TopupInv, HasWallet
<1>2. IsFiniteSet(Held) /\ b \in BOOLEAN
    BY DEF TopupInv, Budgets, Budget
<1>3. Held' = (Held \ {r}) \cup (IF b THEN {r} ELSE {})
    BY <1>0 DEF Held
<1>4. (r \in Held) = (topup[r].pc \in {"queued", "refund"})
    BY DEF Held
<1> HIDE DEF b
<1>5. /\ IsFiniteSet(Held') /\ Cardinality(Held') \in Nat /\ Cardinality(Held) \in Nat
      /\ Cardinality(Held') = Cardinality(Held) - One(r \in Held) + One(b)
    BY <1>2, <1>3, OneMoves
<1> QED
    BY <1>1, <1>4, <1>5 DEF b, One

\* ... and of a wallet's.
LEMMA TopupMovesOf ==
    ASSUME TopupInv, NEW r \in TopupRequests, NEW t \in TopupTask, NEW w \in Wallets,
           topup' = [topup EXCEPT ![r] = t]
    PROVE  /\ IsFiniteSet(HeldOf(w)') /\ Cardinality(HeldOf(w)') \in Nat
           /\ Cardinality(HeldOf(w)) \in Nat
           /\ Cardinality(HeldOf(w)') = Cardinality(HeldOf(w))
                - One(topup[r].wallet = w /\ topup[r].pc \in {"day", "queued", "refund"})
                + One(t.wallet = w /\ t.pc \in {"day", "queued", "refund"})
<1> DEFINE b == t.wallet = w /\ t.pc \in {"day", "queued", "refund"}
<1>0. topup \in [TopupRequests -> TopupTask]
    BY DEF TopupInv, TopupTypeOK
<1>1. IsFiniteSet(HeldOf(w)) /\ b \in BOOLEAN
    BY DEF TopupInv, Budgets, Budget
<1>2. HeldOf(w)' = (HeldOf(w) \ {r}) \cup (IF b THEN {r} ELSE {})
    BY <1>0 DEF HeldOf
<1>3. (r \in HeldOf(w)) = (topup[r].wallet = w /\ topup[r].pc \in {"day", "queued", "refund"})
    BY DEF HeldOf
<1> HIDE DEF b
<1>4. /\ IsFiniteSet(HeldOf(w)') /\ Cardinality(HeldOf(w)') \in Nat /\ Cardinality(HeldOf(w)) \in Nat
      /\ Cardinality(HeldOf(w)') = Cardinality(HeldOf(w)) - One(r \in HeldOf(w)) + One(b)
    BY <1>1, <1>2, OneMoves
<1> QED
    BY <1>3, <1>4 DEF b, One

\* A move that neither counts nor sends keeps the budgets.
LEMMA QuietMove ==
    ASSUME TopupInv, NEW r \in TopupRequests, NEW t \in TopupTask,
           topup' = [topup EXCEPT ![r] = t], t.pc # "idle" => t.wallet \in Wallets,
           t.pc \notin {"day", "queued", "refund", "receipt"}, topup[r].pc # "receipt",
           UNCHANGED <<walletCount, dayCount, tankQueue, sent, tankSent, late, tankLate>>,
           lowGas' \subseteq Wallets, gasOk' \subseteq Wallets, inflight' \subseteq Wallets
    PROVE  TopupInv'
<1>1. TopupTypeOK' /\ HasWallet'
    BY TopupMoves DEF TopupInv, TopupTypeOK
<1>2. SenderIsHead'
    BY DEF TopupInv, SenderIsHead, TopupTypeOK
<1>3. Budget(tankSent, tankLate, Held, dayCount, DailyCap)'
  <2>0. /\ IsFiniteSet(Held') /\ Cardinality(Held') \in Nat /\ Cardinality(Held) \in Nat
        /\ Cardinality(Held') = Cardinality(Held) - One(topup[r].pc \in {"queued", "refund"})
                                  + One(t.pc \in {"queued", "refund"})
      BY TopupMoves
  <2>1. /\ IsFiniteSet(Held') /\ Cardinality(Held') \in Nat /\ Cardinality(Held) \in Nat
        /\ Cardinality(Held') <= Cardinality(Held)
      BY <2>0 DEF One
  <2>2. tankSent \in Nat /\ tankLate \in Nat /\ dayCount \in Int /\ DailyCap \in Nat
      BY TopupAssumption DEF TopupInv, TopupTypeOK
  <2> QED
      BY <2>1, <2>2 DEF TopupInv, Budgets, Budget
<1>4. ASSUME NEW w \in Wallets
      PROVE  Budget(sent[w], late[w], HeldOf(w), walletCount[w], PerWalletDaily)'
  <2>1. /\ IsFiniteSet(HeldOf(w)') /\ Cardinality(HeldOf(w)') \in Nat /\ Cardinality(HeldOf(w)) \in Nat
        /\ Cardinality(HeldOf(w)') <= Cardinality(HeldOf(w))
    <3>1. /\ IsFiniteSet(HeldOf(w)') /\ Cardinality(HeldOf(w)') \in Nat
          /\ Cardinality(HeldOf(w)) \in Nat
          /\ Cardinality(HeldOf(w)') = Cardinality(HeldOf(w))
               - One(topup[r].wallet = w /\ topup[r].pc \in {"day", "queued", "refund"})
               + One(t.wallet = w /\ t.pc \in {"day", "queued", "refund"})
        BY TopupMovesOf
    <3> QED
        BY <3>1 DEF One
  <2>2. sent[w] \in Nat /\ late[w] \in Nat /\ walletCount[w] \in Int /\ PerWalletDaily \in Nat
      BY TopupAssumption DEF TopupInv, TopupTypeOK
  <2> QED
      BY <2>1, <2>2 DEF TopupInv, Budgets, Budget
<1> QED
    BY <1>1, <1>2, <1>3, <1>4 DEF TopupInv, Budgets

\* A request counts itself for its wallet before it may go on.
LEMMA CountWalletKeeps ==
    ASSUME TopupInv, NEW r \in TopupRequests, CountWallet(r)
    PROVE  TopupInv'
<1> DEFINE w == topup[r].wallet
           t == [topup[r] EXCEPT !.pc = IF walletCount[w] + 1 > PerWalletDaily THEN "release" ELSE "day"]
<1>0. /\ topup \in [TopupRequests -> TopupTask] /\ w \in Wallets /\ topup[r].pc = "wallet"
      /\ walletCount \in [Wallets -> 0..MaxCount] /\ walletCount[w] < MaxCount
      /\ MaxCount \in Nat /\ PerWalletDaily \in Nat /\ DailyCap \in Nat
      /\ dayCount \in Nat /\ tankSent \in Nat /\ tankLate \in Nat
      /\ sent \in [Wallets -> Nat] /\ late \in [Wallets -> Nat]
    BY TopupAssumption DEF CountWallet, At, TopupInv, HasWallet, TopupTypeOK
<1>1. /\ t \in TopupTask /\ t.wallet = w
      /\ t.pc = IF walletCount[w] + 1 > PerWalletDaily THEN "release" ELSE "day"
    BY <1>0 DEF TopupTask
<1>2. /\ topup' = [topup EXCEPT ![r] = t]
      /\ walletCount' = [walletCount EXCEPT ![w] = walletCount[w] + 1]
      /\ UNCHANGED <<lowGas, gasOk, inflight, dayCount, tankQueue, sent, tankSent, late, tankLate>>
    BY <1>0 DEF CountWallet, Go, sends
<1> HIDE DEF t
<1>3. walletCount' \in [Wallets -> 0..MaxCount]
    BY <1>0, <1>2
<1>4. TopupTypeOK' /\ HasWallet'
    BY <1>0, <1>1, <1>2, <1>3, TopupMoves DEF TopupInv, TopupTypeOK
<1>5. SenderIsHead'
    BY <1>0, <1>1, <1>2 DEF TopupInv, SenderIsHead
<1>6. Budget(tankSent, tankLate, Held, dayCount, DailyCap)'
  <2>0. /\ IsFiniteSet(Held') /\ Cardinality(Held') \in Nat /\ Cardinality(Held) \in Nat
        /\ Cardinality(Held') = Cardinality(Held) - One(topup[r].pc \in {"queued", "refund"})
                                  + One(t.pc \in {"queued", "refund"})
      BY <1>0, <1>1, <1>2, TopupMoves
  <2>1. Cardinality(Held') = Cardinality(Held)
      BY <1>0, <1>1, <2>0 DEF One
  <2> QED
      BY <1>0, <1>2, <2>0, <2>1 DEF TopupInv, Budgets, Budget
<1>7. ASSUME NEW v \in Wallets
      PROVE  Budget(sent[v], late[v], HeldOf(v), walletCount[v], PerWalletDaily)'
  <2>1. /\ IsFiniteSet(HeldOf(v)') /\ Cardinality(HeldOf(v)') \in Nat /\ Cardinality(HeldOf(v)) \in Nat
        /\ Cardinality(HeldOf(v)') = Cardinality(HeldOf(v)) - One(w = v /\ topup[r].pc \in {"day", "queued", "refund"})
              + One(t.wallet = v /\ t.pc \in {"day", "queued", "refund"})
      BY <1>0, <1>1, <1>2, TopupMovesOf
  <2>2. sent[v] \in Nat /\ late[v] \in Nat /\ walletCount[v] \in Nat /\ walletCount[v]' \in Nat
      BY <1>0, <1>3
  <2>3. Budget(sent[v], late[v], HeldOf(v), walletCount[v], PerWalletDaily)
      BY DEF TopupInv, Budgets
  <2>4. CASE v = w /\ t.pc = "day"
    <3>1. Cardinality(HeldOf(v)') = Cardinality(HeldOf(v)) + 1
        BY <1>0, <1>1, <2>1, <2>4 DEF One
    <3>2. walletCount[v]' = walletCount[v] + 1 /\ walletCount[v] + 1 <= PerWalletDaily
        BY <1>0, <1>1, <1>2, <2>4
    <3> QED
        BY <1>0, <1>2, <2>1, <2>2, <2>3, <3>1, <3>2 DEF Budget
  <2>5. CASE ~(v = w /\ t.pc = "day")
    <3>1. Cardinality(HeldOf(v)') = Cardinality(HeldOf(v))
        BY <1>0, <1>1, <2>1, <2>5 DEF One
    <3>2. walletCount[v]' >= walletCount[v]
        BY <1>0, <1>2
    <3> QED
        BY <1>0, <1>2, <2>1, <2>2, <2>3, <3>1, <3>2 DEF Budget
  <2> QED
      BY <2>4, <2>5
<1> QED
    BY <1>4, <1>5, <1>6, <1>7 DEF TopupInv, Budgets

\* What the invariant says of the types of the counters.
LEMMA TopupNumbers ==
    ASSUME TopupInv
    PROVE  /\ topup \in [TopupRequests -> TopupTask] /\ tankQueue \in Seq(TopupRequests)
           /\ walletCount \in [Wallets -> 0..MaxCount] /\ dayCount \in 0..MaxCount
           /\ MaxCount \in Nat /\ PerWalletDaily \in Nat /\ DailyCap \in Nat
           /\ tankSent \in Nat /\ tankLate \in Nat
           /\ sent \in [Wallets -> Nat] /\ late \in [Wallets -> Nat]
BY TopupAssumption DEF TopupInv, TopupTypeOK

\* The numbers of the day alone.
LEMMA DayNumbers ==
    ASSUME TopupInv
    PROVE  tankSent \in Nat /\ tankLate \in Nat /\ dayCount \in Nat /\ DailyCap \in Nat
BY TopupNumbers

\* A request that counted itself within the cap of the day joins the queue.
LEMMA CountDayKeeps ==
    ASSUME TopupInv, NEW r \in TopupRequests, CountDay(r)
    PROVE  TopupInv'
<1> DEFINE w == topup[r].wallet
           over == dayCount + 1 > DailyCap
           t == [topup[r] EXCEPT !.pc = IF over THEN "release" ELSE "queued"]
<1>0. topup[r] \in TopupTask /\ w \in Wallets /\ topup[r].pc = "day" /\ dayCount < MaxCount
    BY TopupNumbers DEF CountDay, At, TopupInv, HasWallet
<1>1. t \in TopupTask /\ t.wallet = w /\ t.pc = IF over THEN "release" ELSE "queued"
    BY <1>0 DEF TopupTask
<1>2. /\ topup' = [topup EXCEPT ![r] = t] /\ dayCount' = dayCount + 1
      /\ tankQueue' = IF over THEN tankQueue ELSE Append(tankQueue, r)
      /\ UNCHANGED <<lowGas, gasOk, inflight, walletCount, sent, tankSent, late, tankLate>>
    BY TopupNumbers DEF CountDay, Go, sends
<1>3. over \in BOOLEAN /\ (~over => dayCount + 1 <= DailyCap)
    BY TopupNumbers
<1> HIDE DEF t, over
<1>4. /\ IsFiniteSet(Held') /\ Cardinality(Held') \in Nat /\ Cardinality(Held) \in Nat
      /\ Cardinality(Held') = Cardinality(Held) - One(topup[r].pc \in {"queued", "refund"})
                                + One(t.pc \in {"queued", "refund"})
      /\ topup' \in [TopupRequests -> TopupTask] /\ HasWallet'
    BY <1>0, <1>1, <1>2, TopupMoves
<1>5. tankQueue' \in Seq(TopupRequests) /\ (tankQueue # <<>> => tankQueue' # <<>> /\ Head(tankQueue') = Head(tankQueue))
  <2>1. CASE over
      BY <1>2, <2>1, TopupNumbers
  <2>2. CASE ~over
    <3>1. tankQueue' = Append(tankQueue, r) /\ tankQueue \in Seq(TopupRequests)
        BY <1>2, <2>2, TopupNumbers
    <3> QED
        BY <3>1
  <2> QED
      BY <2>1, <2>2
<1>6. TopupTypeOK'
  <2>1. dayCount' \in 0..MaxCount
    <3>1. dayCount \in 0..MaxCount /\ MaxCount \in Nat
        BY TopupNumbers
    <3> QED
        BY <1>0, <1>2, <3>1
  <2> QED
      BY <1>2, <1>4, <1>5, <2>1 DEF TopupInv, TopupTypeOK
<1>7. SenderIsHead'
  <2>1. \A q \in TopupRequests : topup'[q].pc = "receipt" => q # r /\ topup'[q] = topup[q]
      BY <1>1, <1>2, TopupNumbers
  <2> QED
      BY <1>2, <1>5, <2>1 DEF TopupInv, SenderIsHead
<1>8. Budget(tankSent, tankLate, Held, dayCount, DailyCap)'
  <2>1. Cardinality(Held') = Cardinality(Held) + (IF over THEN 0 ELSE 1)
      BY <1>0, <1>1, <1>3, <1>4 DEF One
  <2>2. Budget(tankSent, tankLate, Held, dayCount, DailyCap)
      BY DEF TopupInv, Budgets
  <2> QED
      BY <1>2, <1>3, <1>4, <2>1, <2>2, DayNumbers DEF Budget
<1>9. ASSUME NEW v \in Wallets
      PROVE  Budget(sent[v], late[v], HeldOf(v), walletCount[v], PerWalletDaily)'
  <2>1. /\ IsFiniteSet(HeldOf(v)') /\ Cardinality(HeldOf(v)') \in Nat /\ Cardinality(HeldOf(v)) \in Nat
        /\ Cardinality(HeldOf(v)') = Cardinality(HeldOf(v))
              - One(topup[r].wallet = v /\ topup[r].pc \in {"day", "queued", "refund"})
              + One(t.wallet = v /\ t.pc \in {"day", "queued", "refund"})
      BY <1>0, <1>1, <1>2, TopupMovesOf
  <2>2. Cardinality(HeldOf(v)') <= Cardinality(HeldOf(v))
      BY <1>0, <1>1, <2>1 DEF One
  <2>3. sent[v] \in Nat /\ late[v] \in Nat /\ walletCount[v] \in Nat /\ PerWalletDaily \in Nat
      BY TopupNumbers
  <2>4. Budget(sent[v], late[v], HeldOf(v), walletCount[v], PerWalletDaily)
      BY DEF TopupInv, Budgets
  <2> QED
      BY <1>2, <2>1, <2>2, <2>3, <2>4 DEF Budget
<1> QED
    BY <1>4, <1>6, <1>7, <1>8, <1>9 DEF TopupInv, Budgets

\* The head of the queue sends, and its count is spent; or it cannot, and holds it still.
LEMMA SendGasKeeps ==
    ASSUME TopupInv, NEW r \in TopupRequests, SendGas(r)
    PROVE  TopupInv'
<1> DEFINE w == topup[r].wallet
           done == tankSent' # tankSent
           t == [topup[r] EXCEPT !.pc = IF done THEN "receipt" ELSE "refund"]
<1>0. /\ topup[r] \in TopupTask /\ w \in Wallets /\ topup[r].pc = "queued"
      /\ tankQueue # <<>> /\ Head(tankQueue) = r /\ done \in BOOLEAN
    BY TopupNumbers DEF SendGas, At, TopupInv, HasWallet
<1>1. t \in TopupTask /\ t.wallet = w /\ t.pc = IF done THEN "receipt" ELSE "refund"
    BY <1>0 DEF TopupTask
<1>2. /\ topup' = [topup EXCEPT ![r] = t]
      /\ tankSent' = tankSent + One(done) /\ tankQueue' = IF done THEN tankQueue ELSE Tail(tankQueue)
      /\ sent' = IF done THEN [sent EXCEPT ![w] = sent[w] + 1] ELSE sent
      /\ UNCHANGED <<lowGas, gasOk, inflight, walletCount, dayCount, late, tankLate>>
    BY TopupNumbers DEF SendGas, Go, sends, evmKeys, One
<1> HIDE DEF t, done
<1>3. /\ tankSent' \in Nat /\ tankQueue' \in Seq(TopupRequests) /\ sent' \in [Wallets -> Nat]
      /\ \A v \in Wallets : sent'[v] = sent[v] + One(done /\ v = w)
  <2>1. tankSent' \in Nat /\ tankQueue' \in Seq(TopupRequests)
    <3>1. tankSent' \in Nat
        BY <1>2, DayNumbers DEF One
    <3>2. tankQueue \in Seq(TopupRequests)
        BY TopupNumbers
    <3>3. Tail(tankQueue) \in Seq(TopupRequests)
        BY <1>0, <3>2
    <3> QED
        BY <1>2, <3>1, <3>2, <3>3
  <2>2. CASE done
    <3>0. sent \in [Wallets -> Nat] /\ w \in Wallets
        BY <1>0, TopupNumbers
    <3>1. sent' = [sent EXCEPT ![w] = sent[w] + 1] /\ \A v \in Wallets : sent[v] \in Nat
        BY <1>2, <2>2, <3>0
    <3>2. sent' \in [Wallets -> Nat]
        BY <3>0, <3>1
    <3>3. \A v \in Wallets : One(done /\ v = w) = IF v = w THEN 1 ELSE 0
        BY <2>2 DEF One
    <3>4. \A v \in Wallets : sent'[v] = IF v = w THEN sent[v] + 1 ELSE sent[v]
        BY <3>0, <3>1
    <3> QED
        BY <2>1, <3>1, <3>2, <3>3, <3>4
  <2>3. CASE ~done
    <3>1. sent' = sent /\ \A v \in Wallets : One(done /\ v = w) = 0
        BY <1>2, <2>3 DEF One
    <3> QED
        BY <2>1, <3>1, TopupNumbers
  <2> QED
      BY <1>0, <2>2, <2>3
<1>4. /\ IsFiniteSet(Held') /\ Cardinality(Held') \in Nat /\ Cardinality(Held) \in Nat
      /\ Cardinality(Held') = Cardinality(Held) - One(topup[r].pc \in {"queued", "refund"})
                                + One(t.pc \in {"queued", "refund"})
      /\ topup' \in [TopupRequests -> TopupTask] /\ HasWallet'
    BY <1>0, <1>1, <1>2, TopupMoves
<1>5. TopupTypeOK'
    BY <1>2, <1>3, <1>4 DEF TopupInv, TopupTypeOK
<1>6. SenderIsHead'
  <2>1. \A q \in TopupRequests : topup[q].pc # "receipt"
      BY <1>0 DEF TopupInv, SenderIsHead
  <2>2. \A q \in TopupRequests : topup'[q].pc = "receipt" => q = r /\ done /\ topup'[q].wallet = w
      BY <1>1, <1>2, <2>1, TopupNumbers
  <2>3. done => tankLate < tankSent' /\ late[w] < sent'[w]
    <3>1. tankLate <= tankSent /\ late[w] <= sent[w]
        BY <1>0 DEF TopupInv, Budgets, Budget
    <3>2. late[w] \in Nat /\ sent[w] \in Nat
        BY <1>0, TopupNumbers
    <3>3. done => tankSent' = tankSent + 1 /\ sent'[w] = sent[w] + 1
        BY <1>0, <1>2, <1>3 DEF One
    <3> QED
        BY <3>1, <3>2, <3>3, DayNumbers
  <2> QED
      BY <1>0, <1>2, <2>2, <2>3 DEF SenderIsHead
<1>7. Budget(tankSent, tankLate, Held, dayCount, DailyCap)'
  <2>1. Cardinality(Held') = Cardinality(Held) - One(done)
      BY <1>0, <1>1, <1>4 DEF One
  <2>2. Budget(tankSent, tankLate, Held, dayCount, DailyCap) /\ One(done) \in {0, 1}
      BY DEF TopupInv, Budgets, One
  <2> QED
      BY <1>2, <1>3, <1>4, <2>1, <2>2, DayNumbers DEF Budget
<1>8. ASSUME NEW v \in Wallets
      PROVE  Budget(sent[v], late[v], HeldOf(v), walletCount[v], PerWalletDaily)'
  <2>1. /\ IsFiniteSet(HeldOf(v)') /\ Cardinality(HeldOf(v)') \in Nat /\ Cardinality(HeldOf(v)) \in Nat
        /\ Cardinality(HeldOf(v)') = Cardinality(HeldOf(v))
              - One(topup[r].wallet = v /\ topup[r].pc \in {"day", "queued", "refund"})
              + One(t.wallet = v /\ t.pc \in {"day", "queued", "refund"})
      BY <1>0, <1>1, <1>2, TopupMovesOf
  <2>2. Cardinality(HeldOf(v)') = Cardinality(HeldOf(v)) - One(done /\ v = w)
      BY <1>0, <1>1, <2>1 DEF One
  <2>3. sent[v] \in Nat /\ late[v] \in Nat /\ walletCount[v] \in Nat /\ PerWalletDaily \in Nat
      BY TopupNumbers
  <2>4. /\ Budget(sent[v], late[v], HeldOf(v), walletCount[v], PerWalletDaily)
        /\ One(done /\ v = w) \in {0, 1}
      BY DEF TopupInv, Budgets, One
  <2>5. /\ sent'[v] = sent[v] + One(done /\ v = w)
        /\ late'[v] = late[v] /\ walletCount'[v] = walletCount[v]
      BY <1>2, <1>3
  <2> QED
      BY <2>1, <2>2, <2>3, <2>4, <2>5 DEF Budget
<1> QED
    BY <1>4, <1>5, <1>6, <1>7, <1>8 DEF TopupInv, Budgets

\* The top-up is mined in time; or it is not, and what was sent is held once more.
LEMMA ReceiptKeeps ==
    ASSUME TopupInv, NEW r \in TopupRequests, Receipt(r)
    PROVE  TopupInv'
<1> DEFINE w == topup[r].wallet
           slow == tankLate' # tankLate
           t == [topup[r] EXCEPT !.pc = IF slow THEN "refund" ELSE "release"]
<1>0. /\ topup[r] \in TopupTask /\ w \in Wallets /\ topup[r].pc = "receipt" /\ slow \in BOOLEAN
      /\ tankQueue # <<>> /\ Head(tankQueue) = r
      /\ tankLate < tankSent /\ late[w] < sent[w]
    BY TopupNumbers DEF Receipt, At, TopupInv, HasWallet, SenderIsHead
<1>1. t \in TopupTask /\ t.wallet = w /\ t.pc = IF slow THEN "refund" ELSE "release"
    BY <1>0 DEF TopupTask
<1>2. /\ topup' = [topup EXCEPT ![r] = t]
      /\ tankLate' = tankLate + One(slow) /\ tankQueue' = Tail(tankQueue)
      /\ late' = IF slow THEN [late EXCEPT ![w] = late[w] + 1] ELSE late
      /\ lowGas' \subseteq Wallets
      /\ UNCHANGED <<gasOk, inflight, walletCount, dayCount, sent, tankSent>>
  <2>1. tankLate + 1 # tankLate /\ tankLate + 0 = tankLate /\ lowGas \subseteq Wallets
      BY DayNumbers DEF TopupInv, TopupTypeOK
  <2>2. CASE slow
      BY <2>1, <2>2 DEF Receipt, Go, evmKeys, One
  <2>3. CASE ~slow
      BY <2>1, <2>3 DEF Receipt, Go, evmKeys, One
  <2> QED
      BY <2>2, <2>3
<1> HIDE DEF t, slow
<1>3. /\ tankLate' \in Nat /\ tankQueue' \in Seq(TopupRequests) /\ late' \in [Wallets -> Nat]
      /\ \A v \in Wallets : late'[v] = late[v] + One(slow /\ v = w)
  <2>1. tankLate' \in Nat /\ tankQueue' \in Seq(TopupRequests)
    <3>1. tankLate' \in Nat
        BY <1>2, DayNumbers DEF One
    <3>2. tankQueue \in Seq(TopupRequests)
        BY TopupNumbers
    <3> QED
        BY <1>0, <1>2, <3>1, <3>2
  <2>2. CASE slow
    <3>0. late \in [Wallets -> Nat] /\ w \in Wallets
        BY <1>0, TopupNumbers
    <3>1. late' = [late EXCEPT ![w] = late[w] + 1] /\ \A v \in Wallets : late[v] \in Nat
        BY <1>2, <2>2, <3>0
    <3>2. late' \in [Wallets -> Nat]
        BY <3>0, <3>1
    <3>3. \A v \in Wallets : One(slow /\ v = w) = IF v = w THEN 1 ELSE 0
        BY <2>2 DEF One
    <3>4. \A v \in Wallets : late'[v] = IF v = w THEN late[v] + 1 ELSE late[v]
        BY <3>0, <3>1
    <3> QED
        BY <2>1, <3>1, <3>2, <3>3, <3>4
  <2>3. CASE ~slow
    <3>1. late' = late /\ \A v \in Wallets : One(slow /\ v = w) = 0
        BY <1>2, <2>3 DEF One
    <3> QED
        BY <2>1, <3>1, TopupNumbers
  <2> QED
      BY <1>0, <2>2, <2>3
<1>4. /\ IsFiniteSet(Held') /\ Cardinality(Held') \in Nat /\ Cardinality(Held) \in Nat
      /\ Cardinality(Held') = Cardinality(Held) - One(topup[r].pc \in {"queued", "refund"})
                                + One(t.pc \in {"queued", "refund"})
      /\ topup' \in [TopupRequests -> TopupTask] /\ HasWallet'
    BY <1>0, <1>1, <1>2, TopupMoves
<1>5. TopupTypeOK'
    BY <1>2, <1>3, <1>4 DEF TopupInv, TopupTypeOK
<1>6. SenderIsHead'
  <2>1. \A q \in TopupRequests : topup[q].pc = "receipt" => q = r
      BY <1>0 DEF TopupInv, SenderIsHead
  <2>2. \A q \in TopupRequests : topup'[q].pc # "receipt"
      BY <1>1, <1>2, <2>1, TopupNumbers
  <2> QED
      BY <2>2 DEF SenderIsHead
<1>7. Budget(tankSent, tankLate, Held, dayCount, DailyCap)'
  <2>1. Cardinality(Held') = Cardinality(Held) + One(slow)
      BY <1>0, <1>1, <1>4 DEF One
  <2>2. Budget(tankSent, tankLate, Held, dayCount, DailyCap) /\ One(slow) \in {0, 1}
      BY DEF TopupInv, Budgets, One
  <2> QED
      BY <1>0, <1>2, <1>3, <1>4, <2>1, <2>2, DayNumbers DEF Budget
<1>8. ASSUME NEW v \in Wallets
      PROVE  Budget(sent[v], late[v], HeldOf(v), walletCount[v], PerWalletDaily)'
  <2>1. /\ IsFiniteSet(HeldOf(v)') /\ Cardinality(HeldOf(v)') \in Nat /\ Cardinality(HeldOf(v)) \in Nat
        /\ Cardinality(HeldOf(v)') = Cardinality(HeldOf(v))
              - One(topup[r].wallet = v /\ topup[r].pc \in {"day", "queued", "refund"})
              + One(t.wallet = v /\ t.pc \in {"day", "queued", "refund"})
      BY <1>0, <1>1, <1>2, TopupMovesOf
  <2>2. Cardinality(HeldOf(v)') = Cardinality(HeldOf(v)) + One(slow /\ v = w)
      BY <1>0, <1>1, <2>1 DEF One
  <2>3. sent[v] \in Nat /\ late[v] \in Nat /\ walletCount[v] \in Nat /\ PerWalletDaily \in Nat
      BY TopupNumbers
  <2>4. /\ Budget(sent[v], late[v], HeldOf(v), walletCount[v], PerWalletDaily)
        /\ One(slow /\ v = w) \in {0, 1} /\ late[v] + One(slow /\ v = w) <= sent[v]
      BY <1>0, <2>3 DEF TopupInv, Budgets, Budget, One
  <2>5. /\ late'[v] = late[v] + One(slow /\ v = w)
        /\ sent'[v] = sent[v] /\ walletCount'[v] = walletCount[v]
      BY <1>2, <1>3
  <2> QED
      BY <2>1, <2>2, <2>3, <2>4, <2>5 DEF Budget
<1> QED
    BY <1>4, <1>5, <1>6, <1>7, <1>8 DEF TopupInv, Budgets

\* A refund takes back exactly what the request holds.
LEMMA RefundKeeps ==
    ASSUME TopupInv, NEW r \in TopupRequests, Refund(r)
    PROVE  TopupInv'
<1> DEFINE w == topup[r].wallet
<1>0. /\ topup[r] \in TopupTask /\ w \in Wallets /\ topup[r].pc = "refund"
      /\ IdleTopup \in TopupTask /\ IdleTopup.pc = "idle"
    BY TopupNumbers DEF Refund, At, TopupInv, HasWallet, IdleTopup, TopupTask
<1>1. /\ topup' = [topup EXCEPT ![r] = IdleTopup] /\ dayCount' = dayCount - 1
      /\ walletCount' = [walletCount EXCEPT ![w] = walletCount[w] - 1]
      /\ inflight' \subseteq Wallets
      /\ UNCHANGED <<lowGas, gasOk, tankQueue, sent, tankSent, late, tankLate>>
    BY DEF Refund, Return, sends, TopupInv, TopupTypeOK
<1>2. /\ IsFiniteSet(Held') /\ Cardinality(Held') \in Nat /\ Cardinality(Held) \in Nat
      /\ Cardinality(Held') = Cardinality(Held) - One(topup[r].pc \in {"queued", "refund"})
                                + One(IdleTopup.pc \in {"queued", "refund"})
      /\ topup' \in [TopupRequests -> TopupTask] /\ HasWallet'
    BY <1>0, <1>1, TopupMoves
<1>3. Cardinality(Held') = Cardinality(Held) - 1
    BY <1>0, <1>2 DEF One
<1>4. Budget(tankSent, tankLate, Held, dayCount, DailyCap)' /\ dayCount' \in 0..MaxCount
  <2>1. Budget(tankSent, tankLate, Held, dayCount, DailyCap)
      BY DEF TopupInv, Budgets
  <2>2. dayCount \in 0..MaxCount /\ MaxCount \in Nat
      BY TopupNumbers
  <2>3. dayCount' = dayCount - 1 /\ UNCHANGED <<tankSent, tankLate>>
      BY <1>1
  <2> QED
      BY <1>2, <1>3, <2>1, <2>2, <2>3, DayNumbers DEF Budget
<1>5. ASSUME NEW v \in Wallets
      PROVE  /\ Budget(sent[v], late[v], HeldOf(v), walletCount[v], PerWalletDaily)'
             /\ walletCount'[v] \in 0..MaxCount
  <2>1. /\ IsFiniteSet(HeldOf(v)') /\ Cardinality(HeldOf(v)') \in Nat /\ Cardinality(HeldOf(v)) \in Nat
        /\ Cardinality(HeldOf(v)') = Cardinality(HeldOf(v))
              - One(topup[r].wallet = v /\ topup[r].pc \in {"day", "queued", "refund"})
              + One(IdleTopup.wallet = v /\ IdleTopup.pc \in {"day", "queued", "refund"})
      BY <1>0, <1>1, TopupMovesOf
  <2>2. Cardinality(HeldOf(v)') = Cardinality(HeldOf(v)) - One(v = w)
      BY <1>0, <2>1 DEF One
  <2>3. /\ sent[v] \in Nat /\ late[v] \in Nat /\ walletCount[v] \in 0..MaxCount
        /\ PerWalletDaily \in Nat /\ MaxCount \in Nat
        /\ walletCount'[v] = walletCount[v] - One(v = w)
    <3>1. /\ sent[v] \in Nat /\ late[v] \in Nat /\ walletCount[v] \in 0..MaxCount
          /\ PerWalletDaily \in Nat /\ MaxCount \in Nat
          /\ walletCount \in [Wallets -> 0..MaxCount]
        BY TopupNumbers
    <3>2. walletCount'[v] = IF v = w THEN walletCount[v] - 1 ELSE walletCount[v]
        BY <1>1, <3>1
    <3> QED
        BY <3>1, <3>2 DEF One
  <2>4. /\ Budget(sent[v], late[v], HeldOf(v), walletCount[v], PerWalletDaily)
        /\ One(v = w) \in {0, 1}
      BY DEF TopupInv, Budgets, One
  <2> QED
      BY <1>1, <2>1, <2>2, <2>3, <2>4 DEF Budget
<1>6. walletCount' \in [Wallets -> 0..MaxCount]
    BY <1>1, <1>5, TopupNumbers
<1>7. TopupTypeOK'
    BY <1>1, <1>2, <1>4, <1>6 DEF TopupInv, TopupTypeOK
<1>8. SenderIsHead'
    BY <1>0, <1>1, TopupNumbers DEF TopupInv, SenderIsHead
<1> QED
    BY <1>2, <1>4, <1>5, <1>7, <1>8 DEF TopupInv, Budgets

\* Every step keeps the budgets.
LEMMA TopupInvStep == TopupInv /\ [TopupNext]_topupVars => TopupInv'
<1> SUFFICES ASSUME TopupInv, [TopupNext]_topupVars PROVE TopupInv'
    OBVIOUS
<1> USE DEF evmKeys, sends, At
<1>0. IdleTopup \in TopupTask /\ IdleTopup.pc = "idle" /\ topup \in [TopupRequests -> TopupTask]
      /\ lowGas \subseteq Wallets /\ gasOk \subseteq Wallets /\ inflight \subseteq Wallets
    BY DEF IdleTopup, TopupTask, TopupInv, TopupTypeOK
<1>1. ASSUME NEW r \in TopupRequests, NEW w \in Wallets, ensureGas(r, w) PROVE TopupInv'
  <2> DEFINE t == [pc |-> "balance", wallet |-> w]
  <2>1. t \in TopupTask /\ t.pc = "balance" /\ t.wallet = w /\ topup' = [topup EXCEPT ![r] = t]
      BY <1>1 DEF ensureGas, TopupTask
  <2> HIDE DEF t
  <2> QED
      BY <1>0, <1>1, <2>1, QuietMove DEF ensureGas
<1>2. ASSUME NEW r \in TopupRequests, ReadBalances(r) \/ TakeInflight(r) \/ Release(r) PROVE TopupInv'
  <2>0. topup[r].pc \notin {"receipt", "idle"} /\ topup[r].wallet \in Wallets
      BY <1>2 DEF ReadBalances, TakeInflight, Release, TopupInv, HasWallet
  <2>1. PICK t \in {IdleTopup, [topup[r] EXCEPT !.pc = "inflight"], [topup[r] EXCEPT !.pc = "wallet"]} :
          topup' = [topup EXCEPT ![r] = t]
      BY <1>0, <1>2 DEF ReadBalances, TakeInflight, Release, Go, Return
  <2>2. t \in TopupTask /\ t.pc \in {"idle", "inflight", "wallet"}
        /\ (t.pc # "idle" => t.wallet \in Wallets)
      BY <1>0, <2>0 DEF TopupTask
  <2>3. /\ UNCHANGED <<walletCount, dayCount, tankQueue, sent, tankSent, late, tankLate>>
        /\ lowGas' \subseteq Wallets /\ gasOk' \subseteq Wallets /\ inflight' \subseteq Wallets
      BY <1>0, <1>2, <2>0 DEF ReadBalances, TakeInflight, Release
  <2> QED
      BY <2>0, <2>1, <2>2, <2>3, QuietMove
<1>3. ASSUME NEW w \in Wallets, InflightExpires(w) \/ GasOkExpires(w) \/ SpendGas(w) \/ LateGas(w)
      PROVE  TopupInv'
  <2>1. /\ UNCHANGED <<walletCount, dayCount, tankQueue, topup, sent, tankSent, late, tankLate>>
        /\ lowGas' \subseteq Wallets /\ gasOk' \subseteq Wallets /\ inflight' \subseteq Wallets
      BY <1>0, <1>3 DEF InflightExpires, GasOkExpires, SpendGas, LateGas
  <2> QED
      BY <2>1 DEF TopupInv, TopupTypeOK, HasWallet, SenderIsHead, Budgets, Budget, Held, HeldOf
<1>4. CASE TopupRestart
  <2>1. /\ topup' = [r \in TopupRequests |-> IdleTopup] /\ tankQueue' = <<>>
        /\ UNCHANGED <<lowGas, gasOk, inflight, walletCount, dayCount, sent, tankSent, late, tankLate>>
      BY <1>4 DEF TopupRestart
  <2>2. Held' = {} /\ \A w \in Wallets : HeldOf(w)' = {}
      BY <1>0, <2>1 DEF Held, HeldOf
  <2>3. IsFiniteSet({}) /\ Cardinality({}) = 0
      BY FS_EmptySet
  <2>4. Budget(tankSent, tankLate, Held, dayCount, DailyCap)'
    <3>1. Cardinality(Held) \in Nat /\ Budget(tankSent, tankLate, Held, dayCount, DailyCap)
        BY FS_CardinalityType DEF TopupInv, Budgets, Budget
    <3> QED
        BY <2>1, <2>2, <2>3, <3>1, TopupNumbers DEF Budget
  <2>5. ASSUME NEW w \in Wallets
        PROVE  Budget(sent[w], late[w], HeldOf(w), walletCount[w], PerWalletDaily)'
    <3>1. /\ Cardinality(HeldOf(w)) \in Nat
          /\ Budget(sent[w], late[w], HeldOf(w), walletCount[w], PerWalletDaily)
        BY FS_CardinalityType DEF TopupInv, Budgets, Budget
    <3>2. sent[w] \in Nat /\ late[w] \in Nat /\ walletCount[w] \in Nat /\ PerWalletDaily \in Nat
        BY TopupNumbers
    <3>3. /\ IsFiniteSet(HeldOf(w)') /\ Cardinality(HeldOf(w)') = 0
          /\ sent'[w] = sent[w] /\ late'[w] = late[w] /\ walletCount'[w] = walletCount[w]
        BY <2>1, <2>2, <2>3
    <3> QED
        BY <3>1, <3>2, <3>3 DEF Budget
  <2>6. TopupTypeOK' /\ HasWallet' /\ SenderIsHead'
      BY <1>0, <2>1 DEF TopupInv, TopupTypeOK, HasWallet, SenderIsHead
  <2> QED
      BY <2>4, <2>5, <2>6 DEF TopupInv, Budgets
<1>5. CASE UNCHANGED topupVars
    BY <1>5 DEF topupVars, TopupInv, TopupTypeOK, HasWallet, SenderIsHead, Budgets, Budget, Held, HeldOf
<1> QED
    BY <1>1, <1>2, <1>3, <1>4, <1>5, CountWalletKeeps, CountDayKeeps, SendGasKeeps, ReceiptKeeps,
       RefundKeeps DEF TopupNext, TopupStep

\* With every top-up that is held or spent inside the counters, the caps hold but for late ones.
LEMMA TankSafetyFollows == TopupInv => TankSafety
<1> SUFFICES ASSUME TopupInv PROVE TankSafety
    OBVIOUS
<1>1. tankSent <= DailyCap + tankLate
  <2>1. Cardinality(Held) \in Nat /\ Budget(tankSent, tankLate, Held, dayCount, DailyCap)
      BY FS_CardinalityType DEF TopupInv, Budgets, Budget
  <2> QED
      BY <2>1, TopupNumbers DEF Budget
<1>2. ASSUME NEW w \in Wallets PROVE sent[w] <= PerWalletDaily + late[w]
  <2>1. /\ Cardinality(HeldOf(w)) \in Nat
        /\ Budget(sent[w], late[w], HeldOf(w), walletCount[w], PerWalletDaily)
      BY FS_CardinalityType DEF TopupInv, Budgets, Budget
  <2>2. sent[w] \in Nat /\ late[w] \in Nat /\ PerWalletDaily \in Nat
      BY TopupNumbers
  <2> QED
      BY <2>1, <2>2 DEF Budget
<1>3. OneSendAtATime
  <2> DEFINE R == {r \in TopupRequests : At(r, "receipt")}
  <2>1. \A r \in R : r = Head(tankQueue)
      BY DEF TopupInv, SenderIsHead, At
  <2>2. R = {} \/ R = {Head(tankQueue)}
      BY <2>1
  <2>3. Cardinality({}) = 0 /\ Cardinality({Head(tankQueue)}) = 1
      BY FS_EmptySet, FS_Singleton
  <2> QED
      BY <2>2, <2>3 DEF OneSendAtATime
<1> QED
    BY <1>1, <1>2, <1>3 DEF TankSafety, CapsHold

\* The tank pays within its caps but for what was mined late, and sends one top-up at a
\* time, whatever requests run at once and whenever the API restarts
\* (evm-gas-topup.service.ts).
THEOREM TankSafetyHolds == TopupSpec => [](TopupTypeOK /\ TankSafety)
<1>1. TopupInv => TopupTypeOK /\ TankSafety
    BY TankSafetyFollows DEF TopupInv
<1> QED
    BY <1>1, TopupInvInit, TopupInvStep, PTL DEF TopupSpec

-----------------------------------------------------------------------------
(* WalletLink *)

\* A challenge was got past once exactly when it is used, and a verification that is past it
\* works for the account it was given to.
ChallengesKept ==
  /\ \A c \in Challenge : outcomes[c] = One(challengeRow[c].used)
  /\ \A c \in Challenge : challengeRow[c].account # NoAccount => challengeRow[c].address \in Addresses
  /\ \A r \in LinkRequests : linkTask[r].pc # "idle" =>
       /\ linkTask[r].challenge \in Challenge /\ linkTask[r].account \in Accounts
       /\ challengeRow[linkTask[r].challenge].account = linkTask[r].account
       /\ linkTask[r].pc # "consume" => challengeRow[linkTask[r].challenge].used

\* Unless it was overtaken, a verification that links takes the wallet from nobody, or works
\* for an account that is not empty.
LinksForOwners ==
  \A r \in LinkRequests : linkTask[r].pc = "link" /\ ~linkTask[r].raced =>
    \/ walletOwner[AddressOf(r)] \in {NoAccount, linkTask[r].account}
    \/ ~Empty(linkTask[r].account)

LinkInv == LinkTypeOK /\ ChallengesKept /\ LinkWasProven /\ LinksForOwners

\* The invariant holds before any challenge is issued.
LEMMA LinkInvInit == LinkInit => LinkInv
BY WalletLinkAssumption
DEF LinkInit, LinkInv, LinkTypeOK, ChallengesKept, LinkWasProven, LinksForOwners, NoChallenge,
    IdleLink, Owner, Address, One

\* A set of numbers has a least one.
LEMMA LeastExists ==
    ASSUME NEW S \in SUBSET Nat, S # {}
    PROVE  \E x \in S : \A y \in S : x <= y
<1>1. PICK x \in S : \A y \in S : ~(<<y, x>> \in OpToRel(<, Nat))
    BY NatLessThanWellFounded, WFMin, Zenon
<1>2. \A y \in S : ~(y < x)
    BY <1>1, Zenon DEF OpToRel
<1> QED
    BY <1>2

\* A new challenge takes a row that nobody has.
LEMMA createChallengeKeeps ==
    ASSUME LinkInv, NEW u \in Accounts, NEW a \in Addresses, createChallenge(u, a)
    PROVE  LinkInv'
<1> DEFINE fresh == {c \in Challenge : challengeRow[c] = NoChallenge}
           id == CHOOSE c \in fresh : \A d \in fresh : c <= d
           row == [NoChallenge EXCEPT !.account = u, !.address = a]
<1>1. id \in fresh
  <2>1. fresh \in SUBSET Nat /\ fresh # {}
      BY DEF createChallenge, Challenge
  <2> HIDE DEF fresh
  <2> QED
      BY <2>1, LeastExists
<1>2. challengeRow' = [challengeRow EXCEPT ![id] = row]
      /\ UNCHANGED <<walletOwner, settled, linkTask, outcomes>>
    BY DEF createChallenge
<1>3. /\ row \in [account: Owner, address: Address, used: BOOLEAN, expired: BOOLEAN]
      /\ row.used = FALSE /\ row.address \in Addresses
      /\ NoChallenge.used = FALSE /\ NoChallenge.account = NoAccount
    BY DEF NoChallenge, Owner, Address
<1> HIDE DEF row, id
<1>4. id \in Challenge /\ challengeRow[id] = NoChallenge
    BY <1>1
<1>5. LinkTypeOK'
    BY <1>2, <1>3, <1>4 DEF LinkInv, LinkTypeOK
<1>6. \A c \in Challenge : challengeRow'[c] = IF c = id THEN row ELSE challengeRow[c]
    BY <1>2, <1>4 DEF LinkInv, LinkTypeOK
<1>7. ChallengesKept'
  <2>1. \A c \in Challenge : challengeRow'[c].used = challengeRow[c].used
      BY <1>3, <1>4, <1>6
  <2>2. \A r \in LinkRequests : linkTask[r].pc # "idle" => linkTask[r].challenge # id
      BY <1>3, <1>4, WalletLinkAssumption DEF LinkInv, ChallengesKept
  <2> QED
      BY <1>2, <1>3, <1>6, <2>1, <2>2 DEF LinkInv, ChallengesKept
<1>8. LinkWasProven'
  <2> SUFFICES ASSUME NEW b \in Addresses, walletOwner[b] # NoAccount
               PROVE  \E c \in Challenge : /\ challengeRow'[c].used
                                           /\ challengeRow'[c].address = b
                                           /\ challengeRow'[c].account = walletOwner[b]
      BY <1>2 DEF LinkWasProven
  <2>1. PICK c \in Challenge : /\ challengeRow[c].used
                               /\ challengeRow[c].address = b
                               /\ challengeRow[c].account = walletOwner[b]
      BY DEF LinkInv, LinkWasProven
  <2>2. c # id
      BY <1>3, <1>4, <2>1
  <2> QED
      BY <1>6, <2>1, <2>2
<1>9. LinksForOwners'
  <2>1. \A r \in LinkRequests : linkTask[r].pc = "link" =>
          linkTask[r].challenge \in Challenge /\ linkTask[r].challenge # id
      BY <1>3, <1>4, WalletLinkAssumption DEF LinkInv, ChallengesKept
  <2>2. \A r \in LinkRequests : linkTask[r].pc = "link" => AddressOf(r)' = AddressOf(r)
      BY <1>2, <1>6, <2>1 DEF AddressOf
  <2> QED
      BY <1>2, <2>2 DEF LinkInv, LinksForOwners, Empty
<1> QED
    BY <1>5, <1>7, <1>8, <1>9 DEF LinkInv

LinkTasks ==
  [pc: {"idle", "consume", "owner", "empty", "resume", "link"},
   account: Owner, challenge: Challenge \cup {0}, owner: Owner, raced: BOOLEAN]

\* The next task of a verification rests on its own challenge.
TaskRests(t) ==
  t.pc # "idle" =>
    /\ t.challenge \in Challenge /\ t.account \in Accounts
    /\ challengeRow[t.challenge].account = t.account
    /\ t.pc # "consume" => challengeRow[t.challenge].used

\* A step that changes nothing but one verification's task.
LEMMA LinkMoves ==
    ASSUME LinkInv, NEW r \in LinkRequests, NEW t \in LinkTasks, LinkGoes(r, t, FALSE),
           UNCHANGED <<challengeRow, walletOwner, settled, outcomes>>, TaskRests(t),
           t.pc = "link" /\ ~t.raced =>
             \/ walletOwner[challengeRow[t.challenge].address] \in {NoAccount, t.account}
             \/ ~Empty(t.account)
    PROVE  LinkInv'
<1>0. linkTask \in [LinkRequests -> LinkTasks]
    BY DEF LinkInv, LinkTypeOK, LinkTasks
<1>1. \A s \in LinkRequests : linkTask'[s] = IF s = r THEN t ELSE linkTask[s]
    BY DEF LinkGoes
<1>2. linkTask' \in [LinkRequests -> LinkTasks]
    BY <1>0 DEF LinkGoes
<1>3. LinkTypeOK'
    BY <1>2 DEF LinkInv, LinkTypeOK, LinkTasks
<1>4. ChallengesKept' /\ LinkWasProven'
    BY <1>1 DEF LinkInv, ChallengesKept, LinkWasProven, TaskRests
<1>5. LinksForOwners'
    BY <1>1 DEF LinkInv, LinksForOwners, AddressOf, Empty
<1> QED
    BY <1>3, <1>4, <1>5 DEF LinkInv

\* Consuming a challenge marks it used and counts it once.
LEMMA ConsumeKeeps ==
    ASSUME LinkInv, NEW r \in LinkRequests, Consume(r)
    PROVE  LinkInv'
<1> DEFINE c == linkTask[r].challenge
           row == [challengeRow[c] EXCEPT !.used = TRUE]
           t == [linkTask[r] EXCEPT !.pc = "owner"]
<1>0. /\ linkTask \in [LinkRequests -> LinkTasks] /\ linkTask[r].pc = "consume"
      /\ c \in Challenge /\ linkTask[r].account \in Accounts
      /\ challengeRow[c].account = linkTask[r].account
      /\ challengeRow \in [Challenge -> [account: Owner, address: Address,
                                         used: BOOLEAN, expired: BOOLEAN]]
    BY DEF Consume, LinkInv, LinkTypeOK, LinkTasks, ChallengesKept
<1>1. CASE challengeRow[c].used
  <2>1. IdleLink \in LinkTasks /\ IdleLink.pc = "idle"
      BY DEF IdleLink, LinkTasks, Owner
  <2>2. LinkGoes(r, IdleLink, FALSE) /\ UNCHANGED <<challengeRow, walletOwner, settled, outcomes>>
      BY <1>1 DEF Consume
  <2> QED
      BY <2>1, <2>2, LinkMoves DEF TaskRests
<1>2. CASE ~challengeRow[c].used
  <2>1. /\ challengeRow' = [challengeRow EXCEPT ![c] = row]
        /\ outcomes' = [outcomes EXCEPT ![c] = outcomes[c] + 1]
        /\ \A s \in LinkRequests : linkTask'[s] = IF s = r THEN t ELSE linkTask[s]
        /\ linkTask' = [s \in LinkRequests |-> linkTask'[s]]
        /\ UNCHANGED <<walletOwner, settled>>
      BY <1>0, <1>2 DEF Consume, LinkGoes
  <2>2. /\ row \in [account: Owner, address: Address, used: BOOLEAN, expired: BOOLEAN]
        /\ row.used = TRUE /\ row.account = challengeRow[c].account
        /\ row.address = challengeRow[c].address
      BY <1>0
  <2>3. /\ t \in LinkTasks /\ t.pc = "owner" /\ t.challenge = c /\ t.account = linkTask[r].account
      BY <1>0 DEF LinkTasks
  <2> HIDE DEF row, t, c
  <2>4. linkTask' \in [LinkRequests -> LinkTasks]
      BY <1>0, <2>1, <2>3
  <2>5. outcomes[c] = 0 /\ outcomes \in [Challenge -> Nat]
      BY <1>0, <1>2 DEF LinkInv, LinkTypeOK, ChallengesKept, One
  <2>6. LinkTypeOK'
      BY <1>0, <2>1, <2>2, <2>4, <2>5 DEF LinkInv, LinkTypeOK, LinkTasks
  <2>7. \A d \in Challenge :
          /\ challengeRow'[d] = IF d = c THEN row ELSE challengeRow[d]
          /\ outcomes'[d] = IF d = c THEN 1 ELSE outcomes[d]
      BY <1>0, <2>1, <2>5
  <2>8. \A d \in Challenge :
          /\ challengeRow'[d].account = challengeRow[d].account
          /\ challengeRow'[d].address = challengeRow[d].address
          /\ challengeRow'[d].used <=> (d = c \/ challengeRow[d].used)
      BY <1>0, <2>2, <2>7
  <2>9. ChallengesKept'
    <3>1. \A d \in Challenge : outcomes'[d] = One(challengeRow'[d].used)
        BY <2>2, <2>7 DEF LinkInv, ChallengesKept, One
    <3>2. \A s \in LinkRequests : linkTask'[s].pc # "idle" =>
            /\ linkTask'[s].challenge \in Challenge /\ linkTask'[s].account \in Accounts
            /\ challengeRow'[linkTask'[s].challenge].account = linkTask'[s].account
            /\ linkTask'[s].pc # "consume" => challengeRow'[linkTask'[s].challenge].used
        BY <1>0, <2>1, <2>3, <2>8 DEF LinkInv, ChallengesKept
    <3> QED
        BY <2>8, <3>1, <3>2 DEF LinkInv, ChallengesKept
  <2>10. LinkWasProven'
      BY <2>1, <2>8 DEF LinkInv, LinkWasProven
  <2>11. LinksForOwners'
    <3>1. \A s \in LinkRequests : linkTask'[s].pc = "link" =>
            linkTask'[s] = linkTask[s] /\ AddressOf(s)' = AddressOf(s)
        BY <2>1, <2>3, <2>8 DEF LinkInv, ChallengesKept, AddressOf
    <3> QED
        BY <2>1, <3>1 DEF LinkInv, LinksForOwners, Empty
  <2> QED
      BY <2>6, <2>9, <2>10, <2>11 DEF LinkInv
<1> QED
    BY <1>1, <1>2

\* Being overtaken changes nothing else of a verification.
LEMMA OvertakenKeeps ==
    ASSUME NEW t \in LinkTasks, NEW b \in BOOLEAN
    PROVE  LET n == [t EXCEPT !.raced = b]
           IN /\ n \in LinkTasks /\ n.pc = t.pc /\ n.challenge = t.challenge
              /\ n.account = t.account /\ n.raced = b
BY DEF LinkTasks

\* A link is for the account of a used challenge for the address, and overtakes the others.
LEMMA LinkKeeps ==
    ASSUME LinkInv, NEW r \in LinkRequests, Link(r)
    PROVE  LinkInv'
<1> DEFINE c == linkTask[r].challenge
           u == linkTask[r].account
           a == challengeRow[c].address
<1>0. /\ linkTask \in [LinkRequests -> LinkTasks] /\ linkTask[r].pc = "link"
      /\ c \in Challenge /\ u \in Accounts /\ challengeRow[c].account = u /\ challengeRow[c].used
      /\ a \in Addresses /\ walletOwner \in [Addresses -> Owner]
    BY WalletLinkAssumption DEF Link, LinkInv, LinkTypeOK, LinkTasks, ChallengesKept
<1>1. /\ walletOwner' = [walletOwner EXCEPT ![a] = u]
      /\ \A s \in LinkRequests : linkTask'[s] = IF s = r THEN IdleLink
           ELSE IF linkTask[s].pc \in {"empty", "resume", "link"}
                THEN [linkTask[s] EXCEPT !.raced = TRUE] ELSE linkTask[s]
      /\ linkTask' = [s \in LinkRequests |-> linkTask'[s]]
      /\ UNCHANGED <<challengeRow, settled, outcomes>>
    BY DEF Link, LinkGoes, AddressOf
<1>2. IdleLink \in LinkTasks /\ IdleLink.pc = "idle"
    BY DEF IdleLink, LinkTasks, Owner
<1>3. \A s \in LinkRequests :
        /\ linkTask'[s] \in LinkTasks
        /\ s # r => /\ linkTask'[s].pc = linkTask[s].pc
                    /\ linkTask'[s].challenge = linkTask[s].challenge
                    /\ linkTask'[s].account = linkTask[s].account
                    /\ linkTask[s].pc = "link" => linkTask'[s].raced
  <2> SUFFICES ASSUME NEW s \in LinkRequests
               PROVE  /\ linkTask'[s] \in LinkTasks
                      /\ s # r => /\ linkTask'[s].pc = linkTask[s].pc
                                  /\ linkTask'[s].challenge = linkTask[s].challenge
                                  /\ linkTask'[s].account = linkTask[s].account
                                  /\ linkTask[s].pc = "link" => linkTask'[s].raced
      OBVIOUS
  <2>1. CASE s = r
      BY <1>1, <1>2, <2>1
  <2>2. CASE s # r /\ linkTask[s].pc \in {"empty", "resume", "link"}
    <3>1. linkTask'[s] = [linkTask[s] EXCEPT !.raced = TRUE] /\ linkTask[s] \in LinkTasks
        BY <1>0, <1>1, <2>2
    <3> QED
        BY <2>2, <3>1, OvertakenKeeps
  <2>3. CASE s # r /\ linkTask[s].pc \notin {"empty", "resume", "link"}
      BY <1>0, <1>1, <2>3
  <2> QED
      BY <2>1, <2>2, <2>3
<1>4. LinkTypeOK'
  <2>1. walletOwner' \in [Addresses -> Owner]
      BY <1>0, <1>1 DEF Owner
  <2>2. linkTask' \in [LinkRequests -> LinkTasks]
      BY <1>1, <1>3
  <2> QED
      BY <1>1, <2>1, <2>2 DEF LinkInv, LinkTypeOK, LinkTasks
<1>5. ChallengesKept'
    BY <1>1, <1>2, <1>3 DEF LinkInv, ChallengesKept
<1>6. LinkWasProven'
    BY <1>0, <1>1 DEF LinkInv, LinkWasProven
<1>7. LinksForOwners'
    BY <1>1, <1>2, <1>3 DEF LinksForOwners
<1> QED
    BY <1>4, <1>5, <1>6, <1>7 DEF LinkInv

\* Every step keeps the invariant.
LEMMA LinkInvStep == LinkInv /\ [LinkNext]_linkVars => LinkInv'
<1> SUFFICES ASSUME LinkInv, [LinkNext]_linkVars PROVE LinkInv'
    OBVIOUS
<1>0. /\ linkTask \in [LinkRequests -> LinkTasks] /\ walletOwner \in [Addresses -> Owner]
      /\ IdleLink \in LinkTasks /\ IdleLink.pc = "idle" /\ TaskRests(IdleLink)
    BY DEF LinkInv, LinkTypeOK, LinkTasks, IdleLink, Owner, TaskRests
<1>1. ASSUME NEW r \in LinkRequests, NEW u \in Accounts, NEW c \in Challenge, verifyChallenge(r, u, c)
      PROVE  LinkInv'
  <2> DEFINE t == [IdleLink EXCEPT !.pc = "consume", !.account = u, !.challenge = c]
  <2>1. t \in LinkTasks /\ t.pc = "consume" /\ t.account = u /\ t.challenge = c
      BY DEF IdleLink, LinkTasks, Owner
  <2>2. LinkGoes(r, t, FALSE) /\ challengeRow[c].account = u
        /\ UNCHANGED <<challengeRow, walletOwner, settled, outcomes>>
      BY <1>1 DEF verifyChallenge
  <2> HIDE DEF t
  <2> QED
      BY <2>1, <2>2, LinkMoves DEF TaskRests
<1>2. ASSUME NEW r \in LinkRequests, ReadOwner(r) PROVE LinkInv'
  <2> DEFINE owner == walletOwner[AddressOf(r)]
             t == IF owner \in {NoAccount, linkTask[r].account}
                  THEN [linkTask[r] EXCEPT !.pc = "link"]
                  ELSE [linkTask[r] EXCEPT !.pc = "empty", !.owner = owner]
  <2>1. linkTask[r].pc = "owner" /\ TaskRests(linkTask[r])
      BY <1>2 DEF ReadOwner, LinkInv, ChallengesKept, TaskRests
  <2>2. AddressOf(r) \in Addresses /\ owner \in Owner
      BY <1>0, <2>1, WalletLinkAssumption DEF LinkInv, ChallengesKept, TaskRests, AddressOf
  <2>3. /\ t \in LinkTasks /\ t.challenge = linkTask[r].challenge /\ t.account = linkTask[r].account
        /\ t.pc \in {"link", "empty"}
        /\ t.pc = "link" => owner \in {NoAccount, t.account}
      BY <1>0, <2>2 DEF LinkTasks
  <2>4. LinkGoes(r, t, FALSE) /\ UNCHANGED <<challengeRow, walletOwner, settled, outcomes>>
      BY <1>2 DEF ReadOwner
  <2> HIDE DEF t
  <2>5. TaskRests(t)
      BY <2>1, <2>3 DEF TaskRests
  <2> QED
      BY <2>3, <2>4, <2>5, LinkMoves DEF AddressOf
<1>3. ASSUME NEW r \in LinkRequests, ReadEmptiness(r) PROVE LinkInv'
  <2> DEFINE t == [linkTask[r] EXCEPT !.pc = IF Empty(linkTask[r].account) THEN "resume" ELSE "link"]
  <2>1. linkTask[r].pc = "empty" /\ TaskRests(linkTask[r])
      BY <1>3 DEF ReadEmptiness, LinkInv, ChallengesKept, TaskRests
  <2>2. /\ t \in LinkTasks /\ t.challenge = linkTask[r].challenge /\ t.account = linkTask[r].account
        /\ t.pc \in {"link", "resume"}
        /\ t.pc = "link" => ~Empty(t.account)
      BY <1>0 DEF LinkTasks
  <2>3. LinkGoes(r, t, FALSE) /\ UNCHANGED <<challengeRow, walletOwner, settled, outcomes>>
      BY <1>3 DEF ReadEmptiness
  <2> HIDE DEF t
  <2>4. TaskRests(t)
      BY <2>1, <2>2 DEF TaskRests
  <2> QED
      BY <2>2, <2>3, <2>4, LinkMoves
<1>4. ASSUME NEW r \in LinkRequests, Resume(r) \/ LinkDies(r) PROVE LinkInv'
  <2>1. LinkGoes(r, IdleLink, FALSE) /\ UNCHANGED <<challengeRow, walletOwner, settled, outcomes>>
      BY <1>4 DEF Resume, LinkDies
  <2> QED
      BY <1>0, <2>1, LinkMoves
<1>5. ASSUME NEW u \in Accounts, NEW a \in Addresses, unlinkWallet(u, a) PROVE LinkInv'
  <2>1. /\ walletOwner' = [walletOwner EXCEPT ![a] = NoAccount]
        /\ \A r \in LinkRequests : linkTask'[r] = [linkTask[r] EXCEPT
              !.raced = linkTask[r].raced \/ linkTask[r].pc \in {"empty", "resume", "link"}]
        /\ linkTask' = [r \in LinkRequests |-> linkTask'[r]]
        /\ UNCHANGED <<challengeRow, settled, outcomes>>
      BY <1>5 DEF unlinkWallet
  <2>2. \A r \in LinkRequests :
          /\ linkTask'[r] \in LinkTasks /\ linkTask'[r].pc = linkTask[r].pc
          /\ linkTask'[r].challenge = linkTask[r].challenge
          /\ linkTask'[r].account = linkTask[r].account
          /\ linkTask[r].pc = "link" => linkTask'[r].raced
    <3> SUFFICES ASSUME NEW r \in LinkRequests
                 PROVE  /\ linkTask'[r] \in LinkTasks /\ linkTask'[r].pc = linkTask[r].pc
                        /\ linkTask'[r].challenge = linkTask[r].challenge
                        /\ linkTask'[r].account = linkTask[r].account
                        /\ linkTask[r].pc = "link" => linkTask'[r].raced
        OBVIOUS
    <3> DEFINE b == linkTask[r].raced \/ linkTask[r].pc \in {"empty", "resume", "link"}
    <3>1. b \in BOOLEAN /\ linkTask[r] \in LinkTasks /\ linkTask'[r] = [linkTask[r] EXCEPT !.raced = b]
          /\ (linkTask[r].pc = "link" => b)
        BY <1>0, <2>1
    <3> HIDE DEF b
    <3> QED
        BY <3>1, OvertakenKeeps
  <2>3. LinkTypeOK'
    <3>1. walletOwner' \in [Addresses -> Owner]
        BY <1>0, <2>1 DEF Owner
    <3>2. linkTask' \in [LinkRequests -> LinkTasks]
        BY <2>1, <2>2
    <3> QED
        BY <2>1, <3>1, <3>2 DEF LinkInv, LinkTypeOK, LinkTasks
  <2>4. ChallengesKept'
      BY <2>1, <2>2 DEF LinkInv, ChallengesKept
  <2>5. LinkWasProven'
      BY <1>0, <2>1 DEF LinkInv, LinkWasProven
  <2>6. LinksForOwners'
      BY <2>2 DEF LinksForOwners
  <2> QED
      BY <2>3, <2>4, <2>5, <2>6 DEF LinkInv
<1>6. ASSUME NEW u \in Accounts, Settle(u) PROVE LinkInv'
    BY <1>6
    DEF Settle, LinkInv, LinkTypeOK, ChallengesKept, LinkWasProven, LinksForOwners, AddressOf, Empty
<1>7. ASSUME NEW c \in Challenge, ChallengeExpires(c) PROVE LinkInv'
  <2> DEFINE row == [challengeRow[c] EXCEPT !.expired = TRUE]
  <2>1. challengeRow \in [Challenge -> [account: Owner, address: Address,
                                        used: BOOLEAN, expired: BOOLEAN]]
      BY DEF LinkInv, LinkTypeOK
  <2>2. /\ challengeRow' = [challengeRow EXCEPT ![c] = row]
        /\ UNCHANGED <<walletOwner, settled, linkTask, outcomes>>
      BY <1>7, <2>1 DEF ChallengeExpires
  <2>3. /\ row \in [account: Owner, address: Address, used: BOOLEAN, expired: BOOLEAN]
        /\ row.used = challengeRow[c].used /\ row.account = challengeRow[c].account
        /\ row.address = challengeRow[c].address
      BY <2>1
  <2> HIDE DEF row
  <2>4. challengeRow' \in [Challenge -> [account: Owner, address: Address,
                                         used: BOOLEAN, expired: BOOLEAN]]
      BY <2>1, <2>2, <2>3
  <2>5. \A d \in Challenge : /\ challengeRow'[d].account = challengeRow[d].account
                             /\ challengeRow'[d].address = challengeRow[d].address
                             /\ challengeRow'[d].used = challengeRow[d].used
      BY <2>1, <2>2, <2>3
  <2>6. LinkTypeOK' /\ ChallengesKept' /\ LinkWasProven'
      BY <2>2, <2>4, <2>5 DEF LinkInv, LinkTypeOK, ChallengesKept, LinkWasProven
  <2>7. LinksForOwners'
    <3>1. \A s \in LinkRequests : linkTask[s].pc = "link" => AddressOf(s)' = AddressOf(s)
        BY <2>2, <2>5 DEF LinkInv, ChallengesKept, AddressOf
    <3> QED
        BY <2>2, <3>1 DEF LinkInv, LinksForOwners, Empty
  <2> QED
      BY <2>6, <2>7 DEF LinkInv
<1>8. CASE UNCHANGED linkVars
    BY <1>8
    DEF linkVars, LinkInv, LinkTypeOK, ChallengesKept, LinkWasProven, LinksForOwners, AddressOf, Empty
<1> QED
    BY <1>1, <1>2, <1>3, <1>4, <1>5, <1>6, <1>7, <1>8, createChallengeKeeps, ConsumeKeeps, LinkKeeps
    DEF LinkNext

\* LinkInv holds in every reachable state of wallet linking.
LEMMA LinkInvHolds == LinkSpec => []LinkInv
BY LinkInvInit, LinkInvStep, PTL DEF LinkSpec

\* The invariant says in particular that challenges work once and that links were proven.
LEMMA LinkSafetyFollows == LinkInv => LinkSafety
BY DEF LinkInv, LinkSafety, ChallengesKept, ChallengeWorksOnce, One

\* A signed challenge works once and a wallet is only linked to an account that proved
\* control of it, in any interleaving of verifications (wallet.service.ts).
THEOREM LinkSafetyHolds == LinkSpec => [](LinkTypeOK /\ LinkSafety)
<1>1. LinkInv => LinkTypeOK /\ LinkSafety
    BY LinkSafetyFollows DEF LinkInv
<1> QED
    BY <1>1, LinkInvHolds, PTL

\* Only a verification that was overtaken lets an empty account take a wallet away from
\* the account it belongs to (account-adoption.ts).
THEOREM EmptyAccountTakesNothingHolds == LinkSpec => EmptyAccountTakesNothing
<1>1. ASSUME LinkInv, [LinkNext]_linkVars, NEW a \in Addresses,
             walletOwner[a] # NoAccount, walletOwner'[a] \notin {NoAccount, walletOwner[a]}
      PROVE  \/ walletOwner'[a] \in settled \cup {walletOwner[b] : b \in Addresses}
             \/ \E r \in LinkRequests : linkTask[r].pc = "link" /\ linkTask[r].raced
  <2>0. walletOwner \in [Addresses -> Owner]
      BY <1>1 DEF LinkInv, LinkTypeOK
  <2>1. PICK r \in LinkRequests : Link(r)
    <3>1. ASSUME NEW u \in Accounts, NEW b \in Addresses, unlinkWallet(u, b) PROVE FALSE
        BY <1>1, <2>0, <3>1 DEF unlinkWallet
    <3>2. ~UNCHANGED walletOwner
        BY <1>1
    <3> QED
        BY <1>1, <3>1, <3>2
        DEF LinkNext, linkVars, createChallenge, verifyChallenge, Consume, ReadOwner, ReadEmptiness,
            Resume, LinkDies, Settle, ChallengeExpires
  <2>2. /\ linkTask[r].pc = "link" /\ a = AddressOf(r) /\ walletOwner'[a] = linkTask[r].account
      BY <1>1, <2>0, <2>1 DEF Link
  <2>3. CASE linkTask[r].raced
      BY <2>2, <2>3
  <2>4. CASE ~linkTask[r].raced
      BY <1>1, <2>2, <2>4 DEF LinkInv, LinksForOwners, Empty
  <2> QED
      BY <2>3, <2>4
<1>2. LinkInv /\ [LinkNext]_linkVars =>
        \A a \in Addresses :
          walletOwner[a] # NoAccount /\ walletOwner'[a] \notin {NoAccount, walletOwner[a]} =>
            \/ walletOwner'[a] \in settled \cup {walletOwner[b] : b \in Addresses}
            \/ \E r \in LinkRequests : linkTask[r].pc = "link" /\ linkTask[r].raced
    BY <1>1
<1> QED
    BY <1>2, LinkInvHolds, PTL DEF LinkSpec, EmptyAccountTakesNothing

-----------------------------------------------------------------------------
(* SolanaTrades *)

Resolved == Landed \cup {"dead"}

\* What an actor remembers is still true when it writes: a row keeps its signature, and a
\* signature that landed or died stays what it is.
SolTaskTrue(t) ==
  /\ t.pc # "idle" => t.quote \in SolQuotes /\ t.sig \in Sigs
  /\ t.pc \in {"rpc", "update"} =>
       solRow[t.quote].sig = t.sig /\ (t.old => sigState[t.sig] \in Resolved)
  /\ t.pc = "update" => sigState[t.sig] = IF t.answer = "null" THEN "dead" ELSE t.answer

SolInv ==
  /\ SolTypeOK /\ SolStatusIsTrue
  /\ \A q \in SolQuotes : (solRow[q].status = "NONE") = (solRow[q].sig = NoSig)
  /\ \A q \in oldRow : solRow[q].sig \in Sigs /\ sigState[solRow[q].sig] \in Resolved
  /\ \A a \in SolActors : SolTaskTrue(solTask[a])

\* Without rows and requests there is nothing for SolInv to say.
LEMMA SolInvInit == SolInit => SolInv
BY SolAssumption
DEF SolInit, SolInv, SolTypeOK, SolStatusIsTrue, SolTaskTrue, SolStatus, SigStates, SolTasks, IdleSol,
    Landed

\* An actor takes up a task that is true.
LEMMA SolMoves ==
    ASSUME SolInv, NEW a \in SolActors, NEW t \in SolTasks, SolGo(a, t), SolTaskTrue(t),
           UNCHANGED <<solRow, oldRow, sigState>>
    PROVE  SolInv'
<1>1. \A b \in SolActors : solTask'[b] = IF b = a THEN t ELSE solTask[b]
    BY DEF SolGo, SolInv, SolTypeOK
<1>2. SolTypeOK' /\ SolStatusIsTrue'
    BY DEF SolGo, SolInv, SolTypeOK, SolStatusIsTrue
<1>3. \A b \in SolActors : SolTaskTrue(solTask[b])'
    BY <1>1 DEF SolInv, SolTaskTrue
<1> QED
    BY <1>2, <1>3 DEF SolInv

\* The chain moves: what is resolved stays so.
LEMMA ChainMoves ==
    ASSUME SolInv, sigState' \in [Sigs -> SigStates], UNCHANGED <<solRow, oldRow>>,
           \A s \in Sigs : sigState[s] \in Resolved => sigState'[s] = sigState[s],
           solTask' \in [SolActors -> SolTasks],
           \A a \in SolActors : solTask'[a] = solTask[a] \/ solTask'[a].pc = "idle"
             \/ (/\ solTask[a].pc = "cosign" /\ solTask'[a].pc = "create"
                 /\ solTask'[a].quote = solTask[a].quote /\ solTask'[a].sig = solTask[a].sig)
    PROVE  SolInv'
<1>1. \A q \in SolQuotes : solRow[q].status \in {"CONFIRMED", "FAILED", "EXPIRED"} => solRow[q].sig \in Sigs
    BY DEF SolInv, SolTypeOK
<1>2. SolTypeOK' /\ SolStatusIsTrue'
    BY <1>1 DEF SolInv, SolTypeOK, SolStatusIsTrue, Resolved, Landed
<1>3. ASSUME NEW a \in SolActors PROVE SolTaskTrue(solTask[a])'
  <2>1. SolTaskTrue(solTask[a]) /\ solTask[a] \in SolTasks
      BY DEF SolInv, SolTypeOK
  <2>2. CASE solTask'[a] = solTask[a]
    <3>1. solTask[a].pc = "update" => sigState[solTask[a].sig] \in Resolved
        BY <2>1 DEF SolTaskTrue, SolTasks, Resolved
    <3> QED
        BY <2>1, <2>2, <3>1 DEF SolTaskTrue
  <2>3. CASE solTask'[a].pc = "idle"
      BY <2>3 DEF SolTaskTrue
  <2>4. CASE /\ solTask[a].pc = "cosign" /\ solTask'[a].pc = "create"
             /\ solTask'[a].quote = solTask[a].quote /\ solTask'[a].sig = solTask[a].sig
      BY <2>1, <2>4 DEF SolTaskTrue
  <2> QED
      BY <2>2, <2>3, <2>4
<1>4. \A q \in oldRow' : solRow'[q].sig \in Sigs /\ sigState'[solRow'[q].sig] \in Resolved
    BY DEF SolInv
<1> QED
    BY <1>2, <1>3, <1>4 DEF SolInv

\* A row is recorded with a signature of its own, or settled with what happened to it.
LEMMA SolRowMoves ==
    ASSUME SolInv, NEW a \in SolActors, SolGo(a, IdleSol), UNCHANGED <<oldRow, sigState>>,
           NEW q \in SolQuotes, NEW new, new \in [sig: Sigs, status: SolStatus \ {"NONE"}],
           solRow' = [solRow EXCEPT ![q] = new],
           solRow[q].sig \in {NoSig, new.sig},
           new.status = "CONFIRMED" => sigState[new.sig] = "confirmed",
           new.status = "FAILED" => sigState[new.sig] = "failed",
           new.status = "EXPIRED" => sigState[new.sig] = "dead"
    PROVE  SolInv'
<1>0. /\ solRow \in [SolQuotes -> [sig: Sigs \cup {NoSig}, status: SolStatus]]
      /\ solTask \in [SolActors -> SolTasks] /\ IdleSol \in SolTasks /\ IdleSol.pc = "idle"
      /\ new.sig \in Sigs /\ new.status # "NONE" /\ new.sig # NoSig
    BY SolAssumption DEF SolInv, SolTypeOK, IdleSol, SolTasks
<1>1. \A p \in SolQuotes : solRow'[p] = IF p = q THEN new ELSE solRow[p]
    BY <1>0
<1>2. solRow' \in [SolQuotes -> [sig: Sigs \cup {NoSig}, status: SolStatus]]
    BY <1>0
<1>3. SolTypeOK'
    BY <1>0, <1>2 DEF SolInv, SolTypeOK, SolGo
<1>4. SolStatusIsTrue'
    BY <1>1 DEF SolInv, SolStatusIsTrue
<1>5. \A p \in SolQuotes : (solRow'[p].status = "NONE") = (solRow'[p].sig = NoSig)
    BY <1>0, <1>1 DEF SolInv
<1>6. \A p \in SolQuotes : solRow[p].sig # NoSig => solRow'[p].sig = solRow[p].sig
    BY <1>1
<1>7. \A p \in oldRow' : solRow'[p].sig \in Sigs /\ sigState'[solRow'[p].sig] \in Resolved
    BY <1>6, SolAssumption DEF SolInv, SolTypeOK
<1>8. ASSUME NEW b \in SolActors PROVE SolTaskTrue(solTask[b])'
  <2>1. solTask'[b] = IF b = a THEN IdleSol ELSE solTask[b]
      BY <1>0 DEF SolGo
  <2>2. SolTaskTrue(solTask[b])
      BY DEF SolInv
  <2> QED
      BY <1>0, <1>6, <2>1, <2>2, SolAssumption DEF SolTaskTrue
<1> QED
    BY <1>3, <1>4, <1>5, <1>7, <1>8 DEF SolInv

\* What a create writes.
LEMMA CreateWrites ==
    ASSUME SolInv, NEW a \in SolActors, CreateSolRow(a)
    PROVE  /\ SolGo(a, IdleSol) /\ UNCHANGED <<oldRow, sigState>>
           /\ \/ UNCHANGED solRow
              \/ \E q \in SolQuotes, s \in Sigs :
                   /\ solRow[q].status = "NONE" /\ solRow[q].sig = NoSig
                   /\ \A p \in SolQuotes : solRow[p].sig # s
                   /\ solRow' = [solRow EXCEPT ![q] = [sig |-> s, status |-> "PENDING"]]
<1>1. solTask[a].quote \in SolQuotes /\ solTask[a].sig \in Sigs
    BY DEF CreateSolRow, SolInv, SolTaskTrue
<1> QED
    BY <1>1 DEF CreateSolRow, Recordable, SolInv

\* What a verdict writes: the status that the signature of the row has.
LEMMA UpdateWrites ==
    ASSUME SolInv, NEW a \in SolActors, UpdateSolRow(a)
    PROVE  /\ SolGo(a, IdleSol) /\ UNCHANGED <<oldRow, sigState>>
           /\ \E q \in SolQuotes, status \in {"CONFIRMED", "FAILED", "EXPIRED"} :
                /\ solRow[q].sig \in Sigs
                /\ solRow' = [solRow EXCEPT ![q] = [sig |-> solRow[q].sig, status |-> status]]
                /\ sigState[solRow[q].sig] = CASE status = "CONFIRMED" -> "confirmed"
                                               [] status = "FAILED" -> "failed"
                                               [] status = "EXPIRED" -> "dead"
<1> DEFINE t == solTask[a]
           q == t.quote
<1>1. /\ q \in SolQuotes /\ t.sig \in Sigs /\ solRow[q].sig = t.sig /\ t \in SolTasks
      /\ sigState[t.sig] = IF t.answer = "null" THEN "dead" ELSE t.answer
    BY DEF UpdateSolRow, SolInv, SolTypeOK, SolTaskTrue
<1>2. t.answer \in {"null", "confirmed", "failed"}
    BY <1>1 DEF SolTasks, Landed
<1>3. /\ Verdict(t.answer) \in {"CONFIRMED", "FAILED", "EXPIRED"}
      /\ sigState[t.sig] = CASE Verdict(t.answer) = "CONFIRMED" -> "confirmed"
                             [] Verdict(t.answer) = "FAILED" -> "failed"
                             [] Verdict(t.answer) = "EXPIRED" -> "dead"
    BY <1>1, <1>2 DEF Verdict
<1>4. solRow' = [solRow EXCEPT ![q] = [sig |-> solRow[q].sig, status |-> Verdict(t.answer)]]
  <2>1. solRow[q] \in [sig: Sigs \cup {NoSig}, status: SolStatus]
      BY <1>1 DEF SolInv, SolTypeOK
  <2>2. [solRow[q] EXCEPT !.status = Verdict(t.answer)]
          = [sig |-> solRow[q].sig, status |-> Verdict(t.answer)]
      BY <2>1
  <2>3. solRow' = [solRow EXCEPT ![q] = [solRow[q] EXCEPT !.status = Verdict(t.answer)]]
      BY <1>1 DEF UpdateSolRow, SolInv, SolTypeOK
  <2> QED
      BY <2>2, <2>3
<1>5. SolGo(a, IdleSol) /\ UNCHANGED <<oldRow, sigState>>
    BY DEF UpdateSolRow
<1>6. PICK status \in {"CONFIRMED", "FAILED", "EXPIRED"} : status = Verdict(t.answer)
    BY <1>3
<1> HIDE DEF t, q
<1>7. /\ solRow' = [solRow EXCEPT ![q] = [sig |-> solRow[q].sig, status |-> status]]
      /\ sigState[solRow[q].sig] = CASE status = "CONFIRMED" -> "confirmed"
                                     [] status = "FAILED" -> "failed"
                                     [] status = "EXPIRED" -> "dead"
    BY <1>1, <1>3, <1>4, <1>6
<1> QED
    BY <1>1, <1>5, <1>7

\* Every step of submission, refresh, sweep and chain keeps SolInv.
LEMMA SolInvStep == SolInv /\ [SolNext]_solTradeVars => SolInv'
<1> SUFFICES ASSUME SolInv, [SolNext]_solTradeVars PROVE SolInv'
    OBVIOUS
<1>0. /\ IdleSol \in SolTasks /\ IdleSol.pc = "idle" /\ SolTaskTrue(IdleSol)
      /\ SolRequests \subseteq SolActors /\ solTask \in [SolActors -> SolTasks]
      /\ sigState \in [Sigs -> SigStates]
    BY DEF IdleSol, SolTasks, SolTaskTrue, SolActors, SolInv, SolTypeOK
<1>1. ASSUME NEW a \in SolActors, NEW q \in SolQuotes, NEW s \in Sigs, NEW pc \in {"create", "cosign"},
             SolGo(a, [IdleSol EXCEPT !.pc = pc, !.quote = q, !.sig = s]),
             UNCHANGED <<solRow, oldRow, sigState>>
      PROVE  SolInv'
  <2> DEFINE t == [IdleSol EXCEPT !.pc = pc, !.quote = q, !.sig = s]
  <2>1. t \in SolTasks /\ SolTaskTrue(t)
      BY DEF IdleSol, SolTasks, SolTaskTrue
  <2> QED
      BY <1>1, <2>1, SolMoves
<1>2. ASSUME NEW a \in SolRequests, NEW q \in SolQuotes, NEW s \in Sigs, submitTransaction(a, q, s)
      PROVE  SolInv'
    BY <1>0, <1>1, <1>2 DEF submitTransaction
<1>3. ASSUME NEW a \in SolRequests, NEW q \in SolQuotes, submitSponsoredTransaction(a, q)
      PROVE  SolInv'
  <2>1. SponsoredSig[q] \in Sigs
      BY SolAssumption
  <2> QED
      BY <1>0, <1>1, <1>3, <2>1 DEF submitSponsoredTransaction
<1>4. ASSUME NEW a \in SolRequests, coSignAndSend(a) PROVE SolInv'
  <2>1. CASE SolGo(a, IdleSol) /\ UNCHANGED <<solRow, oldRow, sigState>>
      BY <1>0, <2>1, SolMoves
  <2> DEFINE s == solTask[a].sig
             t == [solTask[a] EXCEPT !.pc = "create"]
  <2>2. CASE /\ sigState[s] \in {"none", "out"} /\ sigState' = [sigState EXCEPT ![s] = "out"]
             /\ SolGo(a, t) /\ UNCHANGED <<solRow, oldRow>> /\ solTask[a].pc = "cosign"
    <3>1. /\ t \in SolTasks /\ t.pc = "create" /\ t.quote = solTask[a].quote
          /\ t.sig = solTask[a].sig
        BY <1>0 DEF SolTasks
    <3>2. s \in Sigs
        BY <1>0, <2>2 DEF SolInv, SolTaskTrue
    <3>3. sigState' \in [Sigs -> SigStates]
        BY <1>0, <2>2, <3>2 DEF SigStates
    <3>4. \A x \in Sigs : sigState[x] \in Resolved => sigState'[x] = sigState[x]
        BY <1>0, <2>2, <3>2 DEF Resolved, Landed
    <3> HIDE DEF t
    <3>5. /\ solTask' \in [SolActors -> SolTasks]
          /\ \A b \in SolActors : solTask'[b] = IF b = a THEN t ELSE solTask[b]
        BY <1>0, <2>2, <3>1 DEF SolGo
    <3> QED
        BY <2>2, <3>1, <3>3, <3>4, <3>5, ChainMoves
  <2> QED
      BY <1>4, <2>1, <2>2 DEF coSignAndSend
<1>5. ASSUME NEW a \in SolActors, CreateSolRow(a) PROVE SolInv'
  <2>1. CASE UNCHANGED solRow
      BY <1>0, <1>5, <2>1, CreateWrites, SolMoves
  <2>2. ASSUME NEW q \in SolQuotes, NEW s \in Sigs, solRow[q].sig = NoSig,
               solRow' = [solRow EXCEPT ![q] = [sig |-> s, status |-> "PENDING"]]
        PROVE  SolInv'
    <3> DEFINE new == [sig |-> s, status |-> "PENDING"]
    <3>1. new \in [sig: Sigs, status: SolStatus \ {"NONE"}] /\ new.status = "PENDING"
        BY DEF SolStatus
    <3>2. solRow' = [solRow EXCEPT ![q] = new]
        BY <2>2
    <3> HIDE DEF new
    <3> QED
        BY <1>5, <2>2, <3>1, <3>2, CreateWrites, SolRowMoves
  <2> QED
      BY <1>5, <2>1, <2>2, CreateWrites
<1>6. ASSUME NEW a \in SolActors, NEW q \in SolQuotes, ReadSolRow(a, q) PROVE SolInv'
  <2> DEFINE old == q \in oldRow
             t == [IdleSol EXCEPT !.pc = "rpc", !.quote = q, !.sig = solRow[q].sig, !.old = old]
  <2>0. SolGo(a, t) /\ UNCHANGED <<solRow, oldRow, sigState>>
      BY <1>6 DEF ReadSolRow
  <2>1. solRow[q].sig \in Sigs /\ old \in BOOLEAN /\ (old => q \in oldRow)
      BY <1>6 DEF ReadSolRow, SolInv, SolTypeOK
  <2> HIDE DEF old
  <2>2. /\ t \in SolTasks /\ t.pc = "rpc" /\ t.quote = q /\ t.sig = solRow[q].sig
        /\ t.old = old
      BY <2>1 DEF IdleSol, SolTasks
  <2> HIDE DEF t
  <2>4. SolTaskTrue(t)
      BY <2>1, <2>2 DEF SolInv, SolTaskTrue
  <2> QED
      BY <2>0, <2>2, <2>4, SolMoves
<1>7. ASSUME NEW a \in SolActors, getSignatureStatuses(a) PROVE SolInv'
  <2>1. SolTaskTrue(solTask[a]) /\ solTask[a] \in SolTasks /\ solTask[a].pc = "rpc"
        /\ UNCHANGED <<solRow, oldRow, sigState>>
      BY <1>7 DEF getSignatureStatuses, SolInv, SolTypeOK
  <2>2. PICK ans \in Answers(solTask[a]) :
          SolGo(a, IF ans = "null" /\ ~(a = SolSweeper /\ solTask[a].old) THEN IdleSol
                   ELSE [solTask[a] EXCEPT !.pc = "update", !.answer = ans])
      BY <1>7 DEF getSignatureStatuses
  <2>3. CASE ans = "null" /\ ~(a = SolSweeper /\ solTask[a].old)
    <3>1. SolGo(a, IdleSol)
        BY <2>2, <2>3
    <3> QED
        BY <1>0, <2>1, <3>1, SolMoves
  <2>4. CASE ~(ans = "null" /\ ~(a = SolSweeper /\ solTask[a].old))
    <3> DEFINE t == [solTask[a] EXCEPT !.pc = "update", !.answer = ans]
    <3>1. ans \in {"null"} \cup Landed
        BY <2>2 DEF Answers
    <3>2. /\ t \in SolTasks /\ t.pc = "update" /\ t.answer = ans /\ t.quote = solTask[a].quote
          /\ t.sig = solTask[a].sig /\ t.old = solTask[a].old
        BY <2>1, <3>1 DEF SolTasks
    <3>3. sigState[solTask[a].sig] = IF ans = "null" THEN "dead" ELSE ans
        BY <2>1, <2>2, <2>4, <3>1 DEF Answers, SolTaskTrue, Resolved, Landed
    <3>4. SolGo(a, t)
        BY <2>2, <2>4
    <3> HIDE DEF t
    <3>5. SolTaskTrue(t)
        BY <2>1, <3>2, <3>3 DEF SolTaskTrue
    <3> QED
        BY <2>1, <3>2, <3>4, <3>5, SolMoves
  <2> QED
      BY <2>3, <2>4
<1>8. ASSUME NEW a \in SolActors, UpdateSolRow(a) PROVE SolInv'
  <2>1. PICK q \in SolQuotes, status \in {"CONFIRMED", "FAILED", "EXPIRED"} :
          /\ solRow[q].sig \in Sigs
          /\ solRow' = [solRow EXCEPT ![q] = [sig |-> solRow[q].sig, status |-> status]]
          /\ sigState[solRow[q].sig] = CASE status = "CONFIRMED" -> "confirmed"
                                         [] status = "FAILED" -> "failed"
                                         [] status = "EXPIRED" -> "dead"
      BY <1>8, UpdateWrites
  <2> DEFINE new == [sig |-> solRow[q].sig, status |-> status]
  <2>2. /\ new \in [sig: Sigs, status: SolStatus \ {"NONE"}] /\ new.status = status
        /\ new.sig = solRow[q].sig
      BY <2>1 DEF SolStatus
  <2>3. /\ new.status = "CONFIRMED" => sigState[new.sig] = "confirmed"
        /\ new.status = "FAILED" => sigState[new.sig] = "failed"
        /\ new.status = "EXPIRED" => sigState[new.sig] = "dead"
      BY <2>1, <2>2
  <2>4. SolGo(a, IdleSol) /\ UNCHANGED <<oldRow, sigState>>
      BY <1>8 DEF UpdateSolRow
  <2> HIDE DEF new
  <2> QED
      BY <2>1, <2>2, <2>3, <2>4, SolRowMoves DEF new
<1>9. ASSUME NEW a \in SolActors, SolFails(a) PROVE SolInv'
    BY <1>0, <1>9, SolMoves DEF SolFails
<1>10. ASSUME NEW s \in Sigs, WalletSends(s) \/ SigResolves(s) PROVE SolInv'
  <2>1. /\ sigState' \in [Sigs -> SigStates] /\ UNCHANGED <<solRow, oldRow, solTask>>
        /\ \A x \in Sigs : sigState[x] \in Resolved => sigState'[x] = sigState[x]
      BY <1>0, <1>10 DEF WalletSends, SigResolves, SigStates, Resolved, Landed
  <2> QED
      BY <1>0, <2>1, ChainMoves
<1>11. ASSUME NEW q \in SolQuotes, RowGetsOld(q) PROVE SolInv'
  <2>1. solRow[q].sig \in Sigs /\ sigState[solRow[q].sig] \in Resolved
      BY <1>11 DEF RowGetsOld, SolInv, SolTypeOK, Resolved
  <2> QED
      BY <1>11, <2>1 DEF RowGetsOld, SolInv, SolTypeOK, SolStatusIsTrue, SolTaskTrue
<1>12. CASE UNCHANGED solTradeVars
    BY <1>12 DEF solTradeVars, SolInv, SolTypeOK, SolStatusIsTrue, SolTaskTrue
<1> QED
    BY <1>0, <1>2, <1>3, <1>4, <1>5, <1>6, <1>7, <1>8, <1>9, <1>10, <1>11, <1>12
    DEF SolNext, SettleStep

\* SolInv holds in every reachable state of the Solana trades.
LEMMA SolInvHolds == SolSpec => []SolInv
BY SolInvInit, SolInvStep, PTL DEF SolSpec

\* Neither reader records what did not happen on the chain, although they update the row
\* without a condition and race each other (solana-sweep.ts, refreshStatus).
THEOREM SolStatusIsTrueHolds == SolSpec => [](SolTypeOK /\ SolStatusIsTrue)
<1>1. SolInv => SolTypeOK /\ SolStatusIsTrue
    BY DEF SolInv
<1> QED
    BY <1>1, SolInvHolds, PTL

\* Every step of the Solana trades is a step of the trade ledger or a stutter: recording a
\* row opens a trade, a verdict confirms it or gives it up, and the chain settles.
LEMMA SolLedgerStep ==
    SolInv /\ [SolNext]_solTradeVars => [SolLedger!LedgerNext]_(SolLedger!ledgerVars)
<1> SUFFICES ASSUME SolInv, [SolNext]_solTradeVars
             PROVE  [SolLedger!LedgerNext]_(SolLedger!ledgerVars)
    OBVIOUS
<1> DEFINE bk == [q \in SolQuotes |-> [hash |-> solRow[q].sig, status |-> solRow[q].status]]
           done == {s \in Sigs : sigState[s] = "confirmed"}
           quoted == [q \in SolQuotes |-> Sigs]
<1>0. /\ solRow \in [SolQuotes -> [sig: Sigs \cup {NoSig}, status: SolStatus]]
      /\ sigState \in [Sigs -> SigStates] /\ SolRequests \subseteq SolActors
    BY DEF SolInv, SolTypeOK, SolActors
<1>1. ASSUME UNCHANGED solRow, UNCHANGED sigState
      PROVE  [SolLedger!LedgerNext]_(SolLedger!ledgerVars)
  <2>1. bk' = bk /\ done' = done
      BY <1>1
  <2> QED
      BY <2>1 DEF SolLedger!ledgerVars
<1>2. ASSUME UNCHANGED solRow, NEW H \in SUBSET (Sigs \ done), done' = done \cup H
      PROVE  [SolLedger!LedgerNext]_(SolLedger!ledgerVars)
  <2>1. bk' = bk
      BY <1>2
  <2>2. CASE H = {}
    <3>1. done' = done
        BY <1>2, <2>2
    <3> QED
        BY <2>1, <3>1 DEF SolLedger!ledgerVars
  <2>3. CASE H # {}
    <3>1. SolLedger!Settle
        BY <1>2, <2>1, <2>3 DEF SolLedger!Settle
    <3> QED
        BY <3>1 DEF SolLedger!LedgerNext
  <2> QED
      BY <2>2, <2>3
<1>3. ASSUME NEW q \in SolQuotes, NEW s, NEW status, UNCHANGED sigState,
             solRow' = [solRow EXCEPT ![q] = [sig |-> s, status |-> status]]
      PROVE  /\ bk' = [bk EXCEPT ![q] = [hash |-> s, status |-> status]]
             /\ done' = done
    BY <1>0, <1>3
<1>4. ASSUME NEW a \in SolActors, CreateSolRow(a) PROVE [SolLedger!LedgerNext]_(SolLedger!ledgerVars)
  <2>1. CASE UNCHANGED solRow
      BY <1>1, <1>4, <2>1, CreateWrites
  <2>2. ASSUME NEW q \in SolQuotes, NEW s \in Sigs, solRow[q].sig = NoSig,
               \A p \in SolQuotes : solRow[p].sig # s,
               solRow' = [solRow EXCEPT ![q] = [sig |-> s, status |-> "PENDING"]]
        PROVE  [SolLedger!LedgerNext]_(SolLedger!ledgerVars)
    <3>1. UNCHANGED sigState
        BY <1>4 DEF CreateSolRow
    <3>2. bk' = [bk EXCEPT ![q] = [hash |-> s, status |-> "PENDING"]] /\ done' = done
        BY <1>3, <2>2, <3>1
    <3>3. bk[q].hash = NoSig /\ \A p \in SolQuotes : bk[p].hash # s
        BY <2>2
    <3>4. SolLedger!Open(q, s)
        BY <3>2, <3>3 DEF SolLedger!Open
    <3> QED
        BY <3>4 DEF SolLedger!LedgerNext
  <2> QED
      BY <1>4, <2>1, <2>2, CreateWrites
<1>5. ASSUME NEW a \in SolActors, UpdateSolRow(a) PROVE [SolLedger!LedgerNext]_(SolLedger!ledgerVars)
  <2>1. PICK q \in SolQuotes, status \in {"CONFIRMED", "FAILED", "EXPIRED"} :
          /\ solRow[q].sig \in Sigs
          /\ solRow' = [solRow EXCEPT ![q] = [sig |-> solRow[q].sig, status |-> status]]
          /\ sigState[solRow[q].sig] = CASE status = "CONFIRMED" -> "confirmed"
                                         [] status = "FAILED" -> "failed"
                                         [] status = "EXPIRED" -> "dead"
      BY <1>5, UpdateWrites
  <2>2. UNCHANGED sigState
      BY <1>5 DEF UpdateSolRow
  <2>3. bk' = [bk EXCEPT ![q] = [hash |-> solRow[q].sig, status |-> status]] /\ done' = done
      BY <1>3, <2>1, <2>2
  <2>4. bk[q] = [hash |-> solRow[q].sig, status |-> solRow[q].status]
      OBVIOUS
  <2>5. bk' = [bk EXCEPT ![q].status = status]
      BY <2>3, <2>4
  <2>6. CASE status = "CONFIRMED"
    <3>1. bk[q].hash \in quoted[q] \cap done
        BY <2>1, <2>4, <2>6
    <3>2. SolLedger!Confirm(q)
        BY <2>3, <2>5, <2>6, <3>1 DEF SolLedger!Confirm
    <3> QED
        BY <3>2 DEF SolLedger!LedgerNext
  <2>7. CASE status \in {"FAILED", "EXPIRED"}
    <3>1. bk[q].hash # NoSig
        BY <2>1, <2>4, SolAssumption
    <3>2. SolLedger!GiveUp(q)
        BY <2>3, <2>5, <2>7, <3>1 DEF SolLedger!GiveUp
    <3> QED
        BY <3>2 DEF SolLedger!LedgerNext
  <2> QED
      BY <2>6, <2>7
<1>6. ASSUME NEW s \in Sigs, WalletSends(s) \/ SigResolves(s)
      PROVE  [SolLedger!LedgerNext]_(SolLedger!ledgerVars)
  <2>1. UNCHANGED solRow
      BY <1>6 DEF WalletSends, SigResolves
  <2>2. \A x \in Sigs : sigState[x] = "confirmed" => sigState'[x] = "confirmed"
      BY <1>0, <1>6 DEF WalletSends, SigResolves
  <2>3. done' = done \cup (done' \ done) /\ done' \ done \in SUBSET (Sigs \ done)
      BY <2>2
  <2> QED
      BY <1>2, <2>1, <2>3
<1>7. ASSUME NEW a \in SolRequests, coSignAndSend(a) PROVE [SolLedger!LedgerNext]_(SolLedger!ledgerVars)
  <2>1. UNCHANGED solRow
      BY <1>7 DEF coSignAndSend
  <2>2. done' = done
      BY <1>0, <1>7 DEF coSignAndSend
  <2>3. {} \in SUBSET (Sigs \ done) /\ done' = done \cup {}
      BY <2>2
  <2> QED
      BY <1>2, <2>1, <2>3
<1>8. ASSUME UNCHANGED solTradeVars PROVE [SolLedger!LedgerNext]_(SolLedger!ledgerVars)
    BY <1>1, <1>8 DEF solTradeVars
<1> QED
    BY <1>0, <1>1, <1>4, <1>5, <1>6, <1>7, <1>8
    DEF SolNext, SettleStep, submitTransaction, submitSponsoredTransaction, ReadSolRow,
        getSignatureStatuses, SolFails, RowGetsOld

\* Solana trades keep the promise of the trade ledger for any number of quotes, signatures,
\* requests and readers: a trade is opened once, under a signature of its own, and confirmed
\* only when it was.
THEOREM SolImplementsLedger == SolSpec => ImplementsSolLedger
<1>1. SolInit => SolLedger!LedgerInit
  <2> SUFFICES ASSUME SolInit PROVE SolLedger!LedgerInit
      OBVIOUS
  <2>1. {s \in Sigs : sigState[s] = "confirmed"} = {}
      BY DEF SolInit
  <2>2. [q \in SolQuotes |-> [hash |-> solRow[q].sig, status |-> solRow[q].status]]
          = [q \in SolQuotes |-> [hash |-> NoSig, status |-> "NONE"]]
      BY DEF SolInit
  <2> QED
      BY <2>1, <2>2 DEF SolLedger!LedgerInit
<1> QED
    BY <1>1, SolInvHolds, SolLedgerStep, PTL DEF SolSpec, ImplementsSolLedger, SolLedger!LedgerSpec

-----------------------------------------------------------------------------
(* Duels *)

Creating(t) == t.pc = "act" /\ t.op \in {"challenge", "openDuel"}
PendingTo(u, v) ==
  \E d \in DuelId : duel[d].status = "pending" /\ duel[d].challenger = u /\ duel[d].opponent = v

\* Who plays, by status: nobody has joined an open duel, and nobody plays against himself.
RowSense(row) ==
  /\ row.status \in {"none", "open"} => row.opponent = Nobody
  /\ row.status = "open" => row.challenger \in Duelists
  /\ row.status \in {"pending", "live"} =>
       row.challenger \in Duelists /\ row.opponent \in Duelists \ {row.challenger}

\* What a request remembers: it works on a duel that exists; whoever is past the cool-down
\* has no such challenge pending, and whoever waits for it will be refused if he has; and
\* whoever posts a result posts the one on record, for the first time.
DuelTaskOK(t) ==
  /\ t.pc \in {"attach", "get", "finalize", "expire", "post"} \/ (t.pc = "act" /\ ~Creating(t)) =>
       t.id \in DuelId /\ duel[t.id].status # "none"
  /\ t.pc = "act" /\ t.op = "join" => t.user \in Duelists /\ duel[t.id].challenger # t.user
  /\ t.pc = "cool" \/ Creating(t) =>
       /\ t.op \in {"challenge", "openDuel"} /\ t.user \in Duelists
       /\ IF t.op = "challenge" THEN t.vs \in Duelists \ {t.user} ELSE t.vs = Nobody
  /\ Creating(t) => t.user \in cooling /\ (t.op = "challenge" => ~PendingTo(t.user, t.vs))
  /\ t.pc = "cool" /\ t.op = "challenge" => t.user \in cooling \/ ~PendingTo(t.user, t.vs)
  /\ t.pc = "post" => /\ posts[t.id] = 0 /\ duel[t.id].status = "done"
                      /\ duel[t.id].winner = t.winner

\* Two requests neither create duels of one user at once nor post one result.
Collide(t, w) ==
  \/ Creating(t) /\ Creating(w) /\ t.user = w.user
  \/ t.pc = "post" /\ w.pc = "post" /\ t.id = w.id

DuelsInv ==
  /\ DuelsTypeOK /\ NoDuplicateChallenge /\ ResultPostedOnce
  /\ \A d \in DuelId : RowSense(duel[d]) /\ (duel[d].status = "none" => posts[d] = 0)
  /\ \A r \in DuelRequests : DuelTaskOK(duelReq[r])
  /\ \A r, s \in DuelRequests : r # s => ~Collide(duelReq[r], duelReq[s])

\* Without duels and requests there is nothing for DuelsInv to say.
LEMMA DuelsInvInit == DuelsInit => DuelsInv
<1> SUFFICES ASSUME DuelsInit PROVE DuelsInv
    OBVIOUS
<1>1. /\ NoDuel \in DuelRow /\ NoDuel.status = "none" /\ RowSense(NoDuel)
      /\ IdleDuel \in DuelTask /\ IdleDuel.pc = "idle"
    BY DEF NoDuel, IdleDuel, DuelRow, DuelTask, RowSense, Person, Waiting, Final
<1>2. DuelsTypeOK
    BY <1>1 DEF DuelsInit, DuelsTypeOK, Person
<1> QED
    BY <1>1, <1>2
    DEF DuelsInit, DuelsInv, NoDuplicateChallenge, ResultPostedOnce, DuelTaskOK, Collide, Creating

\* What a step may do to a duel: what is over stays, a live one is only done, an opponent
\* keeps his place.
DuelMove(d) ==
  /\ duel[d].status \in Final => duel'[d].status = duel[d].status /\ duel'[d].winner = duel[d].winner
  /\ duel[d].status = "live" => duel'[d].status \in {"live", "done"}
  /\ duel[d].opponent # Nobody => duel'[d].opponent = duel[d].opponent

\* What a step does to a duel other than create it.
RowStep(d) ==
  /\ duel[d].status # "none" => duel'[d].status # "none"
  /\ duel'[d].challenger = duel[d].challenger
  /\ duel'[d].status = "pending" => duel[d].status = "pending" /\ duel'[d].opponent = duel[d].opponent
  /\ duel'[d].status = "none" => duel[d].status = "none"
  /\ duel[d].status = "done" => duel'[d].status = "done" /\ duel'[d].winner = duel[d].winner

\* A request goes on, perhaps with a change of a row, but creates and posts nothing.
LEMMA DuelGoes ==
    ASSUME DuelsInv, NEW r \in DuelRequests, NEW t \in DuelTask,
           duelReq' = [duelReq EXCEPT ![r] = t], duel' \in [DuelId -> DuelRow],
           \A d \in DuelId : RowStep(d) /\ RowSense(duel'[d]),
           cooling \subseteq cooling', cooling' \subseteq Duelists,
           UNCHANGED <<posts, postedFor, lapsedAt, overAt>>,
           DuelTaskOK(t)',
           \A s \in DuelRequests : s # r => ~Collide(t, duelReq[s])
    PROVE  DuelsInv'
<1>0. duelReq \in [DuelRequests -> DuelTask]
    BY DEF DuelsInv, DuelsTypeOK
<1>1. \A s \in DuelRequests : duelReq'[s] = IF s = r THEN t ELSE duelReq[s]
    BY <1>0
<1>2. DuelsTypeOK'
    BY <1>0 DEF DuelsInv, DuelsTypeOK
<1>3. NoDuplicateChallenge'
    BY DEF DuelsInv, NoDuplicateChallenge, RowStep
<1>4. ResultPostedOnce' /\ \A d \in DuelId : RowSense(duel[d])' /\ (duel[d].status = "none" => posts[d] = 0)'
    BY DEF DuelsInv, ResultPostedOnce, RowStep
<1>5. \A u, v : PendingTo(u, v)' => PendingTo(u, v)
    BY DEF PendingTo, RowStep
<1>6. ASSUME NEW s \in DuelRequests PROVE DuelTaskOK(duelReq[s])'
  <2>1. CASE s = r
    <3>1. duelReq'[s] = t
        BY <1>1, <2>1
    <3> QED
        BY <3>1 DEF DuelTaskOK, Creating, PendingTo
  <2>2. CASE s # r
    <3>1. duelReq'[s] = duelReq[s] /\ DuelTaskOK(duelReq[s])
        BY <1>1, <2>2 DEF DuelsInv
    <3> QED
        BY <1>5, <3>1 DEF DuelTaskOK, Creating, RowStep
  <2> QED
      BY <2>1, <2>2
<1>7. \A p, s \in DuelRequests : p # s => ~Collide(duelReq'[p], duelReq'[s])
    BY <1>1 DEF DuelsInv, Collide
<1> QED
    BY <1>2, <1>3, <1>4, <1>6, <1>7 DEF DuelsInv, Collide, Creating

\* Every duel moves as it may.
RowsMove == /\ duel' \in [DuelId -> DuelRow]
            /\ \A d \in DuelId : RowStep(d) /\ RowSense(duel'[d]) /\ DuelMove(d)

\* Rows that nobody touches ...
LEMMA RowsStay ==
    ASSUME DuelsInv, UNCHANGED duel
    PROVE  RowsMove
BY DEF DuelsInv, DuelsTypeOK, RowsMove, RowStep, DuelMove

\* ... and a row that an update changes within its condition.
LEMMA RowMoves ==
    ASSUME DuelsInv, NEW e \in DuelId, NEW row \in DuelRow, duel' = [duel EXCEPT ![e] = row],
           duel[e].status # "none", row.status # "none", row.challenger = duel[e].challenger,
           row.status = "pending" => duel[e].status = "pending" /\ row.opponent = duel[e].opponent,
           duel[e].status \in Final => row.status = duel[e].status /\ row.winner = duel[e].winner,
           duel[e].status = "live" => row.status \in {"live", "done"},
           duel[e].opponent # Nobody => row.opponent = duel[e].opponent,
           RowSense(row)
    PROVE  RowsMove
<1>1. duel \in [DuelId -> DuelRow]
    BY DEF DuelsInv, DuelsTypeOK
<1>2. duel' \in [DuelId -> DuelRow]
    BY <1>1
<1>3. ASSUME NEW d \in DuelId PROVE RowStep(d) /\ RowSense(duel'[d]) /\ DuelMove(d)
  <2>1. CASE d = e
    <3>1. duel'[d] = row
        BY <1>1, <2>1
    <3> QED
        BY <2>1, <3>1 DEF RowStep, DuelMove, Final
  <2>2. CASE d # e
    <3>1. duel'[d] = duel[d] /\ RowSense(duel[d])
        BY <1>1, <2>2 DEF DuelsInv
    <3> QED
        BY <3>1 DEF RowStep, DuelMove
  <2> QED
      BY <2>1, <2>2
<1> QED
    BY <1>2, <1>3 DEF RowsMove

\* A request that is over is a well-typed idle one.
LEMMA DuelIdle == IdleDuel \in DuelTask /\ IdleDuel.pc = "idle"
BY DEF IdleDuel, DuelTask, Person

\* A request that goes on to `get` remembers the duel it is about.
LEMMA DuelGetting ==
    ASSUME NEW d \in DuelId
    PROVE  Getting(d) \in DuelTask /\ Getting(d).pc = "get" /\ Getting(d).id = d
BY DEF Getting, IdleDuel, DuelTask, Person

\* updateMany changes the row only while its condition holds.
LEMMA ActRows ==
    ASSUME DuelsInv, NEW r \in DuelRequests, Act(r)
    PROVE  RowsMove
<1> DEFINE t == duelReq[r]
           o == duel[t.id]
           row == Updated(t.op, o, t.user)
<1>1. /\ t \in DuelTask /\ t.pc = "act" /\ t.op \in {"join", "accept", "decline", "cancel"}
      /\ t.id \in DuelId /\ o \in DuelRow /\ o.status # "none" /\ RowSense(o)
      /\ (t.op = "join" => t.user \in Duelists /\ o.challenger # t.user)
    BY DEF Act, DuelsInv, DuelsTypeOK, DuelTaskOK, Creating
<1>2. CASE ~StillOpen(t.op, o)
    BY <1>2, RowsStay DEF Act
<1>3. CASE StillOpen(t.op, o)
  <2>1. duel' = [duel EXCEPT ![t.id] = row]
      BY <1>3 DEF Act
  <2>2. o.status \in Waiting
      BY <1>1, <1>3 DEF StillOpen, Waiting
  <2>3. /\ row \in DuelRow /\ row.challenger = o.challenger
        /\ row.status \in {"live", "declined", "cancelled"}
        /\ o.opponent # Nobody => row.opponent = o.opponent
        /\ RowSense(row)
    <3>1. CASE t.op = "join"
      <4>1. row = [o EXCEPT !.status = "live", !.opponent = t.user] /\ o.status = "open" /\ o.opponent = Nobody
          BY <1>3, <3>1 DEF Updated, StillOpen
      <4> QED
          BY <1>1, <3>1, <4>1 DEF DuelRow, RowSense, Person
    <3>2. CASE t.op = "accept"
      <4>1. row = [o EXCEPT !.status = "live"] /\ o.status = "pending"
          BY <1>3, <3>2 DEF Updated, StillOpen
      <4> QED
          BY <1>1, <4>1 DEF DuelRow, RowSense
    <3>3. CASE t.op \in {"decline", "cancel"}
      <4>1. row = [o EXCEPT !.status = "declined"] \/ row = [o EXCEPT !.status = "cancelled"]
          BY <3>3 DEF Updated
      <4> QED
          BY <1>1, <4>1 DEF DuelRow, RowSense, Final
    <3> QED
        BY <1>1, <3>1, <3>2, <3>3
  <2> HIDE DEF row
  <2> QED
      BY <1>1, <2>1, <2>2, <2>3, RowMoves DEF Waiting, Final
<1> QED
    BY <1>2, <1>3

\* Attaching the chat changes nothing else.
LEMMA AttachRows ==
    ASSUME DuelsInv, NEW r \in DuelRequests, Attach(r)
    PROVE  RowsMove
<1> DEFINE e == duelReq[r].id
           row == [duel[e] EXCEPT !.chat = TRUE]
<1>1. e \in DuelId /\ duel \in [DuelId -> DuelRow] /\ duel[e].status # "none" /\ RowSense(duel[e])
    BY DEF Attach, DuelsInv, DuelsTypeOK, DuelTaskOK
<1>2. CASE UNCHANGED duel
    BY <1>2, RowsStay
<1>3. CASE duel' = [duel EXCEPT ![e].chat = TRUE]
  <2>1. duel' = [duel EXCEPT ![e] = row]
      BY <1>1, <1>3
  <2>2. /\ row \in DuelRow /\ row.challenger = duel[e].challenger /\ row.status = duel[e].status
        /\ row.winner = duel[e].winner /\ row.opponent = duel[e].opponent /\ RowSense(row)
      BY <1>1 DEF DuelRow, RowSense
  <2> HIDE DEF row
  <2> QED
      BY <1>1, <2>1, <2>2, RowMoves
<1> QED
    BY <1>2, <1>3 DEF Attach

\* A live duel is done once, with a winner who plays or none.
LEMMA FinalizeRows ==
    ASSUME DuelsInv, NEW r \in DuelRequests, NEW cpct \in Score, NEW opct \in Score, Finalize(r, cpct, opct)
    PROVE  RowsMove
<1> DEFINE e == duelReq[r].id
           win == duelWinner(duel[e].challenger, cpct, duel[e].opponent, opct)
           row == [duel[e] EXCEPT !.status = "done", !.winner = win]
<1>1. /\ e \in DuelId /\ duel \in [DuelId -> DuelRow] /\ duel[e].status # "none"
      /\ RowSense(duel[e]) /\ duel[e] \in DuelRow
    BY DEF Finalize, DuelsInv, DuelsTypeOK, DuelTaskOK
<1>2. CASE duel[e].status # "live"
    BY <1>2, RowsStay DEF Finalize
<1>3. CASE duel[e].status = "live"
  <2>0. win \in Person
    <3>1. duel[e].challenger \in Person /\ duel[e].opponent \in Person /\ Nobody \in Person
        BY <1>1 DEF DuelRow, Person
    <3> QED
        BY <3>1 DEF duelWinner
  <2> HIDE DEF win
  <2>1. duel' = [duel EXCEPT ![e].status = "done", ![e].winner = win]
      BY <1>3 DEF Finalize, win
  <2>2. duel' = [duel EXCEPT ![e] = row]
      BY <1>1, <2>1
  <2>3. /\ row \in DuelRow /\ row.challenger = duel[e].challenger /\ row.status = "done"
        /\ row.opponent = duel[e].opponent /\ RowSense(row)
      BY <1>1, <2>0 DEF DuelRow, RowSense, Final
  <2> HIDE DEF row
  <2> QED
      BY <1>1, <1>3, <2>2, <2>3, RowMoves DEF Final
<1> QED
    BY <1>2, <1>3

\* Only a waiting duel expires.
LEMMA ExpireRows ==
    ASSUME DuelsInv, NEW r \in DuelRequests, Expire(r)
    PROVE  RowsMove
<1> DEFINE e == duelReq[r].id
           row == [duel[e] EXCEPT !.status = "expired"]
<1>1. /\ e \in DuelId /\ duel \in [DuelId -> DuelRow] /\ duel[e].status # "none"
      /\ RowSense(duel[e])
    BY DEF Expire, DuelsInv, DuelsTypeOK, DuelTaskOK
<1>2. CASE duel[e].status \notin Waiting
    BY <1>2, RowsStay DEF Expire
<1>3. CASE duel[e].status \in Waiting
  <2>1. duel' = [duel EXCEPT ![e] = row]
      BY <1>1, <1>3 DEF Expire
  <2>2. /\ row \in DuelRow /\ row.challenger = duel[e].challenger /\ row.status = "expired"
        /\ row.opponent = duel[e].opponent /\ RowSense(row)
      BY <1>1 DEF DuelRow, RowSense, Final
  <2> HIDE DEF row
  <2> QED
      BY <1>1, <1>3, <2>1, <2>2, RowMoves DEF Final, Waiting
<1> QED
    BY <1>2, <1>3

\* A duel is created in a row that nobody has, by the only request of its user that is past
\* the cool-down.
LEMMA CreateDuelKeeps ==
    ASSUME DuelsInv, NEW r \in DuelRequests, CreateDuel(r)
    PROVE  DuelsInv' /\ \A d \in DuelId : DuelMove(d)
<1> DEFINE t == duelReq[r]
           fresh == {d \in DuelId : duel[d].status = "none"}
           id == CHOOSE d \in fresh : \A e \in fresh : d <= e
           row == [NoDuel EXCEPT !.status = IF t.op = "challenge" THEN "pending" ELSE "open",
                                 !.challenger = t.user, !.opponent = t.vs,
                                 !.chat = t.op = "challenge"]
<1>1. id \in fresh
  <2>1. fresh \in SUBSET Nat /\ fresh # {}
      BY DEF CreateDuel, DuelId
  <2> HIDE DEF fresh
  <2> QED
      BY <2>1, LeastExists
<1>2. /\ duel' = [duel EXCEPT ![id] = row] /\ duelReq' = [duelReq EXCEPT ![r] = Getting(id)]
      /\ UNCHANGED <<lapsedAt, overAt, cooling, posts, postedFor>>
    BY DEF CreateDuel, SetTask
<1>3. /\ Creating(t) /\ DuelTaskOK(t) /\ t.op \in {"challenge", "openDuel"} /\ t.user \in Duelists
      /\ (t.op = "challenge" => t.vs \in Duelists \ {t.user}) /\ (t.op = "openDuel" => t.vs = Nobody)
      /\ t.user \in cooling /\ (t.op = "challenge" => ~PendingTo(t.user, t.vs))
    BY DEF CreateDuel, Creating, DuelsInv, DuelTaskOK
<1>4. /\ row \in DuelRow /\ row.challenger = t.user /\ row.opponent = t.vs
      /\ row.status = (IF t.op = "challenge" THEN "pending" ELSE "open") /\ RowSense(row)
    BY <1>3 DEF NoDuel, DuelRow, RowSense, Person, Waiting
<1>5. /\ duel \in [DuelId -> DuelRow] /\ duelReq \in [DuelRequests -> DuelTask] /\ id \in DuelId
      /\ duel[id].status = "none" /\ posts[id] = 0 /\ duel[id].opponent = Nobody
    BY <1>1 DEF DuelsInv, DuelsTypeOK, RowSense
<1> HIDE DEF row, id, fresh
<1>6. /\ \A d \in DuelId : duel'[d] = IF d = id THEN row ELSE duel[d]
      /\ \A s \in DuelRequests : duelReq'[s] = IF s = r THEN Getting(id) ELSE duelReq[s]
      /\ Getting(id) \in DuelTask /\ Getting(id).pc = "get" /\ Getting(id).id = id
    BY <1>2, <1>5, DuelGetting
<1>7. DuelsTypeOK'
    BY <1>2, <1>4, <1>5, <1>6 DEF DuelsInv, DuelsTypeOK
<1>8. NoDuplicateChallenge'
    BY <1>3, <1>4, <1>6 DEF DuelsInv, NoDuplicateChallenge, PendingTo
<1>9. ResultPostedOnce' /\ \A d \in DuelId : RowSense(duel[d])' /\ (duel[d].status = "none" => posts[d] = 0)'
  <2>1. ResultPostedOnce'
      BY <1>2, <1>5, <1>6 DEF DuelsInv, ResultPostedOnce
  <2>2. \A d \in DuelId : RowSense(duel'[d])
      BY <1>4, <1>6 DEF DuelsInv
  <2>3. \A d \in DuelId : duel'[d].status = "none" => posts'[d] = 0
      BY <1>2, <1>5, <1>6 DEF DuelsInv
  <2> QED
      BY <2>1, <2>2, <2>3 DEF RowSense
<1>10. \A u, v : PendingTo(u, v)' => PendingTo(u, v) \/ (u = t.user /\ v = t.vs)
    BY <1>4, <1>6 DEF PendingTo
<1>11. ASSUME NEW s \in DuelRequests PROVE DuelTaskOK(duelReq[s])'
  <2>1. CASE s = r
    <3>1. duelReq'[s] = Getting(id) /\ duel'[id].status # "none"
        BY <1>4, <1>5, <1>6, <2>1
    <3> QED
        BY <1>5, <1>6, <3>1 DEF DuelTaskOK, Creating
  <2>2. CASE s # r
    <3> DEFINE w == duelReq[s]
    <3>1. duelReq'[s] = w /\ DuelTaskOK(w) /\ ~Collide(t, w)
        BY <1>6, <2>2 DEF DuelsInv
    <3>2. w.pc \in {"attach", "get", "finalize", "expire", "post"} \/ (w.pc = "act" /\ ~Creating(w)) =>
            w.id \in DuelId /\ duel'[w.id] = duel[w.id]
        BY <1>5, <1>6, <3>1 DEF DuelTaskOK
    <3>3. Creating(w) => w.user # t.user
        BY <1>3, <3>1 DEF Collide
    <3>4. Creating(w) /\ w.op = "challenge" => ~PendingTo(w.user, w.vs)'
        BY <1>10, <3>1, <3>3 DEF DuelTaskOK
    <3>5. w.pc = "cool" /\ w.op = "challenge" => w.user \in cooling \/ ~PendingTo(w.user, w.vs)'
        BY <1>3, <1>10, <3>1 DEF DuelTaskOK
    <3> HIDE DEF w
    <3>6. w.pc = "act" /\ w.op = "join" => duel'[w.id] = duel[w.id]
        BY <3>2 DEF Creating
    <3>7. /\ w.pc \in {"attach", "get", "finalize", "expire", "post"} \/ (w.pc = "act" /\ ~Creating(w)) =>
               w.id \in DuelId /\ duel'[w.id].status # "none"
          /\ w.pc = "act" /\ w.op = "join" => w.user \in Duelists /\ duel'[w.id].challenger # w.user
        BY <3>1, <3>2, <3>6 DEF DuelTaskOK
    <3>8. w.pc = "post" => /\ posts'[w.id] = 0 /\ duel'[w.id].status = "done"
                           /\ duel'[w.id].winner = w.winner
        BY <1>2, <3>1, <3>2 DEF DuelTaskOK
    <3>9. w.pc = "cool" \/ Creating(w) =>
            /\ w.op \in {"challenge", "openDuel"} /\ w.user \in Duelists
            /\ IF w.op = "challenge" THEN w.vs \in Duelists \ {w.user} ELSE w.vs = Nobody
        BY <3>1 DEF DuelTaskOK
    <3>10. /\ Creating(w) => w.user \in cooling' /\ (w.op = "challenge" => ~PendingTo(w.user, w.vs)')
           /\ w.pc = "cool" /\ w.op = "challenge" => w.user \in cooling' \/ ~PendingTo(w.user, w.vs)'
        BY <1>2, <3>1, <3>4, <3>5 DEF DuelTaskOK
    <3>11. (Creating(duelReq[s])' <=> Creating(w))
        BY <3>1 DEF Creating
    <3>12. PendingTo(duelReq[s].user, duelReq[s].vs)' <=> PendingTo(w.user, w.vs)'
        BY DEF w
    <3> HIDE DEF Creating, PendingTo
    <3> QED
        BY <3>1, <3>7, <3>8, <3>9, <3>10, <3>11, <3>12 DEF DuelTaskOK
  <2> QED
      BY <2>1, <2>2
<1>12. \A p, s \in DuelRequests : p # s => ~Collide(duelReq'[p], duelReq'[s])
    BY <1>6 DEF DuelsInv, Collide, Creating
<1>13. \A d \in DuelId : DuelMove(d)
    BY <1>5, <1>6 DEF DuelMove, Final
<1> QED
    BY <1>7, <1>8, <1>9, <1>11, <1>12, <1>13 DEF DuelsInv, Collide, Creating

\* The one request that may post a result posts it.
LEMMA PostResultKeeps ==
    ASSUME DuelsInv, NEW r \in DuelRequests, PostResult(r)
    PROVE  DuelsInv'
<1> DEFINE t == duelReq[r]
           e == t.id
<1>1. /\ t.pc = "post" /\ e \in DuelId /\ posts[e] = 0 /\ duel[e].status = "done" /\ duel[e].winner = t.winner
      /\ duelReq \in [DuelRequests -> DuelTask] /\ posts \in [DuelId -> Nat]
      /\ postedFor \in [DuelId -> Person] /\ t \in DuelTask
    BY DEF PostResult, DuelsInv, DuelsTypeOK, DuelTaskOK
<1>2. /\ posts' = [posts EXCEPT ![e] = posts[e] + 1] /\ postedFor' = [postedFor EXCEPT ![e] = t.winner]
      /\ duelReq' = [duelReq EXCEPT ![r] = IdleDuel] /\ UNCHANGED <<duel, lapsedAt, overAt, cooling>>
    BY DEF PostResult, SetTask
<1>3. /\ \A s \in DuelRequests : duelReq'[s] = IF s = r THEN IdleDuel ELSE duelReq[s]
      /\ \A d \in DuelId : posts'[d] = IF d = e THEN 1 ELSE posts[d]
      /\ \A d \in DuelId : postedFor'[d] = IF d = e THEN t.winner ELSE postedFor[d]
    BY <1>1, <1>2
<1>4. DuelsTypeOK'
  <2>1. t.winner \in Person
      BY <1>1 DEF DuelTask
  <2>2. posts' \in [DuelId -> Nat] /\ postedFor' \in [DuelId -> Person] /\ duelReq' \in [DuelRequests -> DuelTask]
      BY <1>1, <1>2, <2>1, DuelIdle
  <2> QED
      BY <1>2, <2>2 DEF DuelsInv, DuelsTypeOK
<1>5. NoDuplicateChallenge' /\ ResultPostedOnce'
    BY <1>1, <1>2, <1>3 DEF DuelsInv, NoDuplicateChallenge, ResultPostedOnce
<1>6. \A d \in DuelId : RowSense(duel[d])' /\ (duel[d].status = "none" => posts[d] = 0)'
    BY <1>1, <1>2, <1>3 DEF DuelsInv, RowSense
<1>7. ASSUME NEW s \in DuelRequests PROVE DuelTaskOK(duelReq[s])'
  <2>1. CASE s = r
      BY <1>3, <2>1, DuelIdle DEF DuelTaskOK, Creating
  <2>2. CASE s # r
    <3>1. duelReq'[s] = duelReq[s] /\ DuelTaskOK(duelReq[s]) /\ ~Collide(t, duelReq[s])
        BY <1>3, <2>2 DEF DuelsInv
    <3>2. duelReq[s].pc = "post" => posts'[duelReq[s].id] = posts[duelReq[s].id]
        BY <1>1, <1>3, <3>1 DEF Collide, DuelTaskOK
    <3> QED
        BY <1>2, <3>1, <3>2 DEF DuelTaskOK, Creating, PendingTo
  <2> QED
      BY <2>1, <2>2
<1>8. \A p, s \in DuelRequests : p # s => ~Collide(duelReq'[p], duelReq'[s])
    BY <1>3, DuelIdle DEF DuelsInv, Collide, Creating
<1> QED
    BY <1>4, <1>5, <1>6, <1>7, <1>8 DEF DuelsInv, Collide, Creating

\* A request that rests, or goes on with a duel that exists, disturbs nothing.
LEMMA DuelRests ==
    ASSUME DuelsInv, RowsMove, NEW r \in DuelRequests, NEW t \in DuelTask,
           duelReq' = [duelReq EXCEPT ![r] = t],
           cooling \subseteq cooling', cooling' \subseteq Duelists,
           UNCHANGED <<posts, postedFor, lapsedAt, overAt>>,
           t.pc # "idle" => /\ t.pc \in {"attach", "get", "finalize", "expire"}
                            /\ t.id \in DuelId /\ duel[t.id].status # "none"
    PROVE  DuelsInv'
<1>1. t.pc \notin {"act", "cool", "post"}
    OBVIOUS
<1>2. DuelTaskOK(t)'
    BY <1>1 DEF RowsMove, RowStep, DuelTaskOK, Creating
<1>3. \A s \in DuelRequests : ~Collide(t, duelReq[s])
    BY <1>1 DEF Collide, Creating
<1> QED
    BY <1>2, <1>3, DuelGoes DEF RowsMove

\* A user starts to challenge somebody whom he has not challenged, or opens a duel.
LEMMA StartKeeps ==
    ASSUME DuelsInv, NEW r \in DuelRequests, NEW u \in Duelists,
           (\E v \in Duelists : challenge(r, u, v)) \/ openDuel(r, u)
    PROVE  DuelsInv'
<1>1. PICK t \in DuelTask :
        /\ t.pc = "cool" /\ t.op \in {"challenge", "openDuel"} /\ t.user = u
        /\ IF t.op = "challenge" THEN t.vs \in Duelists \ {u} /\ ~Busy(u, t.vs) ELSE t.vs = Nobody
        /\ duelReq' = [duelReq EXCEPT ![r] = t]
        /\ UNCHANGED <<duel, lapsedAt, overAt, cooling, posts, postedFor>>
  <2>1. CASE openDuel(r, u)
    <3> DEFINE t == [IdleDuel EXCEPT !.pc = "cool", !.op = "openDuel", !.user = u]
    <3>1. t \in DuelTask /\ t.pc = "cool" /\ t.op = "openDuel" /\ t.user = u /\ t.vs = Nobody
        BY DEF IdleDuel, DuelTask, Person
    <3>2. duelReq' = [duelReq EXCEPT ![r] = t]
        BY <2>1 DEF openDuel, SetTask
    <3> HIDE DEF t
    <3> QED
        BY <2>1, <3>1, <3>2 DEF openDuel
  <2>2. ASSUME NEW v \in Duelists, challenge(r, u, v)
        PROVE  \E t \in DuelTask :
                 /\ t.pc = "cool" /\ t.op \in {"challenge", "openDuel"} /\ t.user = u
                 /\ IF t.op = "challenge" THEN t.vs \in Duelists \ {u} /\ ~Busy(u, t.vs) ELSE t.vs = Nobody
                 /\ duelReq' = [duelReq EXCEPT ![r] = t]
                 /\ UNCHANGED <<duel, lapsedAt, overAt, cooling, posts, postedFor>>
    <3> DEFINE t == [IdleDuel EXCEPT !.pc = "cool", !.op = "challenge", !.user = u, !.vs = v]
    <3>1. t \in DuelTask /\ t.pc = "cool" /\ t.op = "challenge" /\ t.user = u /\ t.vs = v
        BY DEF IdleDuel, DuelTask, Person
    <3>2. duelReq' = [duelReq EXCEPT ![r] = t]
        BY <2>2 DEF challenge, SetTask
    <3>3. /\ v # u /\ ~Busy(u, v)
          /\ UNCHANGED <<duel, lapsedAt, overAt, cooling, posts, postedFor>>
        BY <2>2 DEF challenge
    <3> HIDE DEF t
    <3> QED
        BY <3>1, <3>2, <3>3
  <2> QED
      BY <2>1, <2>2
<1>2. RowsMove
    BY <1>1, RowsStay
<1>3. t.op = "challenge" => ~PendingTo(t.user, t.vs)
    BY <1>1 DEF Busy, PendingTo
<1>4. UNCHANGED duel => (PendingTo(t.user, t.vs)' <=> PendingTo(t.user, t.vs))
    BY DEF PendingTo
<1>5. DuelTaskOK(t)'
    BY <1>1, <1>3, <1>4 DEF DuelTaskOK, Creating
<1>6. \A s \in DuelRequests : ~Collide(t, duelReq[s])
    BY <1>1 DEF Collide, Creating
<1>7. cooling \subseteq cooling' /\ cooling' \subseteq Duelists
    BY <1>1 DEF DuelsInv, DuelsTypeOK
<1> QED
    BY <1>1, <1>2, <1>5, <1>6, <1>7, DuelGoes DEF RowsMove

\* Past the cool-down: the key was not set, so no other request of the user is past it and
\* none of his challenges has been pending since.
LEMMA CoolDownKeeps ==
    ASSUME DuelsInv, NEW r \in DuelRequests, CoolDown(r)
    PROVE  DuelsInv'
<1> DEFINE w == duelReq[r]
<1>1. w \in DuelTask /\ w.pc = "cool" /\ DuelTaskOK(w) /\ w.user \in Duelists /\ cooling \subseteq Duelists
    BY DEF CoolDown, DuelsInv, DuelsTypeOK, DuelTaskOK
<1>2. cooling' = cooling \cup {w.user} /\ UNCHANGED <<duel, lapsedAt, overAt, posts, postedFor>>
    BY DEF CoolDown
<1>3. RowsMove
    BY <1>2, RowsStay
<1>4. cooling \subseteq cooling' /\ cooling' \subseteq Duelists
    BY <1>1, <1>2
<1>5. CASE w.user \in cooling
  <2>1. duelReq' = [duelReq EXCEPT ![r] = IdleDuel]
      BY <1>5 DEF CoolDown, SetTask
  <2> QED
      BY <1>2, <1>3, <1>4, <2>1, DuelIdle, DuelRests
<1>6. CASE w.user \notin cooling
  <2>1. PICK t \in DuelTask :
          /\ t.pc = "act" /\ t.op = w.op /\ t.user = w.user /\ t.vs = w.vs
          /\ duelReq' = [duelReq EXCEPT ![r] = t]
    <3>1. [w EXCEPT !.pc = "act"] \in DuelTask
        BY <1>1 DEF DuelTask
    <3>2. duelReq' = [duelReq EXCEPT ![r] = [w EXCEPT !.pc = "act"]]
        BY <1>6 DEF CoolDown, SetTask
    <3>3. /\ [w EXCEPT !.pc = "act"].pc = "act" /\ [w EXCEPT !.pc = "act"].op = w.op
          /\ [w EXCEPT !.pc = "act"].user = w.user /\ [w EXCEPT !.pc = "act"].vs = w.vs
        BY <1>1 DEF DuelTask
    <3> QED
        BY <3>1, <3>2, <3>3
  <2>2. /\ t.op \in {"challenge", "openDuel"} /\ t.user \in Duelists
        /\ IF t.op = "challenge" THEN t.vs \in Duelists \ {t.user} ELSE t.vs = Nobody
        /\ (t.op = "challenge" => ~PendingTo(t.user, t.vs))
    <3> HIDE DEF w
    <3> QED
        BY <1>1, <1>6, <2>1 DEF DuelTaskOK
  <2>3. UNCHANGED duel => (PendingTo(t.user, t.vs)' <=> PendingTo(t.user, t.vs))
      BY DEF PendingTo
  <2>4. DuelTaskOK(t)'
      BY <1>2, <2>1, <2>2, <2>3 DEF DuelTaskOK, Creating
  <2>5. \A s \in DuelRequests : ~Collide(t, duelReq[s])
    <3>1. \A s \in DuelRequests : Creating(duelReq[s]) => duelReq[s].user \in cooling
        BY DEF DuelsInv, DuelTaskOK
    <3> QED
        BY <1>6, <2>1, <3>1 DEF Collide
  <2> QED
      BY <1>2, <1>3, <1>4, <2>1, <2>4, <2>5, DuelGoes DEF RowsMove
<1> QED
    BY <1>5, <1>6

\* A request reads a waiting duel before it updates it.
LEMMA FindKeeps ==
    ASSUME DuelsInv, NEW r \in DuelRequests, NEW op \in {"join", "accept", "decline", "cancel"},
           NEW d \in DuelId, NEW u \in Duelists, Find(r, op, d, u)
    PROVE  DuelsInv'
<1> DEFINE t == [IdleDuel EXCEPT !.pc = "act", !.op = op, !.id = d, !.user = u]
<1>1. t \in DuelTask /\ t.pc = "act" /\ t.op = op /\ t.user = u /\ t.id = d
    BY DEF IdleDuel, DuelTask, Person
<1>2. duelReq' = [duelReq EXCEPT ![r] = t]
    BY DEF Find, SetTask
<1>3. /\ UNCHANGED <<duel, lapsedAt, overAt, cooling, posts, postedFor>>
      /\ duel[d].status \in Waiting /\ (op = "join" => duel[d].challenger # u)
    BY DEF Find, Mine, Waiting
<1> HIDE DEF t
<1>4. RowsMove
    BY <1>3, RowsStay
<1>5. DuelTaskOK(t)'
  <2>1. ~Creating(t) /\ t' = t
      BY <1>1 DEF Creating, t, IdleDuel
  <2> QED
      BY <1>1, <1>3, <2>1 DEF DuelTaskOK, Creating, Waiting
<1>6. \A s \in DuelRequests : ~Collide(t, duelReq[s])
    BY <1>1 DEF Collide, Creating
<1>7. cooling \subseteq cooling' /\ cooling' \subseteq Duelists
    BY <1>3 DEF DuelsInv, DuelsTypeOK
<1> QED
    BY <1>1, <1>2, <1>3, <1>4, <1>5, <1>6, <1>7, DuelGoes DEF RowsMove, t

\* get and the sweep only choose what to do with a duel that exists.
LEMMA LookKeeps ==
    ASSUME DuelsInv, NEW r \in DuelRequests, NEW d \in DuelId, Look(r, d)
    PROVE  DuelsInv'
<1>1. UNCHANGED <<duel, lapsedAt, overAt, cooling, posts, postedFor>>
    BY DEF Look
<1>2. duel[d].status # "none" /\ duel \in [DuelId -> DuelRow]
    BY DEF Look, Due, Lapsed, Waiting, DuelsInv, DuelsTypeOK, DuelTaskOK
<1>3. PICK t \in DuelTask :
        /\ duelReq' = [duelReq EXCEPT ![r] = t]
        /\ t.pc # "idle" => t.pc \in {"finalize", "expire"} /\ t.id = d
  <2> DEFINE fin == [Getting(d) EXCEPT !.pc = "finalize", !.chat = duel[d].chat]
             exp == [Getting(d) EXCEPT !.pc = "expire"]
  <2>1. /\ fin \in DuelTask /\ fin.pc = "finalize" /\ fin.id = d
        /\ exp \in DuelTask /\ exp.pc = "expire" /\ exp.id = d
    <3>1. duel[d].chat \in BOOLEAN
        BY <1>2 DEF DuelRow
    <3> QED
        BY <3>1 DEF Getting, IdleDuel, DuelTask, Person
  <2>2. \/ duelReq' = [duelReq EXCEPT ![r] = fin] \/ duelReq' = [duelReq EXCEPT ![r] = exp]
        \/ duelReq' = [duelReq EXCEPT ![r] = IdleDuel]
    <3>1. CASE Due(d)
      <4>1. ~Lapsed(d)
          BY <3>1 DEF Due, Lapsed, Waiting
      <4> QED
          BY <3>1, <4>1 DEF Look, SetTask
    <3>2. CASE ~Due(d) /\ Lapsed(d)
        BY <3>2 DEF Look, SetTask
    <3>3. CASE ~Due(d) /\ ~Lapsed(d)
        BY <3>3 DEF Look, SetTask
    <3> QED
        BY <3>1, <3>2, <3>3
  <2> HIDE DEF fin, exp
  <2> QED
      BY <2>1, <2>2, DuelIdle
<1>4. RowsMove
    BY <1>1, RowsStay
<1>5. cooling \subseteq cooling' /\ cooling' \subseteq Duelists
    BY <1>1 DEF DuelsInv, DuelsTypeOK
<1> QED
    BY <1>1, <1>2, <1>3, <1>4, <1>5, DuelRests

\* After its updateMany a request goes on with the duel, or it is done.
LEMMA ActKeeps ==
    ASSUME DuelsInv, NEW r \in DuelRequests, Act(r)
    PROVE  DuelsInv'
<1> DEFINE w == duelReq[r]
<1>1. /\ w \in DuelTask /\ w.id \in DuelId /\ duel[w.id].status # "none"
      /\ UNCHANGED <<lapsedAt, overAt, cooling, posts, postedFor>>
    BY DEF Act, DuelsInv, DuelsTypeOK, DuelTaskOK, Creating
<1>2. PICK t \in DuelTask :
        /\ duelReq' = [duelReq EXCEPT ![r] = t]
        /\ t.pc # "idle" => t.pc \in {"attach", "get"} /\ t.id = w.id
  <2> DEFINE att == [w EXCEPT !.pc = "attach"]
  <2>1. att \in DuelTask /\ att.pc = "attach" /\ att.id = w.id
      BY <1>1 DEF DuelTask
  <2>2. \/ duelReq' = [duelReq EXCEPT ![r] = att] \/ duelReq' = [duelReq EXCEPT ![r] = Getting(w.id)]
        \/ duelReq' = [duelReq EXCEPT ![r] = IdleDuel]
      BY DEF Act, SetTask
  <2> HIDE DEF att, w
  <2> QED
      BY <1>1, <2>1, <2>2, DuelIdle, DuelGetting
<1>3. cooling \subseteq cooling' /\ cooling' \subseteq Duelists
    BY <1>1 DEF DuelsInv, DuelsTypeOK
<1> QED
    BY <1>1, <1>2, <1>3, ActRows, DuelRests

\* Who made a live duel done is the first to post its result.
LEMMA FinalizeKeeps ==
    ASSUME DuelsInv, NEW r \in DuelRequests, NEW cpct \in Score, NEW opct \in Score, Finalize(r, cpct, opct)
    PROVE  DuelsInv'
<1> DEFINE w == duelReq[r]
           e == w.id
           win == duelWinner(duel[e].challenger, cpct, duel[e].opponent, opct)
<1>1. /\ w \in DuelTask /\ e \in DuelId /\ duel \in [DuelId -> DuelRow] /\ duel[e].status # "none"
      /\ UNCHANGED <<lapsedAt, overAt, cooling, posts, postedFor>>
    BY DEF Finalize, DuelsInv, DuelsTypeOK, DuelTaskOK
<1>2. cooling \subseteq cooling' /\ cooling' \subseteq Duelists
    BY <1>1 DEF DuelsInv, DuelsTypeOK
<1>3. RowsMove
    BY FinalizeRows
<1>4. CASE duelReq' = [duelReq EXCEPT ![r] = IdleDuel]
    BY <1>1, <1>2, <1>3, <1>4, DuelIdle, DuelRests
<1>5. CASE duelReq' # [duelReq EXCEPT ![r] = IdleDuel]
  <2>1. /\ duel[e].status = "live"
        /\ duel' = [duel EXCEPT ![e].status = "done", ![e].winner = win]
        /\ duelReq' = [duelReq EXCEPT ![r] = [w EXCEPT !.pc = "post", !.winner = win]]
      BY <1>5 DEF Finalize, SetTask
  <2>2. win \in Person
    <3>1. duel[e].challenger \in Person /\ duel[e].opponent \in Person /\ Nobody \in Person
        BY <1>1 DEF DuelRow, Person
    <3> QED
        BY <3>1 DEF duelWinner
  <2> HIDE DEF win
  <2>3. PICK t \in DuelTask :
          /\ t.pc = "post" /\ t.id = e /\ t.winner = win
          /\ duelReq' = [duelReq EXCEPT ![r] = t]
    <3> DEFINE p == [w EXCEPT !.pc = "post", !.winner = win]
    <3>1. p \in DuelTask /\ p.pc = "post" /\ p.id = e /\ p.winner = win
        BY <1>1, <2>2 DEF DuelTask
    <3>2. duelReq' = [duelReq EXCEPT ![r] = p]
        BY <2>1
    <3> HIDE DEF p
    <3> QED
        BY <3>1, <3>2
  <2>4. duel'[e].status = "done" /\ duel'[e].winner = win
      BY <1>1, <2>1 DEF DuelRow
  <2>5. posts[e] = 0
    <3>1. posts[e] \in Nat /\ posts[e] <= 1 /\ posts[e] # 1
        BY <1>1, <2>1 DEF DuelsInv, DuelsTypeOK, ResultPostedOnce
    <3> QED
        BY <3>1
  <2>6. DuelTaskOK(t)'
      BY <1>1, <2>3, <2>4, <2>5 DEF DuelTaskOK, Creating
  <2>7. \A s \in DuelRequests : ~Collide(t, duelReq[s])
    <3>1. \A s \in DuelRequests : duelReq[s].pc = "post" => duel[duelReq[s].id].status = "done"
        BY DEF DuelsInv, DuelTaskOK
    <3> QED
        BY <2>1, <2>3, <3>1 DEF Collide, Creating
  <2> QED
      BY <1>1, <1>2, <1>3, <2>3, <2>6, <2>7, DuelGoes DEF RowsMove
<1> QED
    BY <1>4, <1>5

\* Every step of the duels keeps the invariant and moves every duel as it may.
LEMMA DuelsInvStep == DuelsInv /\ [DuelsNext]_duelVars => DuelsInv' /\ \A d \in DuelId : DuelMove(d)
<1> SUFFICES ASSUME DuelsInv, [DuelsNext]_duelVars PROVE DuelsInv' /\ \A d \in DuelId : DuelMove(d)
    OBVIOUS
<1>0. UNCHANGED duel => \A d \in DuelId : DuelMove(d)
    BY RowsStay DEF RowsMove
<1>1. ASSUME NEW r \in DuelRequests, NEW u \in Duelists,
             (\E v \in Duelists : challenge(r, u, v)) \/ openDuel(r, u)
      PROVE  DuelsInv' /\ \A d \in DuelId : DuelMove(d)
  <2>1. UNCHANGED duel
      BY <1>1 DEF challenge, openDuel
  <2> QED
      BY <1>0, <1>1, <2>1, StartKeeps
<1>2. ASSUME NEW r \in DuelRequests, CoolDown(r)
      PROVE  DuelsInv' /\ \A d \in DuelId : DuelMove(d)
  <2>1. UNCHANGED duel
      BY <1>2 DEF CoolDown
  <2> QED
      BY <1>0, <1>2, <2>1, CoolDownKeeps
<1>3. ASSUME NEW r \in DuelRequests, NEW op \in {"join", "accept", "decline", "cancel"},
             NEW d \in DuelId, NEW u \in Duelists, Find(r, op, d, u)
      PROVE  DuelsInv' /\ \A e \in DuelId : DuelMove(e)
  <2>1. UNCHANGED duel
      BY <1>3 DEF Find
  <2> QED
      BY <1>0, <1>3, <2>1, FindKeeps
<1>4. ASSUME NEW r \in DuelRequests, NEW d \in DuelId, Look(r, d)
      PROVE  DuelsInv' /\ \A e \in DuelId : DuelMove(e)
  <2>1. UNCHANGED duel
      BY <1>4 DEF Look
  <2> QED
      BY <1>0, <1>4, <2>1, LookKeeps
<1>5. ASSUME NEW r \in DuelRequests, Attach(r)
      PROVE  DuelsInv' /\ \A d \in DuelId : DuelMove(d)
  <2>1. /\ duelReq[r].id \in DuelId /\ duel[duelReq[r].id].status # "none"
        /\ duelReq' = [duelReq EXCEPT ![r] = Getting(duelReq[r].id)]
        /\ UNCHANGED <<lapsedAt, overAt, cooling, posts, postedFor>> /\ cooling \subseteq Duelists
      BY <1>5 DEF Attach, SetTask, DuelsInv, DuelsTypeOK, DuelTaskOK
  <2>2. RowsMove
      BY <1>5, AttachRows
  <2> QED
      BY <2>1, <2>2, DuelGetting, DuelRests DEF RowsMove
<1>6. ASSUME NEW r \in DuelRequests, Expire(r)
      PROVE  DuelsInv' /\ \A d \in DuelId : DuelMove(d)
  <2>1. /\ duelReq' = [duelReq EXCEPT ![r] = IdleDuel]
        /\ UNCHANGED <<lapsedAt, overAt, cooling, posts, postedFor>> /\ cooling \subseteq Duelists
      BY <1>6 DEF Expire, SetTask, DuelsInv, DuelsTypeOK
  <2>2. RowsMove
      BY <1>6, ExpireRows
  <2> QED
      BY <2>1, <2>2, DuelIdle, DuelRests DEF RowsMove
<1>7. ASSUME NEW r \in DuelRequests, DuelDies(r)
      PROVE  DuelsInv' /\ \A d \in DuelId : DuelMove(d)
  <2>1. /\ duelReq' = [duelReq EXCEPT ![r] = IdleDuel]
        /\ UNCHANGED <<duel, lapsedAt, overAt, cooling, posts, postedFor>> /\ cooling \subseteq Duelists
      BY <1>7 DEF DuelDies, SetTask, DuelsInv, DuelsTypeOK
  <2>2. RowsMove
      BY <2>1, RowsStay
  <2> QED
      BY <2>1, <2>2, DuelIdle, DuelRests DEF RowsMove
<1>8. ASSUME NEW r \in DuelRequests, PostResult(r)
      PROVE  DuelsInv' /\ \A d \in DuelId : DuelMove(d)
  <2>1. UNCHANGED duel
      BY <1>8 DEF PostResult
  <2> QED
      BY <1>0, <1>8, <2>1, PostResultKeeps
<1>9. ASSUME UNCHANGED <<duel, duelReq, posts, postedFor>>, lapsedAt' \subseteq DuelId,
             overAt' \subseteq DuelId, cooling' \subseteq Duelists,
             \A r \in DuelRequests : duelReq[r].pc \in {"cool", "act"} /\ duelReq[r].user \in cooling
               => duelReq[r].user \in cooling'
      PROVE  DuelsInv' /\ \A d \in DuelId : DuelMove(d)
  <2>1. ASSUME NEW r \in DuelRequests PROVE DuelTaskOK(duelReq[r])'
    <3>1. DuelTaskOK(duelReq[r]) /\ duelReq'[r] = duelReq[r]
        BY <1>9 DEF DuelsInv
    <3> QED
        BY <1>9, <3>1 DEF DuelTaskOK, Creating, PendingTo
  <2>2. DuelsTypeOK' /\ NoDuplicateChallenge' /\ ResultPostedOnce'
      BY <1>9 DEF DuelsInv, DuelsTypeOK, NoDuplicateChallenge, ResultPostedOnce
  <2> QED
      BY <1>0, <1>9, <2>1, <2>2 DEF DuelsInv, RowSense, Collide, Creating
<1>10. ASSUME NEW d \in DuelId, Lapse(d) \/ TimeIsUp(d)
       PROVE  DuelsInv' /\ \A e \in DuelId : DuelMove(e)
    BY <1>9, <1>10 DEF Lapse, TimeIsUp, DuelsInv, DuelsTypeOK
<1>11. ASSUME NEW u \in Duelists, CooledDown(u)
       PROVE  DuelsInv' /\ \A d \in DuelId : DuelMove(d)
    BY <1>9, <1>11 DEF CooledDown, DuelsInv, DuelsTypeOK
<1>12. ASSUME UNCHANGED duelVars PROVE DuelsInv' /\ \A d \in DuelId : DuelMove(d)
    BY <1>9, <1>12 DEF duelVars, DuelsInv, DuelsTypeOK
<1>13. ASSUME NEW r \in DuelRequests, Act(r) \/ Settling(r)
       PROVE  DuelsInv' /\ \A d \in DuelId : DuelMove(d)
    BY <1>6, <1>13, ActKeeps, ActRows, FinalizeKeeps, FinalizeRows DEF Settling, RowsMove
<1> QED
    BY <1>1, <1>2, <1>3, <1>4, <1>5, <1>7, <1>8, <1>10, <1>11, <1>12, <1>13, CreateDuelKeeps DEF DuelsNext

\* DuelsInv holds in every reachable state of the duels.
LEMMA DuelsInvHolds == DuelsSpec => []DuelsInv
BY DuelsInvInit, DuelsInvStep, PTL DEF DuelsSpec

\* duelWinner names the player whose score beats the other's, whatever the scores.
LEMMA BestScoreWins == DuelsInv => WinnerHasBestScore
<1> SUFFICES ASSUME DuelsInv, NEW d \in DuelId, duel[d].status = "live",
                    NEW pct \in [{duel[d].challenger, duel[d].opponent} -> Score]
             PROVE  LET traded == {u \in DOMAIN pct : pct[u] # NoPct}
                        best == {u \in traded : \A v \in traded \ {u} : pct[u] > pct[v]}
                        win == duelWinner(duel[d].challenger, pct[duel[d].challenger],
                                          duel[d].opponent, pct[duel[d].opponent])
                    IN best = IF win = Nobody THEN {} ELSE {win}
    BY DEF WinnerHasBestScore
<1> DEFINE c == duel[d].challenger
           o == duel[d].opponent
           traded == {u \in DOMAIN pct : pct[u] # NoPct}
           best == {u \in traded : \A v \in traded \ {u} : pct[u] > pct[v]}
           win == duelWinner(c, pct[c], o, pct[o])
<1>1. c # o /\ c # Nobody /\ o # Nobody
    BY DuelsAssumption DEF DuelsInv, RowSense
<1>2. pct \in [{c, o} -> Score]
    OBVIOUS
<1> HIDE DEF c, o
<1>3. DOMAIN pct = {c, o} /\ pct[c] \in Score /\ pct[o] \in Score
    BY <1>2
<1>4. \A x \in Score : x # NoPct => x \in Int
    BY DuelsAssumption DEF Score
<1>5. CASE pct[c] = NoPct /\ pct[o] = NoPct
  <2>1. traded = {} /\ win = Nobody
      BY <1>3, <1>5 DEF duelWinner
  <2> QED
      BY <2>1 DEF c, o
<1>6. CASE pct[c] # NoPct /\ pct[o] = NoPct
  <2>1. traded = {c} /\ win = c
      BY <1>3, <1>6 DEF duelWinner
  <2>2. best = {c}
      BY <2>1
  <2> QED
      BY <1>1, <2>1, <2>2 DEF c, o
<1>7. CASE pct[c] = NoPct /\ pct[o] # NoPct
  <2>1. traded = {o} /\ win = o
      BY <1>3, <1>7 DEF duelWinner
  <2>2. best = {o}
      BY <2>1
  <2> QED
      BY <1>1, <2>1, <2>2 DEF c, o
<1>8. CASE pct[c] # NoPct /\ pct[o] # NoPct
  <2>1. traded = {c, o} /\ pct[c] \in Int /\ pct[o] \in Int
      BY <1>3, <1>4, <1>8
  <2>2. win = IF pct[c] = pct[o] THEN Nobody ELSE IF pct[c] > pct[o] THEN c ELSE o
      BY <1>8 DEF duelWinner
  <2>3. best = {u \in {c, o} : \A v \in {c, o} \ {u} : pct[u] > pct[v]}
      BY <2>1
  <2>4. best = IF pct[c] = pct[o] THEN {} ELSE IF pct[c] > pct[o] THEN {c} ELSE {o}
      BY <1>1, <2>1, <2>3
  <2> HIDE DEF best, win
  <2>5. best = IF win = Nobody THEN {} ELSE {win}
      BY <1>1, <2>1, <2>2, <2>4
  <2> QED
      BY <2>5 DEF best, win, c, o
<1> QED
    BY <1>5, <1>6, <1>7, <1>8

\* For any number of users, requests and sweeps: racing requests neither double a challenge
\* nor post a result twice or wrong, and the better score wins.
THEOREM DuelSafetyHolds == DuelsSpec => [](DuelsTypeOK /\ DuelSafety)
<1>1. DuelsInv => DuelsTypeOK /\ DuelSafety
    BY BestScoreWins DEF DuelsInv, DuelSafety
<1> QED
    BY <1>1, DuelsInvHolds, PTL

\* For any number of them: no request that acts on a stale copy of the row reopens a duel
\* that is over, changes its winner or takes the place of an opponent.
THEOREM DuelMovesHolds == DuelsSpec => DuelMoves
<1>1. DuelsInv /\ [DuelsNext]_duelVars =>
        [\A d \in DuelId :
           /\ duel[d].status \in Final =>
                duel'[d].status = duel[d].status /\ duel'[d].winner = duel[d].winner
           /\ duel[d].status = "live" => duel'[d].status \in {"live", "done"}
           /\ duel[d].opponent # Nobody => duel'[d].opponent = duel[d].opponent]_duelVars
    BY DuelsInvStep DEF DuelMove
<1> QED
    BY <1>1, DuelsInvHolds, PTL DEF DuelsSpec, DuelMoves

-----------------------------------------------------------------------------
(* The services together *)

\* A step of the composed run is a step, or none, of each of these components.
LEMMA StepOfAccounts ==
    ASSUME [ServicesNext]_servicesVars
    PROVE  /\ [SolNext]_solTradeVars /\ [DuelsNext]_duelVars
           /\ [TopupNext]_topupVars /\ [LinkNext]_linkVars
BY DEF ServicesNext, servicesVars

\* A behaviour of the services is one of each of these components.
LEMMA ServicesAreAccounts == ServicesSpec => SolSpec /\ DuelsSpec /\ TopupSpec /\ LinkSpec
BY StepOfAccounts, PTL
DEF ServicesSpec, ServicesInit, SolSpec, DuelsSpec, TopupSpec, LinkSpec

\* ... and one of each of the components of MarketProofs.
LEMMA ServicesAreMarkets == ServicesSpec => IngestSpec /\ DiscSpec /\ RpcSpec /\ PacingSpec
BY ServicesStepIsComponents, PTL
DEF ServicesSpec, ServicesInit, IngestSpec, DiscSpec, RpcSpec, PacingSpec

\* The services side by side keep what each of them keeps alone.
THEOREM AccountSafetyHolds ==
    ServicesSpec => [](SolStatusIsTrue /\ DuelSafety /\ TankSafety /\ LinkSafety)
BY ServicesAreAccounts, SolStatusIsTrueHolds, DuelSafetyHolds, TankSafetyHolds, LinkSafetyHolds, PTL

Services == {"solana", "duels", "topup", "link", "ingestion", "discovery", "rpc", "pacing"}

\* Whichever service acts, and for any number of users, requests, pools, blocks, endpoints and
\* calls, it keeps its rows, counters, queues and tasks in their sets.
THEOREM ServicesTypeCorrect == ServicesSpec => []ServicesTypeOK
<1>1. ServicesInit => service \in Services
    BY DEF ServicesInit, Services
<1>2. service \in Services /\ [ServicesNext]_servicesVars => (service \in Services)'
    BY DEF ServicesNext, servicesVars
<1>3. ServicesSpec => [](service \in Services)
    BY <1>1, <1>2, PTL DEF ServicesSpec
<1>4. ServicesSpec => [](IngestInv /\ DiscInv /\ QueueInv /\ RpcInv /\ PacingInv)
    BY ServicesAreMarkets, IngestInvInit, IngestInvStep, DiscInvInit, DiscInvStep, QueueInvInit,
       QueueInvStep, RpcInvInit, RpcInvStep, PacingInvInit, PacingInvStep, PTL
    DEF IngestSpec, DiscSpec, RpcSpec, PacingSpec
<1>5. /\ service \in Services /\ SolTypeOK /\ DuelsTypeOK /\ TopupTypeOK /\ LinkTypeOK
      /\ IngestInv /\ QueueInv /\ RpcInv /\ PacingInv
      => ServicesTypeOK
    BY DEF Services, ServicesTypeOK, IngestInv, QueueInv, RpcInv, PacingInv
<1> QED
    BY <1>3, <1>4, <1>5, ServicesAreAccounts, SolStatusIsTrueHolds, DuelSafetyHolds, TankSafetyHolds,
       LinkSafetyHolds, PTL

\* Whichever service acts: a duel that is over stays so, an empty account takes no wallet from
\* another but on overtaken reads, a rebuild spoils at most one old candle, and the trades on
\* Solana implement the ledger.
THEOREM ServicesMovesHold ==
    ServicesSpec =>
      DuelMoves /\ EmptyAccountTakesNothing /\ CandleMoves /\ ImplementsSolLedger
BY ServicesAreAccounts, ServicesAreMarkets, DuelMovesHolds, EmptyAccountTakesNothingHolds,
   CandleMovesHolds, SolImplementsLedger, PTL
=============================================================================
