---------------------------- MODULE SocialProofs ----------------------------
(***************************************************************************)
(* Proofs for the social services of the API: tips, chats, calls and live  *)
(* rooms, each for any number of users and concurrent requests.            *)
(***************************************************************************)
EXTENDS MCSocial, FiniteSetTheorems, WellFoundedInduction, TLAPS

-----------------------------------------------------------------------------
(* Tips *)

BothPaid(t) == tipChain[t] = "evm" => \A l \in Legs : legs[t][l] = "ok"

\* A request holds a tip that is no longer pending and was not told to the host yet; past
\* the checks both transfers of an EVM tip are there.
TipTaskOK(q) ==
  q.pc # "idle" =>
    /\ q.tip \in Tips \ pendingTip /\ tipChain[q.tip] # "none" /\ told[q.tip] = 0
    /\ q.pc # "notify" => announced[q.tip] = 0
    /\ q.pc = "cosign" => tipChain[q.tip] # "evm"
    /\ q.pc = "check" /\ q.leg = 2 => legs[q.tip][1] = "ok"
    /\ q.pc \in {"announce", "notify"} => BothPaid(q.tip)

SameTip(q, p) == q.pc # "idle" /\ p.pc # "idle" /\ q.tip = p.tip

TipsInv ==
  /\ TipsTypeOK /\ TipAnnouncedOnce /\ EvmTipWasPaid
  /\ \A t \in Tips : tipChain[t] = "none" => t \notin pendingTip
  /\ \A t \in Tips : t \in pendingTip \/ tipChain[t] = "none" => announced[t] = 0 /\ told[t] = 0
  /\ \A r \in TipRequests : TipTaskOK(tipReq[r])
  /\ \A r, s \in TipRequests : r # s => ~SameTip(tipReq[r], tipReq[s])

\* Nothing is prepared, held or told at the start.
LEMMA TipsInvInit == TipsInit => TipsInv
BY DEF TipsInit, TipsInv, TipsTypeOK, TipAnnouncedOnce, EvmTipWasPaid, TipTaskOK, SameTip, IdleTip,
       TipTask, OnChain, Legs

\* One request goes on with the tip it has, or one that it takes out of Redis.
LEMMA TipGoes ==
    ASSUME TipsInv, NEW r \in TipRequests, NEW q \in TipTask,
           tipReq' = [tipReq EXCEPT ![r] = q], pendingTip' \subseteq pendingTip,
           UNCHANGED <<tipChain, legs>>, solTip' \in [Tips -> OnChain],
           announced' \in [Tips -> Nat], told' \in [Tips -> Nat],
           q.pc # "idle" => q.tip \in pendingTip \/ (tipReq[r].pc # "idle" /\ q.tip = tipReq[r].tip),
           TipTaskOK(q)',
           \A t \in Tips :
             \/ announced'[t] = announced[t] /\ told'[t] = told[t]
             \/ /\ tipReq[r].pc # "idle" /\ t = tipReq[r].tip
                /\ announced'[t] <= 1 /\ told'[t] <= 1 /\ BothPaid(t)
    PROVE  TipsInv'
<1>0. /\ tipReq \in [TipRequests -> TipTask]
      /\ \A s \in TipRequests : tipReq'[s] = IF s = r THEN q ELSE tipReq[s]
    BY DEF TipsInv, TipsTypeOK
<1>1. TipsTypeOK'
    BY <1>0 DEF TipsInv, TipsTypeOK
<1>2. TipAnnouncedOnce'
    BY DEF TipsInv, TipAnnouncedOnce
<1>3. EvmTipWasPaid'
  <2> SUFFICES ASSUME NEW t \in Tips, tipChain[t] = "evm", announced'[t] + told'[t] > 0
               PROVE  \A l \in Legs : legs[t][l] = "ok"
      BY DEF EvmTipWasPaid
  <2> QED
      BY DEF TipsInv, EvmTipWasPaid, BothPaid
<1>4. tipReq[r].pc # "idle" => tipReq[r].tip \notin pendingTip /\ tipChain[tipReq[r].tip] # "none"
    BY DEF TipsInv, TipTaskOK
<1>5. \A t \in Tips : /\ tipChain'[t] = "none" => t \notin pendingTip'
                      /\ t \in pendingTip' \/ tipChain'[t] = "none" => announced'[t] = 0 /\ told'[t] = 0
    BY <1>4 DEF TipsInv
<1>6. \A p, s \in TipRequests : p # s => ~SameTip(tipReq'[p], tipReq'[s])
  <2>1. \A s \in TipRequests : s # r => ~SameTip(q, tipReq[s])
      BY DEF TipsInv, SameTip, TipTaskOK
  <2> QED
      BY <1>0, <2>1 DEF TipsInv, SameTip
<1>7. ASSUME NEW s \in TipRequests PROVE TipTaskOK(tipReq[s])'
  <2>1. CASE s = r
    <3>1. tipReq'[s] = q
        BY <1>0, <2>1
    <3> QED
        BY <3>1 DEF TipTaskOK, BothPaid
  <2>2. CASE s # r
    <3>1. tipReq'[s] = tipReq[s] /\ TipTaskOK(tipReq[s]) /\ ~SameTip(tipReq[r], tipReq[s])
        BY <1>0, <2>2 DEF TipsInv
    <3>2. tipReq[s].pc # "idle" => /\ announced'[tipReq[s].tip] = announced[tipReq[s].tip]
                                   /\ told'[tipReq[s].tip] = told[tipReq[s].tip]
        BY <3>1 DEF SameTip, TipTaskOK
    <3> QED
        BY <3>1, <3>2 DEF TipTaskOK, BothPaid
  <2> QED
      BY <2>1, <2>2
<1> QED
    BY <1>1, <1>2, <1>3, <1>5, <1>6, <1>7 DEF TipsInv, SameTip

\* A request gives up.
LEMMA TipRests ==
    ASSUME TipsInv, NEW r \in TipRequests, GiveUpTip(r), pendingTip' = pendingTip,
           UNCHANGED <<tipChain, legs>>, solTip' \in [Tips -> OnChain], UNCHANGED <<announced, told>>
    PROVE  TipsInv'
<1>1. IdleTip \in TipTask /\ IdleTip.pc = "idle"
    BY DEF IdleTip, TipTask, Legs
<1>2. announced \in [Tips -> Nat] /\ told \in [Tips -> Nat]
    BY DEF TipsInv, TipsTypeOK
<1> QED
    BY <1>1, <1>2, TipGoes DEF GiveUpTip, TipTaskOK

\* A transfer that was mined stays mined: what the chain does takes nothing back.
LEMMA LegsGoOn ==
    ASSUME TipsInv, legs' \in [Tips -> [Legs -> OnChain]],
           \A t \in Tips, l \in Legs : legs[t][l] = "ok" => legs'[t][l] = "ok",
           solTip' \in [Tips -> OnChain],
           UNCHANGED <<tipChain, pendingTip, tipReq, announced, told>>
    PROVE  TipsInv'
<1>1. TipsTypeOK' /\ TipAnnouncedOnce'
    BY DEF TipsInv, TipsTypeOK, TipAnnouncedOnce
<1>2. EvmTipWasPaid'
    BY DEF TipsInv, EvmTipWasPaid
<1>3. ASSUME NEW r \in TipRequests PROVE TipTaskOK(tipReq[r])'
  <2>1. TipTaskOK(tipReq[r]) /\ tipReq'[r] = tipReq[r]
      BY DEF TipsInv
  <2> QED
      BY <2>1 DEF TipTaskOK, BothPaid, Legs
<1> QED
    BY <1>1, <1>2, <1>3 DEF TipsInv, SameTip

\* Every step of the tips keeps the invariant.
LEMMA TipsInvStep == TipsInv /\ [TipsNext]_tipVars => TipsInv'
<1> SUFFICES ASSUME TipsInv, [TipsNext]_tipVars PROVE TipsInv'
    OBVIOUS
<1>0. /\ tipReq \in [TipRequests -> TipTask] /\ announced \in [Tips -> Nat] /\ told \in [Tips -> Nat]
      /\ solTip \in [Tips -> OnChain] /\ legs \in [Tips -> [Legs -> OnChain]]
      /\ \A r \in TipRequests : tipReq[r] \in TipTask /\ TipTaskOK(tipReq[r])
    BY DEF TipsInv, TipsTypeOK
<1>1. ASSUME NEW t \in Tips, NEW chain \in {"evm", "solana"}, prepare(t, chain) PROVE TipsInv'
  <2>1. \A p \in Tips : tipChain'[p] = IF p = t THEN chain ELSE tipChain[p]
      BY <1>1 DEF prepare, TipsInv, TipsTypeOK
  <2>2. TipsTypeOK' /\ TipAnnouncedOnce'
      BY <1>1 DEF prepare, TipsInv, TipsTypeOK, TipAnnouncedOnce
  <2>3. EvmTipWasPaid'
      BY <1>1, <2>1 DEF prepare, TipsInv, EvmTipWasPaid
  <2>4. \A p \in Tips : /\ tipChain'[p] = "none" => p \notin pendingTip'
                        /\ p \in pendingTip' \/ tipChain'[p] = "none" => announced'[p] = 0 /\ told'[p] = 0
      BY <1>1, <2>1 DEF prepare, TipsInv
  <2>5. ASSUME NEW r \in TipRequests PROVE TipTaskOK(tipReq[r])'
    <3>1. TipTaskOK(tipReq[r]) /\ tipReq'[r] = tipReq[r]
        BY <1>1 DEF prepare, TipsInv
    <3>2. tipReq[r].pc # "idle" => tipReq[r].tip # t
        BY <1>1, <3>1 DEF prepare, TipTaskOK
    <3> QED
        BY <1>1, <2>1, <3>1, <3>2 DEF prepare, TipTaskOK, BothPaid
  <2> QED
      BY <1>1, <2>2, <2>3, <2>4, <2>5 DEF prepare, TipsInv, SameTip
<1>2. ASSUME NEW t \in Tips, TipExpires(t) PROVE TipsInv'
    BY <1>2 DEF TipExpires, TipsInv, TipsTypeOK, TipAnnouncedOnce, EvmTipWasPaid, TipTaskOK, SameTip, BothPaid
<1>3. ASSUME NEW t \in Tips, SolanaLands(t) PROVE TipsInv'
    BY <1>0, <1>3, LegsGoOn DEF SolanaLands, OnChain
<1>4. ASSUME NEW t \in Tips, NEW l \in Legs, SendLeg(t, l) \/ LegMined(t, l) PROVE TipsInv'
  <2>1. PICK x \in OnChain : legs' = [legs EXCEPT ![t][l] = x]
      BY <1>4 DEF SendLeg, LegMined, OnChain
  <2>2. legs[t][l] # "ok" /\ UNCHANGED <<tipChain, pendingTip, solTip, tipReq, announced, told>>
      BY <1>4 DEF SendLeg, LegMined
  <2>3. [legs[t] EXCEPT ![l] = x] \in [Legs -> OnChain]
      BY <1>0
  <2>4. legs' = [legs EXCEPT ![t] = [legs[t] EXCEPT ![l] = x]]
      BY <1>0, <2>1
  <2>5. legs' \in [Tips -> [Legs -> OnChain]]
      BY <1>0, <2>3, <2>4
  <2>6. \A p \in Tips, k \in Legs : legs[p][k] = "ok" => legs'[p][k] = "ok"
      BY <1>0, <2>2, <2>4
  <2> QED
      BY <1>0, <2>2, <2>5, <2>6, LegsGoOn
<1>5. ASSUME NEW r \in TipRequests, NEW t \in Tips, submit(r, t) PROVE TipsInv'
  <2> DEFINE q == [pc |-> IF tipChain[t] = "evm" THEN "check" ELSE "cosign", tip |-> t, leg |-> 1]
  <2>1. PICK p \in TipTask : /\ p.pc = (IF tipChain[t] = "evm" THEN "check" ELSE "cosign")
                             /\ p.tip = t /\ p.leg = 1 /\ tipReq' = [tipReq EXCEPT ![r] = p]
    <3>1. q \in TipTask /\ q.pc = (IF tipChain[t] = "evm" THEN "check" ELSE "cosign") /\ q.tip = t /\ q.leg = 1
        BY DEF TipTask, Legs
    <3>2. tipReq' = [tipReq EXCEPT ![r] = q]
        BY <1>5 DEF submit
    <3> QED
        BY <3>1, <3>2
  <2>2. /\ t \in pendingTip /\ pendingTip' = pendingTip \ {t}
        /\ UNCHANGED <<tipChain, legs, solTip, announced, told>>
      BY <1>5 DEF submit
  <2>3. TipTaskOK(p)'
      BY <2>1, <2>2 DEF TipTaskOK, TipsInv
  <2> QED
      BY <1>0, <2>1, <2>2, <2>3, TipGoes
<1>6. ASSUME NEW r \in TipRequests, CheckLeg(r) PROVE TipsInv'
  <2> DEFINE q == tipReq[r]
  <2>1. UNCHANGED <<tipChain, pendingTip, legs, solTip, announced, told>> /\ q.pc = "check"
      BY <1>6 DEF CheckLeg
  <2>2. CASE legs[q.tip][q.leg] # "ok"
      BY <1>0, <1>6, <2>1, <2>2, TipRests DEF CheckLeg
  <2>3. CASE legs[q.tip][q.leg] = "ok"
    <3> DEFINE n == IF q.leg = 1 THEN [q EXCEPT !.leg = 2] ELSE [q EXCEPT !.pc = "announce"]
    <3>1. PICK p \in TipTask : /\ p.tip = q.tip /\ tipReq' = [tipReq EXCEPT ![r] = p]
                               /\ \/ q.leg = 1 /\ p.leg = 2 /\ p.pc = "check"
                                  \/ q.leg = 2 /\ p.pc = "announce"
      <4>1. /\ n \in TipTask /\ n.tip = q.tip
            /\ (q.leg = 1 /\ n.leg = 2 /\ n.pc = "check") \/ (q.leg = 2 /\ n.pc = "announce")
          BY <1>0, <2>1 DEF TipTask, Legs
      <4>2. tipReq' = [tipReq EXCEPT ![r] = n]
          BY <1>6, <2>3 DEF CheckLeg
      <4> HIDE DEF n
      <4> QED
          BY <4>1, <4>2
    <3>2. TipTaskOK(p)'
        BY <1>0, <2>1, <2>3, <3>1 DEF TipTaskOK, BothPaid, Legs
    <3> QED
        BY <1>0, <2>1, <3>1, <3>2, TipGoes
  <2> QED
      BY <2>2, <2>3
<1>7. ASSUME NEW r \in TipRequests, CoSign(r) PROVE TipsInv'
  <2> DEFINE q == tipReq[r]
  <2>1. UNCHANGED <<tipChain, pendingTip, legs, announced, told>> /\ q.pc = "cosign" /\ q.tip \in Tips
      BY <1>0, <1>7 DEF CoSign, TipTaskOK
  <2>2. CASE GiveUpTip(r) /\ UNCHANGED solTip
      BY <1>0, <2>1, <2>2, TipRests
  <2>3. CASE solTip' = [solTip EXCEPT ![q.tip] = "sent"] /\ GoOn(r, "announce")
    <3>1. PICK p \in TipTask : p.tip = q.tip /\ p.pc = "announce" /\ tipReq' = [tipReq EXCEPT ![r] = p]
      <4>1. [q EXCEPT !.pc = "announce"] \in TipTask
          BY <1>0 DEF TipTask
      <4>2. tipReq' = [tipReq EXCEPT ![r] = [q EXCEPT !.pc = "announce"]]
          BY <1>0, <2>3 DEF GoOn
      <4>3. [q EXCEPT !.pc = "announce"].tip = q.tip /\ [q EXCEPT !.pc = "announce"].pc = "announce"
          BY <1>0 DEF TipTask
      <4> QED
          BY <4>1, <4>2, <4>3
    <3>2. solTip' \in [Tips -> OnChain]
        BY <1>0, <2>1, <2>3 DEF OnChain
    <3>3. TipTaskOK(p)'
        BY <1>0, <2>1, <3>1 DEF TipTaskOK, BothPaid
    <3> QED
        BY <1>0, <2>1, <3>1, <3>2, <3>3, TipGoes
  <2> QED
      BY <1>7, <2>2, <2>3 DEF CoSign
<1>8. ASSUME NEW r \in TipRequests, Announce(r) PROVE TipsInv'
  <2> DEFINE q == tipReq[r]
  <2>1. /\ UNCHANGED <<tipChain, pendingTip, legs, solTip, told>> /\ q.pc = "announce" /\ q.tip \in Tips
        /\ announced[q.tip] = 0 /\ told[q.tip] = 0 /\ BothPaid(q.tip)
      BY <1>0, <1>8 DEF Announce, TipTaskOK
  <2>2. PICK p \in TipTask : p.tip = q.tip /\ p.pc = "notify" /\ tipReq' = [tipReq EXCEPT ![r] = p]
    <3>1. [q EXCEPT !.pc = "notify"] \in TipTask
        BY <1>0 DEF TipTask
    <3>2. tipReq' = [tipReq EXCEPT ![r] = [q EXCEPT !.pc = "notify"]]
        BY <1>0, <1>8 DEF Announce, GoOn
    <3>3. [q EXCEPT !.pc = "notify"].tip = q.tip /\ [q EXCEPT !.pc = "notify"].pc = "notify"
        BY <1>0 DEF TipTask
    <3> QED
        BY <3>1, <3>2, <3>3
  <2>3. /\ announced' \in [Tips -> Nat] /\ announced'[q.tip] <= 1
        /\ \A t \in Tips : t # q.tip => announced'[t] = announced[t]
      BY <1>0, <1>8, <2>1 DEF Announce
  <2>4. TipTaskOK(p)'
      BY <1>0, <2>1, <2>2 DEF TipTaskOK, BothPaid
  <2>5. ASSUME NEW t \in Tips
        PROVE  \/ announced'[t] = announced[t] /\ told'[t] = told[t]
               \/ /\ q.pc # "idle" /\ t = q.tip
                  /\ announced'[t] <= 1 /\ told'[t] <= 1 /\ BothPaid(t)
      BY <2>1, <2>3
  <2>6. p.pc # "idle" => p.tip \in pendingTip \/ (q.pc # "idle" /\ p.tip = q.tip)
      BY <2>1, <2>2
  <2> QED
      BY <1>0, <2>1, <2>2, <2>3, <2>4, <2>5, <2>6, TipGoes
<1>9. ASSUME NEW r \in TipRequests, NotifyHost(r) PROVE TipsInv'
  <2> DEFINE q == tipReq[r]
  <2>1. /\ UNCHANGED <<tipChain, pendingTip, legs, solTip, announced>> /\ q.pc = "notify" /\ q.tip \in Tips
        /\ told[q.tip] = 0 /\ BothPaid(q.tip) /\ tipReq' = [tipReq EXCEPT ![r] = IdleTip]
        /\ told' = [told EXCEPT ![q.tip] = 0 + 1]
      BY <1>0, <1>9 DEF NotifyHost, TipTaskOK, GiveUpTip
  <2>2. announced[q.tip] <= 1
      BY <2>1 DEF TipsInv, TipAnnouncedOnce
  <2>3. told' \in [Tips -> Nat] /\ told'[q.tip] <= 1 /\ \A t \in Tips : t # q.tip => told'[t] = told[t]
      BY <1>0, <2>1
  <2>4. IdleTip \in TipTask /\ IdleTip.pc = "idle" /\ TipTaskOK(IdleTip)'
      BY DEF IdleTip, TipTask, Legs, TipTaskOK
  <2> QED
      BY <1>0, <2>1, <2>2, <2>3, <2>4, TipGoes
<1>10. ASSUME NEW r \in TipRequests, TipDies(r) PROVE TipsInv'
    BY <1>0, <1>10, TipRests DEF TipDies
<1>11. ASSUME UNCHANGED tipVars PROVE TipsInv'
    BY <1>0, <1>11, LegsGoOn DEF tipVars
<1> QED
    BY <1>1, <1>2, <1>3, <1>4, <1>5, <1>6, <1>7, <1>8, <1>9, <1>10, <1>11 DEF TipsNext

\* However often and by however many requests submit is repeated: a tip is announced and told
\* to the host at most once, and on EVM only after both transfers succeeded.
THEOREM TipSafetyHolds == TipsSpec => [](TipsTypeOK /\ TipSafety)
<1>1. TipsInv => TipsTypeOK /\ TipSafety
    BY DEF TipsInv, TipSafety
<1> QED
    BY <1>1, TipsInvInit, TipsInvStep, PTL DEF TipsSpec

-----------------------------------------------------------------------------
(* Chats *)

DmTasks == [pc: {"idle", "create", "access", "cool", "count", "insert", "touch", "accept"},
            me: DmUsers \cup {NoUser}, row: ChatRows, blocked: BOOLEAN]
Real == {"request", "active"}
Counting == {"count", "insert"}

\* What a request knows of the chat stays true: who asked for it; that it was agreed when the
\* request read it as active; and, while no write outlasts the cooldown, that there is room
\* for the message it has counted.
DmTaskOK(t) ==
  /\ t.pc # "idle" => t.me \in DmUsers /\ t.row.requester \in DmUsers /\ t.row.status \in Real
  /\ t.pc = "create" => t.row.requester = t.me
  /\ t.pc \notin {"idle", "create"} => chat.status # "none" /\ t.row.requester = chat.requester
  /\ t.pc \notin {"idle", "create"} /\ t.row.status = "active" =>
       agreed \/ (t.pc \in {"insert", "touch"} /\ t.me # chat.requester)
  /\ t.blocked => blocks # {} /\ t.pc \notin {"cool", "count", "insert"}
  /\ ~SlowWrites /\ t.pc \in Counting => t.me \in cooling
  /\ ~SlowWrites /\ t.pc = "insert" /\ t.me = chat.requester /\ ~agreed =>
       sent[t.me] < RequestMessagesMax

\* Two requests never count messages of the same user at a time.
Overlap(t, w) == t.pc \in Counting /\ w.pc \in Counting /\ t.me = w.me

DmInv ==
  /\ DmTypeOK /\ ActiveMeansAgreed /\ BlockHolds
  /\ ~SlowWrites => RequestCapped
  /\ chat.status # "none" => chat.requester \in DmUsers
  /\ chat.status = "none" => /\ \A u \in DmUsers : sent[u] = 0
                             /\ \A r \in DmRequests : dm[r].pc \in {"idle", "create"}
  /\ \A r \in DmRequests : DmTaskOK(dm[r])
  /\ ~SlowWrites => \A r, s \in DmRequests : r # s => ~Overlap(dm[r], dm[s])

\* A request at rest knows nothing.
LEMMA DmRestOK == DmRest \in DmTasks /\ DmRest.pc = "idle" /\ DmRest.blocked = FALSE
                  /\ DmRest.row \in ChatRows /\ DmRest.row.status = "none"
BY DEF DmRest, DmTasks, ChatRows

\* There is no chat at the start.
LEMMA DmInvInit == DmInit => DmInv
<1> SUFFICES ASSUME DmInit PROVE DmInv
    OBVIOUS
<1>1. DmTypeOK
  <2>1. dm \in [DmRequests -> DmTasks] /\ sent \in [DmUsers -> 0..MaxDm] /\ chat \in ChatRows
      BY DmRestOK, DmAssumption DEF DmInit
  <2> QED
      BY <2>1 DEF DmInit, DmTypeOK, DmTasks
<1>2. \A r \in DmRequests : dm[r].pc = "idle" /\ dm[r].blocked = FALSE
    BY DmRestOK DEF DmInit
<1>3. \A r \in DmRequests : DmTaskOK(dm[r])
    BY <1>2 DEF DmTaskOK, Counting
<1> QED
    BY <1>1, <1>2, <1>3, DmRestOK
    DEF DmInit, DmInv, ActiveMeansAgreed, BlockHolds, RequestCapped, Overlap, Counting

\* One request goes on: a chat that exists stays, with its requester, and what was agreed
\* stays agreed.
LEMMA DmStep ==
    ASSUME DmInv, NEW r \in DmRequests, NEW t \in DmTasks, dm' = [dm EXCEPT ![r] = t],
           chat' \in ChatRows, chat'.status # "none" => chat'.requester \in DmUsers,
           chat.status # "none" => /\ chat'.status # "none" /\ chat'.requester = chat.requester
                                   /\ (agreed => agreed'),
           chat'.status = "none" => t.pc \in {"idle", "create"},
           agreed' \in BOOLEAN, ActiveMeansAgreed', ~SlowWrites => RequestCapped',
           cooling \subseteq cooling', cooling' \subseteq DmUsers, UNCHANGED blocks, unwanted' = FALSE,
           sent' \in [DmUsers -> 0..MaxDm],
           \A u \in DmUsers : sent'[u] = sent[u] \/ (dm[r].pc = "insert" /\ dm[r].me = u),
           DmTaskOK(t)',
           ~SlowWrites => \A s \in DmRequests : s # r => ~Overlap(t, dm[s])
    PROVE  DmInv'
<1>0. /\ dm \in [DmRequests -> DmTasks]
      /\ \A s \in DmRequests : dm'[s] = IF s = r THEN t ELSE dm[s]
    BY DEF DmInv, DmTypeOK, DmTasks
<1>1. DmTypeOK'
  <2>1. dm' \in [DmRequests -> DmTasks] /\ blocks' \subseteq DmUsers
      BY <1>0 DEF DmInv, DmTypeOK
  <2> QED
      BY <2>1 DEF DmTypeOK, DmTasks
<1>2. BlockHolds'
    BY DEF BlockHolds
<1>3. chat'.status = "none" => /\ \A u \in DmUsers : sent'[u] = 0
                               /\ \A s \in DmRequests : dm'[s].pc \in {"idle", "create"}
    BY <1>0 DEF DmInv
<1>4. ASSUME NEW s \in DmRequests PROVE DmTaskOK(dm[s])'
  <2>1. CASE s = r
    <3>1. dm'[s] = t
        BY <1>0, <2>1
    <3> QED
        BY <3>1 DEF DmTaskOK
  <2>2. CASE s # r
    <3> DEFINE w == dm[s]
    <3>1. dm'[s] = w /\ DmTaskOK(w) /\ (~SlowWrites => ~Overlap(w, dm[r]))
        BY <1>0, <2>2 DEF DmInv
    <3>2. w.pc \notin {"idle", "create"} =>
            /\ chat.status # "none" /\ chat'.status # "none" /\ chat'.requester = chat.requester
            /\ agreed => agreed'
        BY <3>1 DEF DmTaskOK
    <3>3. ~SlowWrites /\ w.pc = "insert" /\ w.me = chat'.requester /\ ~agreed' =>
            sent'[w.me] < RequestMessagesMax
        BY <3>1, <3>2 DEF DmTaskOK, Overlap, Counting
    <3>4. w.pc \notin {"idle", "create"} /\ w.row.status = "active" =>
            agreed' \/ (w.pc \in {"insert", "touch"} /\ w.me # chat'.requester)
        BY <3>1, <3>2 DEF DmTaskOK
    <3>5. /\ w.pc # "idle" => w.me \in DmUsers /\ w.row.requester \in DmUsers /\ w.row.status \in Real
          /\ w.pc = "create" => w.row.requester = w.me
          /\ w.pc \notin {"idle", "create"} => chat'.status # "none" /\ w.row.requester = chat'.requester
          /\ w.blocked => blocks' # {} /\ w.pc \notin {"cool", "count", "insert"}
          /\ ~SlowWrites /\ w.pc \in Counting => w.me \in cooling'
        BY <3>1, <3>2 DEF DmTaskOK
    <3> HIDE DEF w
    <3> QED
        BY <3>1, <3>3, <3>4, <3>5 DEF DmTaskOK
  <2> QED
      BY <2>1, <2>2
<1>5. ~SlowWrites => \A p, s \in DmRequests : p # s => ~Overlap(dm'[p], dm'[s])
    BY <1>0 DEF DmInv, Overlap
<1> QED
    BY <1>1, <1>2, <1>3, <1>4, <1>5 DEF DmInv, Overlap

\* A request goes on, or ends, without a change to the chat and its messages.
LEMMA DmReads ==
    ASSUME DmInv, NEW r \in DmRequests, NEW t \in DmTasks, dm' = [dm EXCEPT ![r] = t],
           UNCHANGED <<chat, blocks, sent, agreed, unwanted>>,
           cooling \subseteq cooling', cooling' \subseteq DmUsers,
           chat.status = "none" => t.pc \in {"idle", "create"}, DmTaskOK(t)',
           ~SlowWrites => \A s \in DmRequests : s # r => ~Overlap(t, dm[s])
    PROVE  DmInv'
<1>1. /\ chat \in ChatRows /\ agreed \in BOOLEAN /\ sent \in [DmUsers -> 0..MaxDm] /\ unwanted = FALSE
      /\ chat.status # "none" => chat.requester \in DmUsers
    BY DEF DmInv, DmTypeOK, BlockHolds
<1>2. ActiveMeansAgreed' /\ (~SlowWrites => RequestCapped')
    BY DEF DmInv, ActiveMeansAgreed, RequestCapped
<1> QED
    BY <1>1, <1>2, DmStep

\* A request ends.
LEMMA DmRests ==
    ASSUME DmInv, NEW r \in DmRequests, DmEnds(r), UNCHANGED <<chat, blocks, sent, agreed, unwanted>>,
           cooling \subseteq cooling', cooling' \subseteq DmUsers
    PROVE  DmInv'
<1>1. DmTaskOK(DmRest)'
    BY DmRestOK DEF DmTaskOK, Counting, DmRest
<1>2. \A s \in DmRequests : ~Overlap(DmRest, dm[s])
    BY DmRestOK DEF Overlap, Counting
<1> QED
    BY <1>1, <1>2, DmRestOK, DmReads DEF DmEnds

\* open, write and accept begin with the row as it is.
LEMMA DmBeginsOK ==
    ASSUME DmInv, NEW r \in DmRequests, NEW u \in DmUsers, OpenChat(r, u) \/ DmWrite(r, u) \/ AcceptChat(r, u)
    PROVE  DmInv'
<1>1. /\ UNCHANGED <<chat, blocks, sent, cooling, agreed, unwanted>> /\ cooling \subseteq DmUsers
      /\ chat \in ChatRows
    BY DEF OpenChat, DmWrite, AcceptChat, DmInv, DmTypeOK
<1>2. PICK pc \in {"create", "access", "accept"}, row \in ChatRows :
        /\ dm' = [dm EXCEPT ![r] = [pc |-> pc, me |-> u, row |-> row, blocked |-> blocks # {}]]
        /\ pc = "create" => chat.status = "none" /\ row.requester = u /\ row.status \in Real
        /\ pc # "create" => chat.status # "none" /\ row = chat
  <2>1. CASE OpenChat(r, u)
    <3>1. PICK status \in {"request", "active"} :
             DmBegins(r, "create", u, [status |-> status, requester |-> u])
        BY <2>1 DEF OpenChat
    <3>2. [status |-> status, requester |-> u] \in ChatRows
        BY DEF ChatRows
    <3> QED
        BY <2>1, <3>1, <3>2 DEF OpenChat, DmBegins, Real
  <2>2. CASE DmWrite(r, u)
      BY <1>1, <2>2 DEF DmWrite, DmBegins
  <2>3. CASE AcceptChat(r, u)
      BY <1>1, <2>3 DEF AcceptChat, DmBegins
  <2> QED
      BY <2>1, <2>2, <2>3
<1> DEFINE b == blocks # {}
<1>3. b \in BOOLEAN
    OBVIOUS
<1>4. PICK t \in DmTasks : /\ dm' = [dm EXCEPT ![r] = t] /\ t.pc = pc /\ t.me = u /\ t.row = row
                           /\ (t.blocked => blocks # {})
  <2> DEFINE n == [pc |-> pc, me |-> u, row |-> row, blocked |-> b]
  <2>1. (n.blocked => blocks # {}) /\ dm' = [dm EXCEPT ![r] = n]
      BY <1>2
  <2> HIDE DEF b
  <2>2. n \in DmTasks /\ n.pc = pc /\ n.me = u /\ n.row = row
      BY <1>3 DEF DmTasks
  <2> HIDE DEF n
  <2> QED
      BY <2>1, <2>2
<1>5. row.status = "active" /\ pc # "create" => agreed
    BY <1>2 DEF DmInv, ActiveMeansAgreed
<1>6. row.requester \in DmUsers /\ row.status \in Real
    BY <1>1, <1>2 DEF DmInv, ChatRows, Real
<1>7. DmTaskOK(t)'
    BY <1>1, <1>2, <1>4, <1>5, <1>6 DEF DmTaskOK, Counting
<1>8. \A s \in DmRequests : ~Overlap(t, dm[s])
    BY <1>2, <1>4 DEF Overlap, Counting
<1> QED
    BY <1>1, <1>2, <1>4, <1>7, <1>8, DmReads

\* Only the place of the request in its program changes.
LEMMA DmGoesTask ==
    ASSUME DmInv, NEW r \in DmRequests, NEW pc \in {"cool", "count", "touch"}, DmGoes(r, pc)
    PROVE  \E t \in DmTasks : /\ dm' = [dm EXCEPT ![r] = t] /\ t.pc = pc /\ t.me = dm[r].me
                              /\ t.row = dm[r].row /\ t.blocked = dm[r].blocked
<1> DEFINE t == [dm[r] EXCEPT !.pc = pc]
<1>1. dm \in [DmRequests -> DmTasks]
    BY DEF DmInv, DmTypeOK, DmTasks
<1>2. t \in DmTasks
    BY <1>1 DEF DmTasks
<1>3. t.pc = pc /\ t.me = dm[r].me /\ t.row = dm[r].row
    BY <1>1 DEF DmTasks
<1>4. t.blocked = dm[r].blocked
    BY <1>1 DEF DmTasks
<1>5. dm' = [dm EXCEPT ![r] = t]
    BY <1>1 DEF DmGoes
<1> HIDE DEF t
<1> QED
    BY <1>2, <1>3, <1>4, <1>5

\* The blocks are looked at, and the cooldown taken, before anything is counted.
LEMMA DmChecksOK ==
    ASSUME DmInv, NEW r \in DmRequests, CheckBlocks(r) \/ TakeCooldown(r)
    PROVE  DmInv'
<1> DEFINE w == dm[r]
<1>1. /\ UNCHANGED <<chat, blocks, sent, agreed, unwanted>> /\ cooling \subseteq DmUsers
      /\ w.pc \in {"access", "cool"} /\ DmTaskOK(w) /\ w.me \in DmUsers /\ chat.status # "none"
    BY DEF CheckBlocks, TakeCooldown, DmInv, DmTypeOK, DmTaskOK
<1>2. cooling \subseteq cooling' /\ cooling' \subseteq DmUsers
    BY <1>1 DEF CheckBlocks, TakeCooldown
<1>3. CASE DmEnds(r)
    BY <1>1, <1>2, <1>3, DmRests
<1>4. CASE CheckBlocks(r) /\ ~DmEnds(r)
  <2>1. blocks = {} /\ DmGoes(r, "cool") /\ w.pc = "access"
      BY <1>4 DEF CheckBlocks, blockedEitherWay
  <2>2. PICK t \in DmTasks : /\ dm' = [dm EXCEPT ![r] = t] /\ t.pc = "cool" /\ t.me = w.me
                             /\ t.row = w.row /\ t.blocked = w.blocked
      BY <2>1, DmGoesTask
  <2>3. DmTaskOK(t)'
      BY <1>1, <1>2, <2>1, <2>2 DEF DmTaskOK, Counting
  <2>4. \A s \in DmRequests : ~Overlap(t, dm[s])
      BY <2>2 DEF Overlap, Counting
  <2> QED
      BY <1>1, <1>2, <2>2, <2>3, <2>4, DmReads
<1>5. CASE TakeCooldown(r) /\ ~DmEnds(r)
  <2>1. w.me \notin cooling /\ DmGoes(r, "count") /\ w.pc = "cool" /\ w.me \in cooling'
      BY <1>5 DEF TakeCooldown
  <2>2. PICK t \in DmTasks : /\ dm' = [dm EXCEPT ![r] = t] /\ t.pc = "count" /\ t.me = w.me
                             /\ t.row = w.row /\ t.blocked = w.blocked
      BY <2>1, DmGoesTask
  <2>3. DmTaskOK(t)'
      BY <1>1, <1>2, <2>1, <2>2 DEF DmTaskOK, Counting
  <2>4. ~SlowWrites => \A s \in DmRequests : dm[s].pc \in Counting => dm[s].me \in cooling
      BY DEF DmInv, DmTaskOK
  <2>5. ~SlowWrites => \A s \in DmRequests : ~Overlap(t, dm[s])
      BY <2>1, <2>2, <2>4 DEF Overlap
  <2> QED
      BY <1>1, <1>2, <2>2, <2>3, <2>5, DmReads
<1> QED
    BY <1>3, <1>4, <1>5

\* The messages of a request are counted, and its status decided on the row it read.
LEMMA CheckRequestOK ==
    ASSUME DmInv, NEW r \in DmRequests, CheckRequest(r)
    PROVE  DmInv'
<1> DEFINE w == dm[r]
           mine == w.row.status = "request" /\ w.row.requester = w.me
<1>1. /\ UNCHANGED <<chat, blocks, sent, cooling, agreed, unwanted>> /\ cooling \subseteq DmUsers
      /\ w.pc = "count" /\ DmTaskOK(w) /\ w.me \in DmUsers /\ chat.status # "none" /\ w \in DmTasks
      /\ dm \in [DmRequests -> DmTasks] /\ w.row.requester = chat.requester /\ w.row.status \in Real
    BY DEF CheckRequest, DmInv, DmTypeOK, DmTaskOK, DmTasks
<1>2. CASE DmEnds(r)
    BY <1>1, <1>2, DmRests
<1>3. CASE ~DmEnds(r)
  <2> DEFINE st == StatusAfter(w.me, w.row)
             row == [w.row EXCEPT !.status = st]
             n == [w EXCEPT !.pc = "insert", !.row = row]
  <2>0. st \in Real /\ (st = "active" => w.row.status = "active" \/ w.row.requester # w.me)
      BY <1>1 DEF StatusAfter, Real
  <2> HIDE DEF st
  <2>1. row \in ChatRows /\ row.status = st /\ row.requester = w.row.requester
    <3>1. w.row \in ChatRows
        BY <1>1 DEF DmTasks
    <3> QED
        BY <2>0, <3>1 DEF ChatRows, Real
  <2>2. dm' = [dm EXCEPT ![r] = n] /\ (mine => sent[w.me] < RequestMessagesMax)
    <3>1. /\ dm' = [dm EXCEPT ![r].pc = "insert", ![r].row.status = st]
          /\ mine => sent[w.me] < RequestMessagesMax
        BY <1>3 DEF CheckRequest, st
    <3> QED
        BY <1>1, <3>1 DEF DmTasks
  <2> HIDE DEF row
  <2>3. n \in DmTasks /\ n.pc = "insert" /\ n.me = w.me /\ n.row = row /\ n.blocked = w.blocked
    <3>1. n \in DmTasks /\ n.pc = "insert" /\ n.me = w.me /\ n.row = row
        BY <1>1, <2>1 DEF DmTasks
    <3>2. n.blocked = w.blocked
        BY <1>1 DEF DmTasks
    <3> QED
        BY <3>1, <3>2
  <2>4. PICK t \in DmTasks : /\ dm' = [dm EXCEPT ![r] = t] /\ t.pc = "insert" /\ t.me = w.me
                             /\ t.row = row /\ t.blocked = w.blocked
    <3> HIDE DEF n
    <3> QED
        BY <2>2, <2>3
  <2>5. ~w.blocked /\ (w.row.status = "active" => agreed) /\ (~SlowWrites => w.me \in cooling)
      BY <1>1 DEF DmTaskOK, Counting
  <2>6. w.me = chat.requester /\ ~agreed => sent[w.me] < RequestMessagesMax
      BY <1>1, <2>2, <2>5 DEF Real
  <2>7. DmTaskOK(t)'
      BY <1>1, <2>0, <2>1, <2>4, <2>5, <2>6 DEF DmTaskOK
  <2>8. ~SlowWrites => \A s \in DmRequests : s # r => ~Overlap(t, dm[s])
      BY <1>1, <2>4 DEF DmInv, Overlap, Counting
  <2> QED
      BY <1>1, <2>4, <2>7, <2>8, DmReads
<1> QED
    BY <1>2, <1>3

\* The one request of a user that has counted inserts the message.
LEMMA InsertMessageOK ==
    ASSUME DmInv, NEW r \in DmRequests, InsertMessage(r)
    PROVE  DmInv'
<1> DEFINE w == dm[r]
<1>1. /\ UNCHANGED <<chat, blocks, cooling, agreed>> /\ cooling \subseteq DmUsers
      /\ w.pc = "insert" /\ DmTaskOK(w) /\ w.me \in DmUsers /\ chat.status # "none"
      /\ sent[w.me] < MaxDm /\ sent' = [sent EXCEPT ![w.me] = sent[w.me] + 1]
      /\ sent \in [DmUsers -> 0..MaxDm] /\ DmGoes(r, "touch")
      /\ chat \in ChatRows /\ agreed \in BOOLEAN /\ chat.requester \in DmUsers
    BY DEF InsertMessage, DmInv, DmTypeOK, DmTaskOK
<1>2. unwanted' = FALSE
  <2>1. ~w.blocked /\ ~unwanted
      BY <1>1 DEF DmTaskOK, DmInv, BlockHolds
  <2> QED
      BY <2>1 DEF InsertMessage
<1>3. PICK t \in DmTasks : /\ dm' = [dm EXCEPT ![r] = t] /\ t.pc = "touch" /\ t.me = w.me
                           /\ t.row = w.row /\ t.blocked = w.blocked
    BY <1>1, DmGoesTask
<1>4. sent' \in [DmUsers -> 0..MaxDm] /\ \A u \in DmUsers : sent'[u] = IF u = w.me THEN sent[u] + 1 ELSE sent[u]
    BY <1>1, DmAssumption
<1>5. ~SlowWrites => RequestCapped'
    BY <1>1, <1>4, DmAssumption DEF DmInv, RequestCapped, DmTaskOK
<1>6. ActiveMeansAgreed'
    BY <1>1 DEF DmInv, ActiveMeansAgreed
<1>7. DmTaskOK(t)'
    BY <1>1, <1>3 DEF DmTaskOK, Counting
<1>8. \A s \in DmRequests : ~Overlap(t, dm[s])
    BY <1>3 DEF Overlap, Counting
<1> QED
    BY <1>1, <1>2, <1>3, <1>4, <1>5, <1>6, <1>7, <1>8, DmStep

\* The writes to the row: a new chat, the status after a message, an acceptance.
LEMMA RowWritesOK ==
    ASSUME DmInv, NEW r \in DmRequests, CreateChat(r) \/ TouchChat(r) \/ AcceptUpdate(r)
    PROVE  DmInv'
<1> DEFINE w == dm[r]
<1>1. /\ UNCHANGED <<blocks, sent, cooling, unwanted>> /\ cooling \subseteq DmUsers
      /\ w \in DmTasks /\ w.pc \in {"create", "touch", "accept"} /\ DmTaskOK(w) /\ w.me \in DmUsers
      /\ w.row.requester \in DmUsers /\ w.row.status \in Real /\ w.row \in ChatRows
      /\ sent \in [DmUsers -> 0..MaxDm] /\ unwanted = FALSE
      /\ dm' = [dm EXCEPT ![r] = DmRest] /\ chat \in ChatRows /\ agreed \in BOOLEAN
    BY DEF CreateChat, TouchChat, AcceptUpdate, DmEnds, DmInv, DmTypeOK, DmTaskOK, DmTasks, BlockHolds
<1>2. DmTaskOK(DmRest)'
    BY DmRestOK DEF DmTaskOK, Counting, DmRest
<1>3. \A s \in DmRequests : ~Overlap(DmRest, dm[s])
    BY DmRestOK DEF Overlap, Counting
<1>4. CASE UNCHANGED <<chat, agreed>>
    BY <1>1, <1>2, <1>3, <1>4, DmRestOK, DmReads
<1>5. CASE CreateChat(r) /\ ~UNCHANGED <<chat, agreed>>
  <2>1. chat.status = "none" /\ chat' = w.row /\ agreed' = (w.row.status = "active")
      BY <1>5 DEF CreateChat
  <2>2. ActiveMeansAgreed' /\ agreed' \in BOOLEAN
      BY <2>1 DEF ActiveMeansAgreed
  <2>3. RequestCapped'
      BY <1>1, <2>1, DmAssumption DEF RequestCapped, DmInv
  <2>4. chat' \in ChatRows /\ chat'.requester \in DmUsers /\ chat'.status # "none"
      BY <1>1, <2>1 DEF Real
  <2> QED
      BY <1>1, <1>2, <1>3, <2>1, <2>2, <2>3, <2>4, DmRestOK, DmStep
<1>6. CASE (TouchChat(r) \/ AcceptUpdate(r)) /\ ~UNCHANGED <<chat, agreed>>
  <2>1. PICK st \in Real : /\ chat' = [chat EXCEPT !.status = st]
                           /\ st = "active" => agreed'
                           /\ agreed => agreed'
                           /\ agreed' \in BOOLEAN
    <3>1. CASE TouchChat(r)
      <4>1. w.pc = "touch" /\ chat' = [chat EXCEPT !.status = w.row.status]
            /\ agreed' = (agreed \/ w.me # chat.requester)
          BY <3>1 DEF TouchChat
      <4>2. w.row.status = "active" => agreed'
          BY <1>1, <4>1 DEF DmTaskOK
      <4> QED
          BY <1>1, <4>1, <4>2
    <3>2. CASE AcceptUpdate(r)
        BY <3>2 DEF AcceptUpdate, Real
    <3> QED
        BY <1>6, <3>1, <3>2
  <2>2. chat.status # "none" /\ chat.requester \in DmUsers
      BY <1>1, <1>6 DEF TouchChat, AcceptUpdate, DmTaskOK, DmInv
  <2>3. chat' \in ChatRows /\ chat'.requester = chat.requester /\ chat'.status = st /\ st # "none"
      BY <1>1, <2>1 DEF ChatRows, Real
  <2>4. ActiveMeansAgreed'
      BY <2>1, <2>3 DEF ActiveMeansAgreed
  <2>5. ~SlowWrites => RequestCapped'
      BY <1>1, <2>1, <2>2, <2>3 DEF RequestCapped, DmInv
  <2> QED
      BY <1>1, <1>2, <1>3, <2>1, <2>2, <2>3, <2>4, <2>5, DmRestOK, DmStep
<1> QED
    BY <1>4, <1>5, <1>6

\* Blocks, their end and the end of a cooldown.
LEMMA AroundChatOK ==
    ASSUME DmInv, NEW u \in DmUsers, BlockUser(u) \/ UnblockUser(u) \/ CooldownEnds(u)
    PROVE  DmInv'
<1>0. dm \in [DmRequests -> DmTasks] /\ UNCHANGED <<chat, sent, agreed, unwanted>>
    BY DEF DmInv, DmTypeOK, DmTasks, BlockUser, UnblockUser, CooldownEnds
<1>1. /\ cooling' \subseteq DmUsers /\ blocks' \subseteq DmUsers
      /\ \A r \in DmRequests : ~SlowWrites /\ dm[r].pc \in Counting /\ dm[r].me \in cooling =>
                                 dm[r].me \in cooling'
    BY DEF DmInv, DmTypeOK, BlockUser, UnblockUser, CooldownEnds, Counting
<1>2. dm' \in [DmRequests -> DmTasks]
      /\ \A r \in DmRequests : /\ dm'[r].pc = dm[r].pc /\ dm'[r].me = dm[r].me /\ dm'[r].row = dm[r].row
                               /\ dm'[r].blocked => dm[r].blocked /\ blocks' # {}
  <2>1. CASE BlockUser(u) \/ CooldownEnds(u)
    <3>1. dm' = dm /\ (blocks # {} => blocks' # {})
        BY <2>1 DEF BlockUser, CooldownEnds
    <3>2. \A r \in DmRequests : dm[r].blocked => blocks # {}
        BY DEF DmInv, DmTaskOK
    <3> QED
        BY <1>0, <3>1, <3>2
  <2>2. CASE UnblockUser(u)
    <3>1. dm' = [r \in DmRequests |-> [dm[r] EXCEPT !.blocked = dm[r].blocked /\ blocks' # {}]]
        BY <2>2 DEF UnblockUser
    <3>2. ASSUME NEW r \in DmRequests
          PROVE  /\ dm'[r] \in DmTasks
                 /\ dm'[r].pc = dm[r].pc /\ dm'[r].me = dm[r].me /\ dm'[r].row = dm[r].row
                 /\ dm'[r].blocked => dm[r].blocked /\ blocks' # {}
      <4> DEFINE b == dm[r].blocked /\ blocks' # {}
      <4>1. b \in BOOLEAN /\ (b => dm[r].blocked /\ blocks' # {})
          OBVIOUS
      <4>2. dm'[r] = [dm[r] EXCEPT !.blocked = b]
          BY <3>1
      <4> HIDE DEF b
      <4>3. /\ dm'[r] \in DmTasks /\ dm'[r].pc = dm[r].pc /\ dm'[r].me = dm[r].me
            /\ dm'[r].row = dm[r].row /\ dm'[r].blocked = b
          BY <1>0, <4>1, <4>2 DEF DmTasks
      <4> QED
          BY <4>1, <4>3
    <3>3. DOMAIN dm' = DmRequests /\ dm' = [r \in DmRequests |-> dm'[r]]
        BY <3>1
    <3> QED
        BY <3>2, <3>3
  <2> QED
      BY <2>1, <2>2
<1>3. DmTypeOK' /\ ActiveMeansAgreed' /\ BlockHolds' /\ (~SlowWrites => RequestCapped')
    BY <1>0, <1>1, <1>2
    DEF DmInv, DmTypeOK, DmTasks, ActiveMeansAgreed, BlockHolds, RequestCapped
<1>4. ASSUME NEW r \in DmRequests PROVE DmTaskOK(dm[r])'
  <2>1. DmTaskOK(dm[r])
      BY DEF DmInv
  <2> QED
      BY <1>0, <1>1, <1>2, <2>1 DEF DmTaskOK
<1>5. ~SlowWrites => \A p, s \in DmRequests : p # s => ~Overlap(dm'[p], dm'[s])
    BY <1>2 DEF DmInv, Overlap
<1> QED
    BY <1>0, <1>2, <1>3, <1>4, <1>5 DEF DmInv, Overlap

\* Every step of a chat keeps the invariant.
LEMMA DmInvStep == DmInv /\ [DmNext]_dmVars => DmInv'
<1> SUFFICES ASSUME DmInv, [DmNext]_dmVars PROVE DmInv'
    OBVIOUS
<1>1. ASSUME NEW r \in DmRequests, CutOff(r) PROVE DmInv'
    BY <1>1, DmRests DEF CutOff, DmInv, DmTypeOK
<1>2. ASSUME UNCHANGED dmVars PROVE DmInv'
    BY <1>2 DEF dmVars, DmInv, DmTypeOK, ActiveMeansAgreed, BlockHolds, RequestCapped, DmTaskOK, Overlap
<1> QED
    BY <1>1, <1>2, DmBeginsOK, DmChecksOK, CheckRequestOK, InsertMessageOK, RowWritesOK, AroundChatOK
    DEF DmNext

\* For any number of requests, as long as a write takes no longer than the cooldown: who asks
\* for a chat writes no more than the limit, a chat is active only when the other side agreed,
\* and who is blocked adds nothing.
THEOREM DmSafetyHolds == ~SlowWrites => (DmSpec => [](DmTypeOK /\ DmSafety))
<1> SUFFICES ASSUME ~SlowWrites PROVE DmSpec => [](DmTypeOK /\ DmSafety)
    OBVIOUS
<1>1. DmInv => DmTypeOK /\ DmSafety
    BY DEF DmInv, DmSafety
<1> QED
    BY <1>1, DmInvInit, DmInvStep, PTL DEF DmSpec

\* However slow the writes are, a chat is never active by its requester's doing alone, and a
\* block holds.
THEOREM DmAgreementHolds == DmSpec => [](ActiveMeansAgreed /\ BlockHolds)
<1>1. DmInv => ActiveMeansAgreed /\ BlockHolds
    BY DEF DmInv
<1> QED
    BY <1>1, DmInvInit, DmInvStep, PTL DEF DmSpec

-----------------------------------------------------------------------------
(* Calls *)

Starters == {q \in CallRequests : Starting(q)}

\* What a request has in hand: a record of a call that was started, and, while the lock is
\* honoured, the record that is stored, unless an end deleted it.
CallTaskOK(t) ==
  /\ t.pc \in {"tidy", "lock", "write", "seen"} => t.user \in CallUsers
  /\ t.pc \in {"end", "post"} => t.snap # NoCall
  /\ t.pc \in {"write", "end", "post"} /\ t.snap # NoCall => t.snap.id <= callIds
  /\ ~bypassed /\ t.pc = "write" => /\ callLock /\ call \in {t.snap, NoCall}
                                    /\ t.snap # NoCall => t.snap.id = callIds

CallsInv ==
  /\ CallsTypeOK /\ NoSilentEnd
  /\ IsFiniteSet(Starters) /\ callIds + Cardinality(Starters) <= MaxCallIds
  /\ call # NoCall => call.id <= callIds /\ (~bypassed => call.id = callIds)
  /\ \A r \in CallRequests : CallTaskOK(callReq[r])
  /\ ~bypassed => \A r, s \in CallRequests : callReq[r].pc = "write" /\ callReq[s].pc = "write" => r = s

\* A request at rest has nothing in hand.
LEMMA IdleCallOK == IdleCall \in CallTask /\ IdleCall.pc = "idle"
BY DEF IdleCall, CallTask, CallOps

\* There is no call at the start.
LEMMA CallsInvInit == CallsInit => CallsInv
<1> SUFFICES ASSUME CallsInit PROVE CallsInv
    OBVIOUS
<1>1. \A r \in CallRequests : callReq[r] = IdleCall /\ callReq[r].pc = "idle"
    BY IdleCallOK DEF CallsInit
<1>2. CallsTypeOK
  <2>1. callReq \in [CallRequests -> CallTask] /\ callIds \in 0..MaxCallIds
      BY IdleCallOK, CallsAssumption DEF CallsInit
  <2> QED
      BY <2>1 DEF CallsInit, CallsTypeOK
<1>3. Starters = {}
    BY <1>1 DEF Starters, Starting
<1>4. IsFiniteSet(Starters) /\ Cardinality(Starters) = 0 /\ MaxCallIds \in Nat
    BY <1>3, FS_EmptySet, CallsAssumption
<1>5. NoSilentEnd
    BY DEF CallsInit, NoSilentEnd
<1>6. \A r \in CallRequests : CallTaskOK(callReq[r])
    BY <1>1 DEF CallTaskOK
<1> QED
    BY <1>1, <1>2, <1>4, <1>5, <1>6 DEF CallsInv, CallsInit

\* What is posted, cut off or about to be posted stays so.
LEMMA ToldStays ==
    ASSUME CallsTypeOK, NEW r \in CallRequests, NEW n \in CallTask, callReq' = [callReq EXCEPT ![r] = n],
           lined \subseteq lined', cut \subseteq cut',
           callReq[r].pc = "post" => callReq[r].snap.id \in lined' \cup cut'
    PROVE  \A i : Told(i) => Told(i)'
<1>1. \A s \in CallRequests : s # r => callReq'[s] = callReq[s]
    BY DEF CallsTypeOK
<1> QED
    BY <1>1 DEF Told

\* One request goes on; the record stays as it is.
LEMMA CallGoes ==
    ASSUME CallsInv, NEW r \in CallRequests, NEW n \in CallTask, callReq' = [callReq EXCEPT ![r] = n],
           UNCHANGED <<call, callIds>>, callLock' \in BOOLEAN, bypassed' \in BOOLEAN,
           quiet' \subseteq CallUsers, ringOver' \subseteq CallId,
           lined \subseteq lined', lined' \subseteq CallId, cut \subseteq cut', cut' \subseteq CallId,
           callReq[r].pc = "post" => callReq[r].snap.id \in lined' \cup cut',
           bypassed => bypassed', CallTaskOK(n)',
           ~bypassed' /\ (\E s \in CallRequests : s # r /\ callReq[s].pc = "write") =>
             callLock' /\ n.pc # "write",
           (n.op = "start" /\ n.pc # "idle" => Starting(r))
             \/ (IsFiniteSet(Starters') /\ callIds + Cardinality(Starters') <= MaxCallIds)
    PROVE  CallsInv'
<1>0. /\ callReq \in [CallRequests -> CallTask] /\ callIds \in Nat /\ MaxCallIds \in Nat
      /\ \A s \in CallRequests : callReq'[s] = IF s = r THEN n ELSE callReq[s]
    BY CallsAssumption DEF CallsInv, CallsTypeOK
<1>1. CallsTypeOK'
    BY <1>0 DEF CallsInv, CallsTypeOK
<1>2. IsFiniteSet(Starters') /\ callIds + Cardinality(Starters') <= MaxCallIds
  <2>1. CASE n.op = "start" /\ n.pc # "idle" => Starting(r)
    <3>1. Starters' \subseteq Starters
        BY <1>0, <2>1 DEF Starters, Starting
    <3>2. IsFiniteSet(Starters) /\ callIds + Cardinality(Starters) <= MaxCallIds
        BY DEF CallsInv
    <3>3. IsFiniteSet(Starters') /\ Cardinality(Starters') <= Cardinality(Starters)
        BY <3>1, <3>2, FS_Subset
    <3>4. Cardinality(Starters') \in Nat /\ Cardinality(Starters) \in Nat
        BY <3>2, <3>3, FS_CardinalityType
    <3> QED
        BY <1>0, <3>2, <3>3, <3>4
  <2> QED
      BY <2>1
<1>3. NoSilentEnd'
  <2>1. \A i : Told(i) => Told(i)'
      BY ToldStays DEF CallsInv
  <2> QED
      BY <2>1 DEF CallsInv, NoSilentEnd, Gone
<1>4. ASSUME NEW s \in CallRequests PROVE CallTaskOK(callReq[s])'
  <2>1. CASE s = r
    <3>1. callReq'[s] = n
        BY <1>0, <2>1
    <3> QED
        BY <3>1 DEF CallTaskOK
  <2>2. CASE s # r
    <3>1. callReq'[s] = callReq[s] /\ CallTaskOK(callReq[s])
        BY <1>0, <2>2 DEF CallsInv
    <3>2. ~bypassed' /\ callReq[s].pc = "write" => callLock'
        BY <2>2
    <3> QED
        BY <3>1, <3>2 DEF CallTaskOK
  <2> QED
      BY <2>1, <2>2
<1>5. ~bypassed' => \A p, s \in CallRequests : callReq'[p].pc = "write" /\ callReq'[s].pc = "write" => p = s
    BY <1>0 DEF CallsInv
<1> QED
    BY <1>0, <1>1, <1>2, <1>3, <1>4, <1>5 DEF CallsInv

\* What follows a step of mutate or tidy: rest, another step for the same user, or the end of
\* the record c.
Follows(n, t, c) ==
  /\ n \in CallTask /\ n.op # "start" /\ n.pc \in {"idle", "tidy", "lock", "seen", "end"}
  /\ n.pc \in {"tidy", "lock", "seen"} => n.user = t.user
  /\ n.pc = "end" => n.snap = c

\* The constants of a request that has one step left.
LEMMA RemainingOK ==
    ASSUME NEW pc \in {"idle", "tidy", "lock", "seen"}, NEW op \in CallOps, NEW u \in CallUsers
    PROVE  /\ Remaining(pc, op, u) \in CallTask /\ Remaining(pc, op, u).pc = pc
           /\ Remaining(pc, op, u).op = op /\ Remaining(pc, op, u).user = u
BY DEF Remaining, IdleCall, CallTask, CallOps

\* tidy's caller goes on with its own operation.
LEMMA AfterTidyOK ==
    ASSUME NEW t \in CallTask, t.user \in CallUsers, NEW c
    PROVE  Follows(AfterTidy(t, c), t, c)
<1>1. Follows(IdleCall, t, c)
    BY IdleCallOK DEF Follows, IdleCall
<1>2. /\ Follows(Remaining("lock", "join", t.user), t, c)
      /\ Follows(Remaining("lock", "edit", t.user), t, c)
      /\ Follows(LastStep("seen", t.user), t, c)
    BY RemainingOK DEF Follows, LastStep, CallOps
<1> QED
    BY <1>1, <1>2 DEF AfterTidy

\* How a request goes on after a write.
LEMMA AfterMutateOK ==
    ASSUME NEW t \in CallTask, t.user \in CallUsers, NEW c \in CallRecord \cup {NoCall}
    PROVE  Follows(AfterMutate(t, c), t, c) /\ (AfterMutate(t, c).pc = "end" => c # NoCall)
<1>1. Follows(IdleCall, t, c) /\ IdleCall.pc # "end"
    BY IdleCallOK DEF Follows, IdleCall
<1>2. /\ Follows(Remaining("tidy", "join", t.user), t, c) /\ Follows(LastStep("seen", t.user), t, c)
      /\ Remaining("tidy", "join", t.user).pc # "end" /\ LastStep("seen", t.user).pc # "end"
    BY RemainingOK DEF Follows, LastStep, CallOps
<1>3. Follows(EndOf(c), t, c)
    BY DEF Follows, EndOf, IdleCall, CallTask, CallOps
<1>4. CASE c = NoCall
    BY <1>1, <1>4 DEF AfterMutate
<1>5. CASE c # NoCall /\ t.tidying
    BY <1>3, <1>5, AfterTidyOK DEF AfterMutate
<1>6. CASE c # NoCall /\ ~t.tidying
    BY <1>1, <1>2, <1>3, <1>6 DEF AfterMutate
<1> QED
    BY <1>4, <1>5, <1>6

\* A mutation keeps the call it is given, start alone makes one.
LEMMA EffectOK ==
    ASSUME NEW t \in CallTask, t.user \in CallUsers, NEW c \in CallRecord \cup {NoCall}, callIds \in Nat
    PROVE  /\ c # NoCall => Effect(t, c) \in CallRecord /\ Effect(t, c).id = c.id
           /\ c = NoCall => IF ~t.tidying /\ t.op = "start" THEN Effect(t, c) = NewCall(t.user)
                            ELSE Effect(t, c) = NoCall
           /\ callIds < MaxCallIds => NewCall(t.user) \in CallRecord /\ NewCall(t.user).id = callIds + 1
<1>1. ASSUME c = NoCall
      PROVE  IF ~t.tidying /\ t.op = "start" THEN Effect(t, c) = NewCall(t.user)
             ELSE Effect(t, c) = NoCall
    BY <1>1 DEF Effect
<1>2. ASSUME c # NoCall PROVE Effect(t, c) \in CallRecord /\ Effect(t, c).id = c.id
  <2>0. c \in CallRecord
      BY <1>2
  <2>1. Tidied(c, t) \in CallRecord /\ Tidied(c, t).id = c.id
      BY <2>0 DEF Tidied, CallRecord
  <2>2. Joined(c, t.user) \in CallRecord /\ Joined(c, t.user).id = c.id
    <3> DEFINE b == c.answered \/ t.user # c.startedBy
    <3>1. b \in BOOLEAN
        OBVIOUS
    <3>2. Joined(c, t.user) = [c EXCEPT !.in = c.in \cup {t.user}, !.ringing = c.ringing \ {t.user},
                                        !.answered = b]
        BY DEF Joined
    <3> DEFINE in == c.in \cup {t.user}
               ringing == c.ringing \ {t.user}
    <3>3. in \in SUBSET CallUsers /\ ringing \in SUBSET CallUsers
        BY <2>0 DEF CallRecord
    <3> HIDE DEF b, in, ringing
    <3>4. Joined(c, t.user) = [c EXCEPT !.in = in, !.ringing = ringing, !.answered = b]
        BY <3>2 DEF in, ringing
    <3> QED
        BY <2>0, <3>1, <3>3, <3>4 DEF CallRecord
  <2>3. /\ [c EXCEPT !.in = c.in \ {t.user}, !.ringing = c.ringing \ {t.user}] \in CallRecord
        /\ [c EXCEPT !.in = c.in \ {t.user}, !.ringing = c.ringing \ {t.user}].id = c.id
        /\ [c EXCEPT !.ringing = c.ringing \ {t.user}] \in CallRecord
        /\ [c EXCEPT !.ringing = c.ringing \ {t.user}].id = c.id
      BY <2>0 DEF CallRecord
  <2>4. CASE t.tidying
      BY <1>2, <2>1, <2>4 DEF Effect
  <2>5. CASE ~t.tidying
      BY <1>2, <2>0, <2>2, <2>3, <2>5 DEF Effect
  <2> QED
      BY <2>4, <2>5
<1>3. callIds < MaxCallIds => NewCall(t.user) \in CallRecord /\ NewCall(t.user).id = callIds + 1
    BY CallsAssumption DEF NewCall, CallRecord, CallId
<1> QED
    BY <1>1, <1>2, <1>3

\* The write of the record: while the lock is honoured nobody else is inside, and a call that
\* is gone stays told of.
LEMMA WriteKeeps ==
    ASSUME CallsInv, NEW r \in CallRequests, Write(r)
    PROVE  CallsInv'
<1> DEFINE t == callReq[r]
           c == t.snap
           m == Effect(t, c)
           n == AfterMutate(t, m)
           made == c = NoCall /\ ~t.tidying /\ t.op = "start"
<1>0. /\ callReq \in [CallRequests -> CallTask] /\ callIds \in Nat /\ MaxCallIds \in Nat
      /\ t \in CallTask /\ t.pc = "write" /\ t.user \in CallUsers /\ c \in CallRecord \cup {NoCall}
      /\ CallTaskOK(t) /\ (c # NoCall => c.id <= callIds /\ c \in CallRecord /\ c.id \in Nat)
      /\ IsFiniteSet(Starters) /\ callIds + Cardinality(Starters) <= MaxCallIds
    BY CallsAssumption DEF Write, CallsInv, CallsTypeOK, CallTaskOK, CallTask, CallRecord, CallId
<1>1. /\ call' = m /\ callLock' = FALSE /\ callReq' = [callReq EXCEPT ![r] = n]
      /\ callIds' = (IF m # NoCall /\ m.id > callIds THEN m.id ELSE callIds)
      /\ quiet' \subseteq CallUsers /\ UNCHANGED <<ringOver, lined, bypassed, cut>>
    BY DEF Write, callHistory, CallsInv, CallsTypeOK
<1>2. made => Starting(r)
    BY <1>0 DEF Starting
<1>3. Cardinality(Starters) \in Nat /\ (made => callIds < MaxCallIds)
  <2>1. Cardinality(Starters) \in Nat
      BY <1>0, FS_CardinalityType
  <2>2. made => Cardinality(Starters) # 0
    <3>1. made => r \in Starters
        BY <1>2 DEF Starters
    <3> QED
        BY <1>0, <3>1, FS_EmptySet
  <2> QED
      BY <1>0, <2>1, <2>2
<1>4. /\ c # NoCall => m \in CallRecord /\ m.id = c.id
      /\ made => m \in CallRecord /\ m.id = callIds + 1
      /\ c = NoCall /\ ~made => m = NoCall
    BY <1>0, <1>3, EffectOK
<1> HIDE DEF m
<1>5. /\ callIds' = (IF made THEN callIds + 1 ELSE callIds) /\ m \in CallRecord \cup {NoCall}
      /\ m # NoCall => m.id <= callIds'
    BY <1>0, <1>1, <1>4, NoCallAssumption
<1>6. Follows(n, t, m) /\ (n.pc = "end" => m # NoCall)
    BY <1>0, <1>5, AfterMutateOK
<1> HIDE DEF n
<1>7. n \in CallTask /\ n.op # "start" /\ n.pc \notin {"write", "post"}
    BY <1>6 DEF Follows
<1>8. \A s \in CallRequests : callReq'[s] = IF s = r THEN n ELSE callReq[s]
    BY <1>0, <1>1
<1>9. IsFiniteSet(Starters') /\ callIds' + Cardinality(Starters') <= MaxCallIds
  <2>1. Starters' = Starters \ {r}
      BY <1>7, <1>8 DEF Starters, Starting
  <2>2. /\ IsFiniteSet(Starters \ {r})
        /\ Cardinality(Starters \ {r}) = IF r \in Starters THEN Cardinality(Starters) - 1 ELSE Cardinality(Starters)
      BY <1>0, FS_RemoveElement
  <2>3. made => r \in Starters
      BY <1>2 DEF Starters
  <2> HIDE DEF made
  <2> QED
      BY <1>0, <1>3, <1>5, <2>1, <2>2, <2>3
<1>10. CallsTypeOK'
  <2>1. callIds' \in 0..MaxCallIds
      BY <1>0, <1>3, <1>5 DEF CallsInv, CallsTypeOK
  <2>2. callReq' \in [CallRequests -> CallTask]
      BY <1>0, <1>1, <1>7
  <2> QED
      BY <1>1, <1>5, <2>1, <2>2 DEF CallsInv, CallsTypeOK
<1>11. ~bypassed => (call' # NoCall => call'.id = callIds')
    BY <1>0, <1>1, <1>4, <1>5 DEF CallTaskOK
<1>12. ASSUME NEW s \in CallRequests PROVE CallTaskOK(callReq[s])'
  <2>1. CASE s = r
    <3>1. callReq'[s] = n
        BY <1>8, <2>1
    <3>2. /\ n.pc \in {"tidy", "lock", "write", "seen"} => n.user \in CallUsers
          /\ n.pc \in {"end", "post"} => n.snap # NoCall /\ n.snap.id <= callIds'
        BY <1>0, <1>5, <1>6, <1>7 DEF Follows
    <3> QED
        BY <1>7, <3>1, <3>2 DEF CallTaskOK
  <2>2. CASE s # r
    <3> DEFINE w == callReq[s]
    <3>1. /\ callReq'[s] = w /\ CallTaskOK(w) /\ w \in CallTask /\ (~bypassed => w.pc # "write")
        BY <1>0, <1>8, <2>2 DEF CallsInv
    <3>2. w.pc \in {"write", "end", "post"} /\ w.snap # NoCall => w.snap.id <= callIds'
      <4>1. w.snap # NoCall => w.snap.id \in Nat
          BY <3>1 DEF CallTask, CallRecord, CallId
      <4> QED
          BY <1>0, <1>5, <3>1, <4>1 DEF CallTaskOK
    <3> HIDE DEF w
    <3> QED
        BY <1>1, <3>1, <3>2 DEF CallTaskOK
  <2> QED
      BY <2>1, <2>2
<1>13. NoSilentEnd'
  <2> SUFFICES ASSUME ~CallLounge, ~bypassed', NEW i \in 1..callIds', Gone(i)'
               PROVE  \E j \in 1..i : Told(j)'
      BY DEF NoSilentEnd
  <2>1. ~bypassed /\ i \in 1..callIds /\ Gone(i)
    <3>1. ~bypassed
        BY <1>1
    <3>2. CASE made
        BY <1>0, <1>1, <1>4, <1>5, <3>1, <3>2, NoCallAssumption DEF Gone, CallTaskOK
    <3>3. CASE c # NoCall
        BY <1>0, <1>1, <1>4, <1>5, <3>1, <3>3, NoCallAssumption DEF Gone, CallTaskOK
    <3>4. CASE c = NoCall /\ ~made
        BY <1>0, <1>1, <1>4, <1>5, <3>1, <3>4, NoCallAssumption DEF Gone, CallTaskOK
    <3> QED
        BY <3>2, <3>3, <3>4
  <2>2. \A j : Told(j) => Told(j)'
      BY <1>0, <1>1, <1>7, ToldStays DEF CallsInv
  <2> QED
      BY <2>1, <2>2 DEF CallsInv, NoSilentEnd
<1>14. ~bypassed' => \A p, s \in CallRequests : callReq'[p].pc = "write" /\ callReq'[s].pc = "write" => p = s
    BY <1>1, <1>7, <1>8 DEF CallsInv
<1>15. call' # NoCall => call'.id <= callIds'
    BY <1>1, <1>5
<1> QED
    BY <1>1, <1>9, <1>10, <1>11, <1>12, <1>13, <1>14, <1>15 DEF CallsInv

\* end deletes whatever call is stored; its own call, or an earlier one, is told of.
LEMMA EndKeeps ==
    ASSUME CallsInv, NEW r \in CallRequests, End(r)
    PROVE  CallsInv'
<1> DEFINE t == callReq[r]
           n == IF CallLounge THEN IdleCall ELSE [t EXCEPT !.pc = "post"]
<1>0. /\ callReq \in [CallRequests -> CallTask] /\ callIds \in Nat /\ MaxCallIds \in Nat
      /\ t \in CallTask /\ t.pc = "end" /\ t.snap # NoCall /\ t.snap \in CallRecord /\ t.snap.id <= callIds
      /\ IsFiniteSet(Starters) /\ callIds + Cardinality(Starters) <= MaxCallIds
    BY CallsAssumption DEF End, CallsInv, CallsTypeOK, CallTaskOK, CallTask
<1>1. /\ call' = NoCall /\ callReq' = [callReq EXCEPT ![r] = n] /\ quiet' = {}
      /\ UNCHANGED <<callLock, ringOver, callIds, lined, bypassed, cut>>
    BY DEF End, callHistory
<1>2. /\ n \in CallTask /\ n.pc \in {"idle", "post"} /\ (n.pc = "post" => n.snap = t.snap /\ n.op = t.op)
      /\ ~CallLounge => n.pc = "post"
  <2>1. CASE CallLounge
      BY <2>1, IdleCallOK
  <2>2. CASE ~CallLounge
      BY <1>0, <2>2 DEF CallTask
  <2> QED
      BY <2>1, <2>2
<1> HIDE DEF n
<1>3. \A s \in CallRequests : callReq'[s] = IF s = r THEN n ELSE callReq[s]
    BY <1>0, <1>1
<1>4. CallsTypeOK'
    BY <1>0, <1>1, <1>2 DEF CallsInv, CallsTypeOK
<1>5. IsFiniteSet(Starters') /\ callIds' + Cardinality(Starters') <= MaxCallIds
  <2>1. Starters' \subseteq Starters
      BY <1>0, <1>2, <1>3 DEF Starters, Starting
  <2>2. IsFiniteSet(Starters') /\ Cardinality(Starters') <= Cardinality(Starters)
      BY <1>0, <2>1, FS_Subset
  <2>3. Cardinality(Starters') \in Nat /\ Cardinality(Starters) \in Nat
      BY <1>0, <2>2, FS_CardinalityType
  <2> QED
      BY <1>0, <1>1, <2>2, <2>3
<1>6. ASSUME NEW s \in CallRequests PROVE CallTaskOK(callReq[s])'
  <2>1. CASE s = r
      BY <1>0, <1>1, <1>2, <1>3, <2>1 DEF CallTaskOK
  <2>2. CASE s # r
    <3>1. callReq'[s] = callReq[s] /\ CallTaskOK(callReq[s])
        BY <1>3, <2>2 DEF CallsInv
    <3> QED
        BY <1>1, <3>1 DEF CallTaskOK
  <2> QED
      BY <2>1, <2>2
<1>7. NoSilentEnd'
  <2> SUFFICES ASSUME ~CallLounge, ~bypassed, NEW i \in 1..callIds
               PROVE  \E j \in 1..i : Told(j)'
      BY <1>1 DEF NoSilentEnd
  <2>1. CASE t.snap.id <= i
    <3>1. PICK j \in 1..i : j = t.snap.id
        BY <1>0, <2>1 DEF CallRecord, CallId
    <3>2. Told(j)'
        BY <1>2, <1>3, <3>1 DEF Told
    <3> QED
        BY <3>1, <3>2
  <2>2. CASE ~(t.snap.id <= i)
    <3>1. Gone(i)
        BY <1>0, <2>2 DEF Gone, CallsInv, CallRecord, CallId
    <3>2. \A j : Told(j) => Told(j)'
        BY <1>0, <1>1, <1>2, ToldStays DEF CallsInv
    <3> QED
        BY <3>1, <3>2 DEF CallsInv, NoSilentEnd
  <2> QED
      BY <2>1, <2>2
<1>8. ~bypassed' => \A p, s \in CallRequests : callReq'[p].pc = "write" /\ callReq'[s].pc = "write" => p = s
    BY <1>1, <1>2, <1>3 DEF CallsInv
<1> QED
    BY <1>1, <1>4, <1>5, <1>6, <1>7, <1>8 DEF CallsInv

\* A request that begins, or looks at the call through tidy.
LEMMA CallBeginsKeeps ==
    ASSUME CallsInv, NEW r \in CallRequests, (\E op \in CallOps, u \in CallUsers : Request(r, op, u)) \/ tidy(r)
    PROVE  CallsInv'
<1>0. /\ callReq \in [CallRequests -> CallTask] /\ callIds \in Nat /\ MaxCallIds \in Nat
      /\ quiet \subseteq CallUsers /\ ringOver \subseteq CallId /\ lined \subseteq CallId
      /\ cut \subseteq CallId /\ callLock \in BOOLEAN /\ bypassed \in BOOLEAN
      /\ IsFiniteSet(Starters) /\ callIds + Cardinality(Starters) <= MaxCallIds
      /\ UNCHANGED <<call, callLock, quiet, ringOver, callIds, lined, bypassed, cut>>
      /\ ~bypassed /\ (\E s \in CallRequests : callReq[s].pc = "write") => callLock
  <2>1. UNCHANGED <<call, callLock, quiet, ringOver, callIds, lined, bypassed, cut>>
      BY DEF Request, tidy, callHistory
  <2>2. ~bypassed /\ (\E s \in CallRequests : callReq[s].pc = "write") => callLock
      BY DEF CallsInv, CallTaskOK
  <2> QED
      BY <2>1, <2>2, CallsAssumption DEF CallsInv, CallsTypeOK
<1>1. ASSUME NEW op \in CallOps, NEW u \in CallUsers, Request(r, op, u) PROVE CallsInv'
  <2> DEFINE p == IF op \in TidyFirst THEN "tidy" ELSE "lock"
             n == Remaining(p, op, u)
  <2>1. n \in CallTask /\ n.pc \in {"tidy", "lock"} /\ n.op = op /\ n.user = u
      BY RemainingOK
  <2>2. callReq' = [callReq EXCEPT ![r] = n] /\ callReq[r].pc = "idle"
      BY <1>1 DEF Request
  <2> HIDE DEF n
  <2>3. CallTaskOK(n)'
    <3>1. n' = n
        BY DEF n, Remaining, IdleCall
    <3> QED
        BY <2>1, <3>1 DEF CallTaskOK
  <2>4. CASE op # "start"
      BY <1>0, <2>1, <2>2, <2>3, <2>4, CallGoes
  <2>5. CASE op = "start"
    <3>1. Starters' = Starters \cup {r} /\ r \notin Starters
        BY <1>0, <2>1, <2>2, <2>5 DEF Starters, Starting
    <3>2. callIds + Cardinality(Starters) < MaxCallIds
        BY <1>1, <2>5 DEF Request, Starters
    <3>3. IsFiniteSet(Starters') /\ Cardinality(Starters') = Cardinality(Starters) + 1
          /\ Cardinality(Starters) \in Nat
        BY <1>0, <3>1, FS_AddElement, FS_CardinalityType
    <3>4. callIds + Cardinality(Starters') <= MaxCallIds
        BY <1>0, <3>2, <3>3
    <3> QED
        BY <1>0, <2>1, <2>2, <2>3, <3>3, <3>4, CallGoes
  <2> QED
      BY <2>4, <2>5
<1>2. CASE tidy(r)
  <2> DEFINE t == callReq[r]
             alive == call.in \ quiet
             over == call.id \in ringOver
             late == [t EXCEPT !.pc = "lock", !.tidying = TRUE, !.alive = alive, !.over = over]
  <2>1. t \in CallTask /\ t.pc = "tidy" /\ t.user \in CallUsers /\ call \in CallRecord \cup {NoCall}
      BY <1>0, <1>2 DEF tidy, CallsInv, CallsTypeOK, CallTaskOK
  <2>2. call # NoCall => late \in CallTask /\ late.pc = "lock" /\ late.op = t.op /\ late.user = t.user
    <3>1. call # NoCall => alive \in SUBSET CallUsers
        BY <2>1 DEF CallRecord
    <3>2. over \in BOOLEAN
        OBVIOUS
    <3> HIDE DEF alive, over
    <3> QED
        BY <2>1, <3>1, <3>2 DEF CallTask
  <2>3. \/ callReq' = [callReq EXCEPT ![r] = IdleCall]
        \/ callReq' = [callReq EXCEPT ![r] = AfterTidy(t, call)]
        \/ callReq' = [callReq EXCEPT ![r] = late] /\ call # NoCall
      BY <1>2 DEF tidy
  <2>4. Follows(AfterTidy(t, call), t, call) /\ AfterTidy(t, call).pc # "end"
    <3>1. AfterTidy(t, call).pc # "end"
        BY <2>1, IdleCallOK, RemainingOK DEF AfterTidy, LastStep, CallOps
    <3> QED
        BY <2>1, <3>1, AfterTidyOK
  <2>5. PICK n \in CallTask : /\ callReq' = [callReq EXCEPT ![r] = n] /\ n.pc \in {"idle", "lock", "seen"}
                              /\ n.pc # "idle" => n.user = t.user /\ (n.op = "start" => t.op = "start")
    <3> HIDE DEF late
    <3>1. CASE callReq' = [callReq EXCEPT ![r] = IdleCall]
        BY <3>1, IdleCallOK
    <3>2. CASE callReq' = [callReq EXCEPT ![r] = AfterTidy(t, call)]
      <4>1. AfterTidy(t, call).pc \in {"idle", "lock", "seen"}
          BY <2>1, IdleCallOK, RemainingOK DEF AfterTidy, LastStep, CallOps
      <4> QED
          BY <2>4, <3>2, <4>1 DEF Follows
    <3>3. CASE callReq' = [callReq EXCEPT ![r] = late] /\ call # NoCall
        BY <2>2, <3>3
    <3> QED
        BY <2>3, <3>1, <3>2, <3>3
  <2>6. CallTaskOK(n)'
      BY <2>1, <2>5 DEF CallTaskOK
  <2>7. n.op = "start" /\ n.pc # "idle" => Starting(r)
      BY <2>1, <2>5 DEF Starting
  <2> QED
      BY <1>0, <2>1, <2>5, <2>6, <2>7, CallGoes
<1> QED
    BY <1>1, <1>2

\* A request enters the section that the lock guards, with the lock or without it.
LEMMA EnterKeeps ==
    ASSUME CallsInv, NEW r \in CallRequests, Acquire(r) \/ GiveUpWaiting(r)
    PROVE  CallsInv'
<1> DEFINE t == callReq[r]
           m == [t EXCEPT !.pc = "write", !.snap = call]
<1>0. /\ callReq \in [CallRequests -> CallTask] /\ t \in CallTask /\ t.pc = "lock" /\ t.user \in CallUsers
      /\ quiet \subseteq CallUsers /\ ringOver \subseteq CallId /\ lined \subseteq CallId
      /\ cut \subseteq CallId /\ call \in CallRecord \cup {NoCall}
      /\ UNCHANGED <<call, quiet, ringOver, callIds, lined, cut>>
    BY DEF Acquire, GiveUpWaiting, callHistory, CallsInv, CallsTypeOK, CallTaskOK
<1>1. m \in CallTask /\ m.pc = "write" /\ m.snap = call /\ m.op = t.op /\ m.user = t.user
    BY <1>0 DEF CallTask
<1>2. callReq' = [callReq EXCEPT ![r] = m]
    BY <1>0 DEF Acquire, GiveUpWaiting
<1> HIDE DEF m
<1>3. PICK n \in CallTask : /\ callReq' = [callReq EXCEPT ![r] = n] /\ n.pc = "write" /\ n.snap = call
                            /\ n.op = t.op /\ n.user = t.user
    BY <1>1, <1>2
<1>4. n.op = "start" => Starting(r)
    BY <1>0, <1>3 DEF Starting
<1>5. CASE Acquire(r)
  <2>1. callLock' = TRUE /\ callLock = FALSE /\ bypassed' = bypassed /\ bypassed \in BOOLEAN
      BY <1>5 DEF Acquire, callHistory, CallsInv, CallsTypeOK
  <2>2. ~bypassed => \A s \in CallRequests : callReq[s].pc # "write"
      BY <2>1 DEF CallsInv, CallTaskOK
  <2>3. CallTaskOK(n)'
      BY <1>0, <1>3, <2>1 DEF CallTaskOK, CallsInv
  <2> QED
      BY <1>0, <1>3, <1>4, <2>1, <2>2, <2>3, CallGoes
<1>6. CASE GiveUpWaiting(r)
  <2>1. callLock' \in BOOLEAN /\ bypassed' = TRUE
      BY <1>6 DEF GiveUpWaiting, CallsInv, CallsTypeOK
  <2>2. CallTaskOK(n)'
      BY <1>0, <1>3, <2>1 DEF CallTaskOK, CallsInv
  <2> QED
      BY <1>0, <1>3, <1>4, <2>1, <2>2, CallGoes
<1> QED
    BY <1>5, <1>6

\* A request ends: with the line of its call, with a sign of life, or by a failure.
LEMMA CallEndsKeeps ==
    ASSUME CallsInv, NEW r \in CallRequests, PostLine(r) \/ seen(r) \/ Die(r)
    PROVE  CallsInv'
<1>1. /\ UNCHANGED <<call, callIds, callLock, ringOver, bypassed>> /\ callReq' = [callReq EXCEPT ![r] = IdleCall]
      /\ callLock \in BOOLEAN /\ bypassed \in BOOLEAN /\ ringOver \subseteq CallId
      /\ quiet' \subseteq CallUsers /\ lined \subseteq lined' /\ cut \subseteq cut'
      /\ ~bypassed /\ (\E s \in CallRequests : callReq[s].pc = "write") => callLock
    BY DEF PostLine, seen, Die, callHistory, CallsInv, CallsTypeOK, CallTaskOK
<1>2. callReq[r].pc = "post" => callReq[r].snap.id \in CallId /\ callReq[r].snap.id \in lined' \cup cut'
  <2>1. callReq[r].pc = "post" => callReq[r].snap \in CallRecord
      BY DEF CallsInv, CallsTypeOK, CallTaskOK, CallTask
  <2>2. callReq[r].pc = "post" => callReq[r].snap.id \in CallId
      BY <2>1 DEF CallRecord
  <2> QED
      BY <2>2 DEF PostLine, seen, Die
<1>3. lined' \subseteq CallId /\ cut' \subseteq CallId
    BY <1>2 DEF PostLine, seen, Die, callHistory, CallsInv, CallsTypeOK
<1>4. CallTaskOK(IdleCall)'
    BY IdleCallOK DEF CallTaskOK, IdleCall
<1> QED
    BY <1>1, <1>2, <1>3, <1>4, IdleCallOK, CallGoes

\* Every step of a call keeps the invariant.
LEMMA CallsInvStep == CallsInv /\ [CallsNext]_callVars => CallsInv'
<1> SUFFICES ASSUME CallsInv, [CallsNext]_callVars PROVE CallsInv'
    OBVIOUS
<1>1. ASSUME UNCHANGED <<call, callReq, callIds, lined, cut>>, quiet' \subseteq CallUsers,
             ringOver' \subseteq CallId, callLock' \in BOOLEAN, bypassed' \in BOOLEAN, bypassed => bypassed',
             ~bypassed' /\ SomeoneInside => callLock' = callLock
      PROVE  CallsInv'
  <2>1. CallsTypeOK'
      BY <1>1 DEF CallsInv, CallsTypeOK
  <2>2. Starters' = Starters
      BY <1>1 DEF Starters, Starting
  <2>3. NoSilentEnd'
      BY <1>1 DEF CallsInv, NoSilentEnd, Gone, Told
  <2>4. ASSUME NEW r \in CallRequests PROVE CallTaskOK(callReq[r])'
    <3>1. CallTaskOK(callReq[r]) /\ callReq'[r] = callReq[r]
        BY <1>1 DEF CallsInv
    <3>2. ~bypassed' /\ callReq[r].pc = "write" => callLock' = callLock
        BY <1>1 DEF SomeoneInside
    <3> QED
        BY <1>1, <3>1, <3>2 DEF CallTaskOK
  <2> QED
      BY <1>1, <2>1, <2>2, <2>3, <2>4 DEF CallsInv
<1>2. ASSUME NEW u \in CallUsers, GoStale(u) PROVE CallsInv'
    BY <1>1, <1>2 DEF GoStale, callHistory, CallsInv, CallsTypeOK
<1>3. CASE LockExpires
    BY <1>1, <1>3 DEF LockExpires, CallsInv, CallsTypeOK, SomeoneInside
<1>4. CASE StopRinging
  <2>1. call.id \in CallId
      BY <1>4 DEF StopRinging, CallsInv, CallsTypeOK, CallRecord
  <2> QED
      BY <1>1, <1>4, <2>1 DEF StopRinging, callHistory, CallsInv, CallsTypeOK
<1>5. CASE UNCHANGED callVars
    BY <1>1, <1>5 DEF callVars, CallsInv, CallsTypeOK
<1> QED
    BY <1>2, <1>3, <1>4, <1>5, CallBeginsKeeps, EnterKeeps, WriteKeeps, EndKeeps, CallEndsKeeps
    DEF CallsNext, CallStep

\* For any number of members, requests and calls: as long as the lock is honoured no change of
\* a call is lost and no call ends unmentioned, whoever dies on the way.
THEOREM CallSafetyHolds == CallsSpec => [](CallsTypeOK /\ CallSafety)
<1>1. CallsInv => CallsTypeOK /\ CallSafety
    BY DEF CallsInv, CallSafety, NoLostUpdate, CallTaskOK
<1> QED
    BY <1>1, CallsInvInit, CallsInvStep, PTL DEF CallsSpec

-----------------------------------------------------------------------------
(* Live rooms *)

\* A request is about a room, or puts a new one on air.
About(t) == t.pc \notin {"idle", "start"}
Entering(t) == t.pc \in {"write", "sadd"}
Closing == {"count", "del", "db"}

\* What a request remembers: rooms that were started; a new room is open and in no lobby yet;
\* and a room whose row is about to be ended is out of the lobby.
LiveTaskOK(t) ==
  /\ \A i \in t.todo : liveRow[i] # "none"
  /\ About(t) => t.room \in Rooms /\ liveRow[t.room] # "none"
  /\ Entering(t) => liveRow[t.room] = "open" /\ t.room \notin lobby
  /\ t.pc = "db" => t.room \notin lobby
  /\ t.pc \in {"del", "db"} => t.reason \in EndReasons
  /\ t.pc = "file" => t.who \in LiveViewers

\* Somebody deals with a room that is not in the lobby yet.
TooEarly(t, w) == Entering(t) /\ ((About(w) /\ w.room = t.room) \/ t.room \in w.todo)

LiveInv ==
  /\ LiveTypeOK /\ LobbyIsOnAir /\ ReportsEndRoom
  /\ \A i \in Rooms : roomRec[i] \/ i \in lobby => liveRow[i] # "none"
  /\ \A r \in LiveRequests : LiveTaskOK(liveReq[r])
  /\ \A r, s \in LiveRequests : r # s => ~TooEarly(liveReq[r], liveReq[s])

\* A request at rest remembers nothing.
LEMMA IdleLiveOK == IdleLive \in LiveTask /\ IdleLive.pc = "idle" /\ IdleLive.todo = {}
BY DEF IdleLive, LiveTask

\* There are no rooms at the start.
LEMMA LiveInvInit == LiveInit => LiveInv
<1> SUFFICES ASSUME LiveInit PROVE LiveInv
    OBVIOUS
<1>1. \A r \in LiveRequests : liveReq[r].pc = "idle" /\ liveReq[r].todo = {}
    BY IdleLiveOK DEF LiveInit
<1>2. LiveTypeOK
  <2>1. liveReq \in [LiveRequests -> LiveTask] /\ reports \in [Rooms -> SUBSET LiveViewers]
      BY IdleLiveOK DEF LiveInit
  <2> QED
      BY <2>1 DEF LiveInit, LiveTypeOK
<1>3. ReportsEndRoom
  <2>1. \A i \in Rooms : Cardinality(reports[i]) = 0
      BY FS_EmptySet DEF LiveInit
  <2> QED
      BY <2>1, LiveAssumption DEF ReportsEndRoom
<1>4. \A r \in LiveRequests : LiveTaskOK(liveReq[r])
    BY <1>1 DEF LiveTaskOK, About, Entering
<1> QED
    BY <1>1, <1>2, <1>3, <1>4 DEF LiveInit, LiveInv, LobbyIsOnAir, TooEarly, Entering, Rooms

\* What a step of the request r, which goes on to n, may do to the rooms.
RoomsStep(r, n) ==
  /\ roomRec' \in [Rooms -> BOOLEAN] /\ hostHere' \subseteq Rooms /\ cutOff' \subseteq Rooms
  /\ liveRow' \in [Rooms -> {"none", "open"} \cup EndReasons] /\ reports' \in [Rooms -> SUBSET LiveViewers]
  /\ \A i \in Rooms : roomRec'[i] => roomRec[i] \/ (About(liveReq[r]) /\ i = liveReq[r].room)
  /\ \A i \in lobby' : i \in lobby \/ (liveReq[r].pc = "sadd" /\ i = liveReq[r].room)
  /\ \A i \in Rooms :
       \/ liveRow'[i] = liveRow[i]
       \/ liveReq[r].pc = "db" /\ i = liveReq[r].room /\ lobby' = lobby /\ liveRow'[i] \in EndReasons
       \/ n.pc = "write" /\ i = n.room /\ lobby' = lobby /\ liveRow[i] = "none" /\ liveRow'[i] = "open"
  /\ \A i \in Rooms : reports'[i] = reports[i] \/ (n.pc = "count" /\ n.room = i)
  /\ cutOff \subseteq cutOff'
  /\ liveReq[r].pc \in Closing =>
       \/ n.pc \in Closing /\ n.room = liveReq[r].room
       \/ liveReq[r].room \in cutOff'
       \/ liveRow'[liveReq[r].room] \in EndReasons
       \/ ~(Cardinality(reports[liveReq[r].room]) >= ReportsToEnd)

\* One request goes on.
LEMMA LiveGoes ==
    ASSUME LiveInv, NEW r \in LiveRequests, NEW n \in LiveTask, liveReq' = [liveReq EXCEPT ![r] = n],
           RoomsStep(r, n), LiveTaskOK(n)',
           \A s \in LiveRequests : s # r => ~TooEarly(n, liveReq[s]) /\ ~TooEarly(liveReq[s], n)
    PROVE  LiveInv'
<1>0. /\ liveReq \in [LiveRequests -> LiveTask] /\ lobby \subseteq Rooms
      /\ \A s \in LiveRequests : liveReq'[s] = IF s = r THEN n ELSE liveReq[s]
      /\ LiveTaskOK(liveReq[r]) /\ liveReq[r] \in LiveTask
    BY DEF LiveInv, LiveTypeOK
<1>1. \A i \in Rooms : /\ liveRow[i] # "none" => liveRow'[i] # "none"
                       /\ liveRow[i] \in EndReasons => liveRow'[i] \in EndReasons
    BY <1>0 DEF RoomsStep, LiveInv, EndReasons
<1>2. LiveTypeOK'
  <2>1. lobby' \subseteq Rooms
      BY <1>0 DEF RoomsStep, LiveTaskOK, About
  <2> QED
      BY <1>0, <2>1 DEF RoomsStep, LiveTypeOK
<1>3. LobbyIsOnAir'
  <2> SUFFICES ASSUME NEW i \in lobby' PROVE liveRow'[i] \notin EndReasons
      BY DEF LobbyIsOnAir, Ended
  <2>0. i \in Rooms
      BY <1>2 DEF LiveTypeOK
  <2>1. CASE liveReq[r].pc = "sadd" /\ i = liveReq[r].room
    <3>1. liveRow[i] = "open"
        BY <1>0, <2>1 DEF LiveTaskOK, Entering
    <3> QED
        BY <2>0, <2>1, <3>1 DEF RoomsStep, EndReasons
  <2>2. CASE i \in lobby
    <3>1. liveRow[i] \notin EndReasons
        BY <2>2 DEF LiveInv, LobbyIsOnAir, Ended
    <3> QED
        BY <1>0, <2>0, <2>2, <3>1 DEF RoomsStep, EndReasons, LiveTaskOK
  <2> QED
      BY <2>1, <2>2 DEF RoomsStep
<1>4. ReportsEndRoom'
  <2> SUFFICES ASSUME NEW i \in Rooms, Cardinality(reports'[i]) >= ReportsToEnd
               PROVE  \/ liveRow'[i] \in EndReasons \/ i \in cutOff'
                      \/ \E s \in LiveRequests : liveReq'[s].room = i /\ liveReq'[s].pc \in Closing
      BY DEF ReportsEndRoom, Ended, Reporting, Closing
  <2>1. CASE n.pc = "count" /\ n.room = i
      BY <1>0, <2>1 DEF Closing
  <2>2. CASE reports'[i] = reports[i]
    <3>1. \/ liveRow[i] \in EndReasons \/ i \in cutOff
          \/ \E s \in LiveRequests : liveReq[s].room = i /\ liveReq[s].pc \in Closing
        BY <2>2 DEF LiveInv, ReportsEndRoom, Ended, Reporting, Closing
    <3>2. ASSUME NEW s \in LiveRequests, liveReq[s].room = i, liveReq[s].pc \in Closing
          PROVE  \/ liveRow'[i] \in EndReasons \/ i \in cutOff'
                 \/ \E q \in LiveRequests : liveReq'[q].room = i /\ liveReq'[q].pc \in Closing
      <4>1. CASE s # r
          BY <1>0, <3>2, <4>1
      <4>2. CASE s = r
          BY <1>0, <2>2, <3>2, <4>2 DEF RoomsStep
      <4> QED
          BY <4>1, <4>2
    <3> QED
        BY <1>1, <3>1, <3>2 DEF RoomsStep
  <2> QED
      BY <2>1, <2>2 DEF RoomsStep
<1>5. \A i \in Rooms : roomRec'[i] \/ i \in lobby' => liveRow'[i] # "none"
  <2>1. \A i \in Rooms : roomRec[i] \/ i \in lobby => liveRow[i] # "none"
      BY DEF LiveInv
  <2> QED
      BY <1>0, <1>1, <2>1 DEF RoomsStep, LiveTaskOK, About
<1>6. ASSUME NEW s \in LiveRequests PROVE LiveTaskOK(liveReq[s])'
  <2>1. CASE s = r
    <3>1. liveReq'[s] = n
        BY <1>0, <2>1
    <3> QED
        BY <3>1 DEF LiveTaskOK, About, Entering
  <2>2. CASE s # r
    <3> DEFINE w == liveReq[s]
    <3>1. /\ liveReq'[s] = w /\ LiveTaskOK(w) /\ w \in LiveTask /\ ~TooEarly(w, n) /\ ~TooEarly(n, w)
          /\ ~TooEarly(w, liveReq[r]) /\ ~TooEarly(liveReq[r], w)
        BY <1>0, <2>2 DEF LiveInv
    <3> HIDE DEF w
    <3>2. \A i \in w.todo : liveRow'[i] # "none"
        BY <1>1, <3>1 DEF LiveTaskOK, LiveTask
    <3>3. About(w) => w.room \in Rooms /\ liveRow'[w.room] # "none"
        BY <1>1, <3>1 DEF LiveTaskOK
    <3>4. (Entering(w) \/ w.pc = "db") => w.room \notin lobby'
        BY <3>1 DEF LiveTaskOK, RoomsStep, TooEarly, Entering, About
    <3>5. Entering(w) => liveRow'[w.room] = "open"
        BY <3>1 DEF LiveTaskOK, RoomsStep, TooEarly, Entering, About
    <3> QED
        BY <3>1, <3>2, <3>3, <3>4, <3>5 DEF LiveTaskOK, About, Entering
  <2> QED
      BY <2>1, <2>2
<1>7. \A p, s \in LiveRequests : p # s => ~TooEarly(liveReq'[p], liveReq'[s])
    BY <1>0 DEF LiveInv
<1> QED
    BY <1>2, <1>3, <1>4, <1>5, <1>6, <1>7 DEF LiveInv, TooEarly, Entering, About

\* A request goes on, but neither enters or leaves the lobby, nor writes a row or a report.
LEMMA LiveReads ==
    ASSUME LiveInv, NEW r \in LiveRequests, NEW n \in LiveTask, liveReq' = [liveReq EXCEPT ![r] = n],
           roomRec' \in [Rooms -> BOOLEAN], hostHere' \subseteq Rooms,
           \A i \in Rooms : roomRec'[i] => roomRec[i] \/ (About(liveReq[r]) /\ i = liveReq[r].room),
           UNCHANGED <<lobby, liveRow, reports>>, cutOff \subseteq cutOff', cutOff' \subseteq Rooms,
           liveReq[r].pc \in Closing =>
             \/ n.pc \in Closing /\ n.room = liveReq[r].room
             \/ liveReq[r].room \in cutOff'
             \/ ~(Cardinality(reports[liveReq[r].room]) >= ReportsToEnd),
           ~Entering(n), LiveTaskOK(n),
           \A s \in LiveRequests : s # r => ~TooEarly(liveReq[s], n)
    PROVE  LiveInv'
<1>1. RoomsStep(r, n)
    BY DEF RoomsStep, LiveInv, LiveTypeOK
<1>2. LiveTaskOK(n)'
    BY DEF LiveTaskOK, About, Entering
<1>3. \A s \in LiveRequests : ~TooEarly(n, liveReq[s])
    BY DEF TooEarly
<1> QED
    BY <1>1, <1>2, <1>3, LiveGoes

\* A request ends.
LEMMA LiveRests ==
    ASSUME LiveInv, NEW r \in LiveRequests, SetReq(r, IdleLive),
           roomRec' \in [Rooms -> BOOLEAN], hostHere' \subseteq Rooms,
           \A i \in Rooms : roomRec'[i] => roomRec[i] \/ (About(liveReq[r]) /\ i = liveReq[r].room),
           UNCHANGED <<lobby, liveRow, reports>>, cutOff \subseteq cutOff', cutOff' \subseteq Rooms,
           liveReq[r].pc \in Closing =>
             \/ liveReq[r].room \in cutOff'
             \/ ~(Cardinality(reports[liveReq[r].room]) >= ReportsToEnd)
    PROVE  LiveInv'
<1>1. LiveTaskOK(IdleLive) /\ ~Entering(IdleLive)
    BY IdleLiveOK DEF LiveTaskOK, About, Entering
<1>2. \A s \in LiveRequests : ~TooEarly(liveReq[s], IdleLive)
    BY IdleLiveOK DEF TooEarly, About
<1> QED
    BY <1>1, <1>2, IdleLiveOK, LiveReads DEF SetReq

\* A request about a room that can be found is not too early.
LEMMA FoundKeeps ==
    ASSUME LiveInv, NEW r \in LiveRequests, NEW i \in Rooms, Found(i), liveReq[r].pc = "idle",
           NEW n \in LiveTask, SetReq(r, n), n.pc \in {"edit", "del", "hostSeen", "peak", "file"},
           n.room = i, n.todo = {}, n.pc = "del" => n.reason \in EndReasons,
           n.pc = "file" => n.who \in LiveViewers,
           UNCHANGED <<roomRec, lobby, hostHere, liveRow, reports, cutOff>>
    PROVE  LiveInv'
<1>1. liveRow[i] # "none"
    BY DEF Found, LiveInv
<1>2. LiveTaskOK(n) /\ ~Entering(n)
    BY <1>1 DEF LiveTaskOK, About, Entering
<1>3. \A s \in LiveRequests : ~TooEarly(liveReq[s], n)
    BY DEF Found, TooEarly, Entering
<1>4. roomRec \in [Rooms -> BOOLEAN] /\ hostHere \subseteq Rooms /\ cutOff \subseteq Rooms
    BY DEF LiveInv, LiveTypeOK
<1> QED
    BY <1>2, <1>3, <1>4, LiveReads DEF SetReq, Closing

\* What an end of a room is, from a request at rest or at its start.
LEMMA EndingOK ==
    ASSUME NEW t \in LiveTask, NEW i \in Rooms, NEW why \in EndReasons
    PROVE  /\ Ending(t, i, why) \in LiveTask /\ Ending(t, i, why).pc = "del"
           /\ Ending(t, i, why).room = i /\ Ending(t, i, why).reason = why
           /\ Ending(t, i, why).todo = t.todo
BY DEF Ending, LiveTask

\* The requests of the host and of the viewers begin with a room that they found.
LEMMA LiveBeginsKeeps ==
    ASSUME LiveInv, NEW r \in LiveRequests, NEW i \in Rooms,
           \/ HostEdit(r, i) \/ stop(r, i) \/ look(r, i)
           \/ \E isHost \in BOOLEAN : heartbeat(r, i, isHost)
           \/ \E v \in LiveViewers : report(r, i, v)
    PROVE  LiveInv'
<1>0. /\ Found(i) /\ liveReq[r].pc = "idle"
      /\ UNCHANGED <<roomRec, lobby, hostHere, liveRow, reports, cutOff>>
    BY DEF HostEdit, stop, look, heartbeat, report
<1>1. ASSUME NEW n \in LiveTask, SetReq(r, n), n.pc \in {"edit", "del", "hostSeen", "peak", "file"},
             n.room = i, n.todo = {}, n.pc = "del" => n.reason \in EndReasons,
             n.pc = "file" => n.who \in LiveViewers
      PROVE  LiveInv'
    BY <1>0, <1>1, FoundKeeps
<1>2. ASSUME NEW why \in EndReasons, SetReq(r, Ending(IdleLive, i, why)) PROVE LiveInv'
    BY <1>1, <1>2, IdleLiveOK, EndingOK
<1>3. ASSUME NEW p \in {"edit", "hostSeen", "peak"}, SetReq(r, [IdleLive EXCEPT !.pc = p, !.room = i])
      PROVE  LiveInv'
  <2> DEFINE n == [IdleLive EXCEPT !.pc = p, !.room = i]
  <2>1. n \in LiveTask /\ n.pc = p /\ n.room = i /\ n.todo = {}
      BY DEF IdleLive, LiveTask
  <2> HIDE DEF n
  <2>2. SetReq(r, n)
      BY <1>3 DEF n
  <2> QED
      BY <1>1, <2>1, <2>2
<1>4. CASE HostEdit(r, i)
    BY <1>3, <1>4 DEF HostEdit
<1>5. CASE stop(r, i) \/ look(r, i)
    BY <1>2, <1>5 DEF stop, look, EndReasons
<1>6. ASSUME NEW isHost \in BOOLEAN, heartbeat(r, i, isHost) PROVE LiveInv'
  <2>1. CASE Dropped(i)
      BY <1>2, <1>6, <2>1 DEF heartbeat, EndReasons
  <2>2. CASE ~Dropped(i) /\ isHost
      BY <1>3, <1>6, <2>2 DEF heartbeat
  <2>3. CASE ~Dropped(i) /\ ~isHost
      BY <1>3, <1>6, <2>3 DEF heartbeat
  <2> QED
      BY <2>1, <2>2, <2>3
<1>7. ASSUME NEW v \in LiveViewers, report(r, i, v) PROVE LiveInv'
  <2> DEFINE n == [IdleLive EXCEPT !.pc = "file", !.room = i, !.who = v]
  <2>1. n \in LiveTask /\ n.pc = "file" /\ n.room = i /\ n.todo = {} /\ n.who = v
      BY DEF IdleLive, LiveTask
  <2> HIDE DEF n
  <2>2. SetReq(r, n)
      BY <1>7 DEF report, n
  <2> QED
      BY <1>1, <2>1, <2>2
<1> QED
    BY <1>4, <1>5, <1>6, <1>7

\* A set of natural numbers that is not empty has a least element.
LEMMA LeastRoom ==
    ASSUME NEW S \in SUBSET Nat, S # {}
    PROVE  \E i \in S : \A j \in S : i <= j
<1>1. PICK i \in S : \A j \in S : ~(<<j, i>> \in OpToRel(<, Nat))
    BY NatLessThanWellFounded, WFMin, Zenon
<1>2. \A j \in S : ~(j < i)
    BY <1>1, Zenon DEF OpToRel
<1> QED
    BY <1>2

\* The end of a room: first the lobby and the keys ...
LEMMA EndKeysKeeps ==
    ASSUME LiveInv, NEW r \in LiveRequests, EndKeys(r)
    PROVE  LiveInv'
<1> DEFINE t == liveReq[r]
           i == t.room
           m == [t EXCEPT !.pc = "db"]
<1>0. /\ t \in LiveTask /\ t.pc = "del" /\ LiveTaskOK(t) /\ i \in Rooms /\ t.reason \in EndReasons
      /\ roomRec \in [Rooms -> BOOLEAN] /\ hostHere \subseteq Rooms /\ cutOff \subseteq Rooms
      /\ liveRow \in [Rooms -> {"none", "open"} \cup EndReasons] /\ reports \in [Rooms -> SUBSET LiveViewers]
    BY DEF EndKeys, LiveInv, LiveTypeOK, LiveTaskOK, About
<1>1. /\ lobby' = lobby \ {i} /\ roomRec' = [roomRec EXCEPT ![i] = FALSE] /\ hostHere' = hostHere \ {i}
      /\ liveReq' = [liveReq EXCEPT ![r] = m] /\ UNCHANGED <<liveRow, reports, cutOff>>
    BY DEF EndKeys, SetReq
<1>2. /\ m \in LiveTask /\ m.pc = "db" /\ m.room = i /\ m.todo = t.todo /\ m.reason = t.reason
    BY <1>0 DEF LiveTask
<1> HIDE DEF m
<1>3. PICK n \in LiveTask : /\ liveReq' = [liveReq EXCEPT ![r] = n] /\ n.pc = "db" /\ n.room = i
                            /\ n.todo = t.todo /\ n.reason = t.reason
    BY <1>1, <1>2
<1>4. RoomsStep(r, n)
    BY <1>0, <1>1, <1>3 DEF RoomsStep, Closing
<1>5. LiveTaskOK(n)'
    BY <1>0, <1>1, <1>3 DEF LiveTaskOK, About, Entering
<1>6. \A s \in LiveRequests : s # r => ~TooEarly(n, liveReq[s]) /\ ~TooEarly(liveReq[s], n)
  <2>1. \A s \in LiveRequests : s # r => ~TooEarly(liveReq[s], t)
      BY DEF LiveInv
  <2> QED
      BY <1>0, <1>3, <2>1 DEF TooEarly, Entering, About
<1> QED
    BY <1>3, <1>4, <1>5, <1>6, LiveGoes

\* ... then the row, unless another path has ended it.
LEMMA EndRowKeeps ==
    ASSUME LiveInv, NEW r \in LiveRequests, EndRow(r)
    PROVE  LiveInv'
<1> DEFINE t == liveReq[r]
           i == t.room
           m == IF t.starting THEN [IdleLive EXCEPT !.pc = "start", !.starting = TRUE, !.todo = t.todo \ {i}]
                ELSE IdleLive
<1>0. /\ t \in LiveTask /\ t.pc = "db" /\ LiveTaskOK(t) /\ i \in Rooms /\ t.reason \in EndReasons
      /\ liveRow[i] # "none" /\ i \notin lobby
      /\ roomRec \in [Rooms -> BOOLEAN] /\ hostHere \subseteq Rooms /\ cutOff \subseteq Rooms
      /\ liveRow \in [Rooms -> {"none", "open"} \cup EndReasons] /\ reports \in [Rooms -> SUBSET LiveViewers]
    BY DEF EndRow, LiveInv, LiveTypeOK, LiveTaskOK, About
<1>1. /\ liveRow' = (IF liveRow[i] = "open" THEN [liveRow EXCEPT ![i] = t.reason] ELSE liveRow)
      /\ liveReq' = [liveReq EXCEPT ![r] = m] /\ UNCHANGED <<roomRec, lobby, hostHere, reports, cutOff>>
    BY DEF EndRow, SetReq
<1>2. m \in LiveTask /\ m.pc \in {"idle", "start"} /\ m.todo \subseteq t.todo
  <2>1. CASE t.starting
      BY <1>0, <2>1 DEF IdleLive, LiveTask
  <2>2. CASE ~t.starting
      BY <2>2, IdleLiveOK
  <2> QED
      BY <2>1, <2>2
<1> HIDE DEF m
<1>3. PICK n \in LiveTask : /\ liveReq' = [liveReq EXCEPT ![r] = n] /\ n.pc \in {"idle", "start"}
                            /\ n.todo \subseteq t.todo
    BY <1>1, <1>2
<1>4. /\ liveRow' \in [Rooms -> {"none", "open"} \cup EndReasons] /\ liveRow'[i] \in EndReasons
      /\ \A j \in Rooms : j # i => liveRow'[j] = liveRow[j]
    BY <1>0, <1>1
<1>5. RoomsStep(r, n)
    BY <1>0, <1>1, <1>3, <1>4 DEF RoomsStep
<1>6. LiveTaskOK(n)'
  <2>1. \A j \in n.todo : j \in Rooms /\ liveRow[j] # "none"
      BY <1>0, <1>3 DEF LiveTaskOK, LiveTask
  <2>2. \A j \in n.todo : liveRow'[j] # "none"
      BY <1>4, <2>1 DEF EndReasons
  <2> QED
      BY <1>3, <2>2 DEF LiveTaskOK, About, Entering
<1>7. \A s \in LiveRequests : s # r => ~TooEarly(n, liveReq[s]) /\ ~TooEarly(liveReq[s], n)
  <2>1. \A s \in LiveRequests : s # r => ~TooEarly(liveReq[s], t)
      BY DEF LiveInv
  <2> QED
      BY <1>3, <2>1 DEF TooEarly, Entering, About
<1> QED
    BY <1>3, <1>5, <1>6, <1>7, LiveGoes

\* A new row: nobody can have heard of the room.
LEMMA CreateRoomRowKeeps ==
    ASSUME LiveInv, NEW r \in LiveRequests, CreateRoomRow(r)
    PROVE  LiveInv'
<1> DEFINE fresh == {i \in Rooms : liveRow[i] = "none"}
           k == CHOOSE i \in fresh : \A j \in fresh : i <= j
<1>1. k \in fresh
  <2>1. fresh \in SUBSET Nat /\ fresh # {}
      BY DEF CreateRoomRow, Rooms
  <2>2. \E i \in fresh : \A j \in fresh : i <= j
      BY <2>1, LeastRoom
  <2> HIDE DEF fresh
  <2> QED
      BY <2>2
<1>2. /\ liveRow' = [liveRow EXCEPT ![k] = "open"] /\ liveReq[r].pc = "start"
      /\ liveReq' = [liveReq EXCEPT ![r] = [IdleLive EXCEPT !.pc = "write", !.starting = TRUE, !.room = k]]
      /\ UNCHANGED <<roomRec, lobby, hostHere, reports, cutOff>>
    BY DEF CreateRoomRow, SetReq
<1> HIDE DEF k
<1>3. PICK i \in Rooms : /\ liveRow[i] = "none" /\ liveRow' = [liveRow EXCEPT ![i] = "open"]
                         /\ liveReq' = [liveReq EXCEPT ![r] = [IdleLive EXCEPT !.pc = "write", !.starting = TRUE,
                                                                               !.room = i]]
    BY <1>1, <1>2
<1> DEFINE n == [IdleLive EXCEPT !.pc = "write", !.starting = TRUE, !.room = i]
<1>4. n \in LiveTask /\ n.pc = "write" /\ n.room = i /\ n.todo = {}
    BY DEF IdleLive, LiveTask
<1>5. liveReq' = [liveReq EXCEPT ![r] = n] /\ n' = n
    BY <1>3 DEF IdleLive
<1> HIDE DEF n
<1>6. /\ roomRec \in [Rooms -> BOOLEAN] /\ hostHere \subseteq Rooms /\ cutOff \subseteq Rooms
      /\ liveRow \in [Rooms -> {"none", "open"} \cup EndReasons] /\ reports \in [Rooms -> SUBSET LiveViewers]
      /\ i \notin lobby
    BY <1>3 DEF LiveInv, LiveTypeOK
<1>7. RoomsStep(r, n)
    BY <1>2, <1>3, <1>4, <1>6 DEF RoomsStep, Closing
<1>8. LiveTaskOK(n)'
    BY <1>2, <1>3, <1>4, <1>5, <1>6 DEF LiveTaskOK, About, Entering
<1>9. ASSUME NEW s \in LiveRequests, s # r PROVE ~TooEarly(n, liveReq[s]) /\ ~TooEarly(liveReq[s], n)
  <2>1. LiveTaskOK(liveReq[s])
      BY DEF LiveInv
  <2>2. (About(liveReq[s]) => liveReq[s].room # i) /\ i \notin liveReq[s].todo
      BY <1>3, <2>1 DEF LiveTaskOK
  <2> QED
      BY <1>4, <2>2 DEF TooEarly, About, Entering
<1> QED
    BY <1>4, <1>5, <1>7, <1>8, <1>9, LiveGoes

\* The record of a new room, and then its place in the lobby.
LEMMA NewRoomKeeps ==
    ASSUME LiveInv, NEW r \in LiveRequests, WriteNewRoom(r) \/ EnterLobby(r)
    PROVE  LiveInv'
<1> DEFINE t == liveReq[r]
           p == IF t.pc = "write" THEN "sadd" ELSE "hostSeen"
           m == [t EXCEPT !.pc = p]
<1>0. /\ t \in LiveTask /\ Entering(t) /\ LiveTaskOK(t) /\ t.room \in Rooms /\ liveRow[t.room] = "open"
      /\ roomRec \in [Rooms -> BOOLEAN] /\ hostHere \subseteq Rooms /\ cutOff \subseteq Rooms
      /\ liveRow \in [Rooms -> {"none", "open"} \cup EndReasons] /\ reports \in [Rooms -> SUBSET LiveViewers]
    BY DEF WriteNewRoom, EnterLobby, LiveInv, LiveTypeOK, LiveTaskOK, About, Entering
<1>1. /\ lobby' = (IF t.pc = "write" THEN lobby ELSE lobby \cup {t.room})
      /\ roomRec' = (IF t.pc = "write" THEN [roomRec EXCEPT ![t.room] = TRUE] ELSE roomRec)
      /\ liveReq' = [liveReq EXCEPT ![r] = m] /\ UNCHANGED <<hostHere, liveRow, reports, cutOff>>
    BY DEF WriteNewRoom, EnterLobby, SetReq
<1>2. m \in LiveTask /\ m.pc = p /\ m.room = t.room /\ m.todo = t.todo
    BY <1>0 DEF LiveTask
<1> HIDE DEF m
<1>3. PICK n \in LiveTask : /\ liveReq' = [liveReq EXCEPT ![r] = n] /\ n.pc = p /\ n.room = t.room
                            /\ n.todo = t.todo
    BY <1>1, <1>2
<1>4. RoomsStep(r, n)
  <2>1. About(t) /\ t.pc \notin Closing /\ (t.pc = "write" \/ t.pc = "sadd")
      BY <1>0 DEF About, Entering, Closing
  <2> QED
      BY <1>0, <1>1, <1>3, <2>1 DEF RoomsStep
<1>5. LiveTaskOK(n)'
    BY <1>0, <1>1, <1>3 DEF LiveTaskOK, About, Entering
<1>6. \A s \in LiveRequests : s # r => ~TooEarly(n, liveReq[s]) /\ ~TooEarly(liveReq[s], n)
  <2>1. \A s \in LiveRequests : s # r => ~TooEarly(liveReq[s], t) /\ ~TooEarly(t, liveReq[s])
      BY DEF LiveInv
  <2> QED
      BY <1>0, <1>3, <2>1 DEF TooEarly, Entering, About
<1> QED
    BY <1>3, <1>4, <1>5, <1>6, LiveGoes

\* A report is filed, and whoever filed it counts.
LEMMA FileReportKeeps ==
    ASSUME LiveInv, NEW r \in LiveRequests, FileReport(r)
    PROVE  LiveInv'
<1> DEFINE t == liveReq[r]
           m == [IdleLive EXCEPT !.pc = "count", !.room = t.room]
<1>0. /\ t \in LiveTask /\ t.pc = "file" /\ LiveTaskOK(t) /\ t.room \in Rooms /\ t.who \in LiveViewers
      /\ liveRow[t.room] # "none"
      /\ roomRec \in [Rooms -> BOOLEAN] /\ hostHere \subseteq Rooms /\ cutOff \subseteq Rooms
      /\ liveRow \in [Rooms -> {"none", "open"} \cup EndReasons] /\ reports \in [Rooms -> SUBSET LiveViewers]
    BY DEF FileReport, LiveInv, LiveTypeOK, LiveTaskOK, About
<1>1. /\ reports' = [reports EXCEPT ![t.room] = reports[t.room] \cup {t.who}]
      /\ liveReq' = [liveReq EXCEPT ![r] = m] /\ UNCHANGED <<roomRec, lobby, hostHere, liveRow, cutOff>>
    BY DEF FileReport, SetReq
<1>2. m \in LiveTask /\ m.pc = "count" /\ m.room = t.room /\ m.todo = {}
    BY <1>0 DEF LiveTask, IdleLive
<1> HIDE DEF m
<1>3. PICK n \in LiveTask : /\ liveReq' = [liveReq EXCEPT ![r] = n] /\ n.pc = "count" /\ n.room = t.room
                            /\ n.todo = {}
    BY <1>1, <1>2
<1>4. RoomsStep(r, n)
  <2>1. reports' \in [Rooms -> SUBSET LiveViewers] /\ \A i \in Rooms : i # t.room => reports'[i] = reports[i]
      BY <1>0, <1>1
  <2> QED
      BY <1>0, <1>1, <1>3, <2>1 DEF RoomsStep, Closing
<1>5. LiveTaskOK(n)'
    BY <1>0, <1>1, <1>3 DEF LiveTaskOK, About, Entering
<1>6. \A s \in LiveRequests : s # r => ~TooEarly(n, liveReq[s]) /\ ~TooEarly(liveReq[s], n)
  <2>1. \A s \in LiveRequests : s # r => ~TooEarly(liveReq[s], t)
      BY DEF LiveInv
  <2> QED
      BY <1>0, <1>3, <2>1 DEF TooEarly, Entering, About
<1> QED
    BY <1>3, <1>4, <1>5, <1>6, LiveGoes

\* The other steps of a request that is under way, none of which changes the lobby.
LEMMA LiveStepsKeep ==
    ASSUME LiveInv, NEW r \in LiveRequests,
           \/ hostSeen(r) \/ WriteEdit(r) \/ WritePeak(r) \/ CountReports(r) \/ Start(r) \/ LiveFails(r)
           \/ \E i \in Rooms : EndOther(r, i)
    PROVE  LiveInv'
<1> DEFINE t == liveReq[r]
<1>0. /\ t \in LiveTask /\ LiveTaskOK(t) /\ (About(t) => t.room \in Rooms /\ liveRow[t.room] # "none")
      /\ roomRec \in [Rooms -> BOOLEAN] /\ hostHere \subseteq Rooms /\ cutOff \subseteq Rooms
      /\ lobby \subseteq Rooms
      /\ \A s \in LiveRequests : s # r => ~TooEarly(liveReq[s], t)
    BY DEF LiveInv, LiveTypeOK, LiveTaskOK
<1>1. CASE hostSeen(r)
  <2> DEFINE m == [t EXCEPT !.pc = "peak"]
  <2>1. /\ t.pc = "hostSeen" /\ hostHere' = hostHere \cup {t.room}
        /\ SetReq(r, IdleLive) \/ SetReq(r, m)
      BY <1>1 DEF hostSeen
  <2>2. /\ UNCHANGED <<roomRec, lobby, liveRow, reports, cutOff>> /\ About(t) /\ t.pc \notin Closing
        /\ hostHere' \subseteq Rooms
      BY <1>0, <1>1, <2>1 DEF hostSeen, About, Closing
  <2>3. m \in LiveTask /\ m.pc = "peak" /\ m.room = t.room /\ m.todo = t.todo
      BY <1>0 DEF LiveTask
  <2>4. ~Entering(m) /\ LiveTaskOK(m) /\ \A s \in LiveRequests : s # r => ~TooEarly(liveReq[s], m)
    <3> HIDE DEF m
    <3> QED
        BY <1>0, <2>1, <2>3 DEF Entering, LiveTaskOK, TooEarly, About
  <2>5. CASE SetReq(r, IdleLive)
      BY <1>0, <2>2, <2>5, LiveRests
  <2>6. CASE SetReq(r, m)
    <3> HIDE DEF m
    <3> QED
        BY <1>0, <2>2, <2>3, <2>4, <2>6, LiveReads DEF SetReq
  <2> QED
      BY <1>1, <2>5, <2>6 DEF hostSeen
<1>2. CASE WriteEdit(r) \/ WritePeak(r)
  <2>1. /\ About(t) /\ t.pc \notin Closing /\ SetReq(r, IdleLive)
        /\ UNCHANGED <<lobby, hostHere, liveRow, reports, cutOff>>
        /\ roomRec' = roomRec \/ roomRec' = [roomRec EXCEPT ![t.room] = TRUE]
      BY <1>2 DEF WriteEdit, WritePeak, About, Closing
  <2>2. roomRec' \in [Rooms -> BOOLEAN] /\ \A i \in Rooms : roomRec'[i] => roomRec[i] \/ i = t.room
      BY <1>0, <2>1
  <2> QED
      BY <1>0, <2>1, <2>2, LiveRests
<1>3. CASE CountReports(r)
  <2>1. t.pc = "count" /\ UNCHANGED <<roomRec, lobby, hostHere, liveRow, reports, cutOff>>
      BY <1>3 DEF CountReports
  <2>2. CASE ~(Cardinality(reports[t.room]) >= ReportsToEnd)
    <3>1. SetReq(r, IdleLive)
        BY <1>3, <2>2 DEF CountReports
    <3> QED
        BY <1>0, <2>1, <2>2, <3>1, LiveRests
  <2>3. CASE Cardinality(reports[t.room]) >= ReportsToEnd
    <3> DEFINE m == Ending(t, t.room, "reports")
    <3>1. SetReq(r, m)
        BY <1>3, <2>3 DEF CountReports
    <3>2. /\ m \in LiveTask /\ m.pc = "del" /\ m.room = t.room /\ m.reason \in EndReasons /\ m.todo = t.todo
      <4>1. t.room \in Rooms /\ "reports" \in EndReasons
          BY <1>0, <2>1 DEF About, EndReasons
      <4> QED
          BY <1>0, <4>1, EndingOK
    <3> HIDE DEF m
    <3>3. ~Entering(m) /\ LiveTaskOK(m) /\ \A s \in LiveRequests : s # r => ~TooEarly(liveReq[s], m)
        BY <1>0, <2>1, <3>2 DEF Entering, LiveTaskOK, TooEarly, About
    <3> QED
        BY <1>0, <2>1, <3>1, <3>2, <3>3, LiveReads DEF SetReq, Closing
  <2> QED
      BY <2>2, <2>3
<1>4. CASE Start(r)
  <2> DEFINE m == [IdleLive EXCEPT !.pc = "start", !.starting = TRUE, !.todo = lobby]
  <2>1. t.pc = "idle" /\ SetReq(r, m) /\ UNCHANGED <<roomRec, lobby, hostHere, liveRow, reports, cutOff>>
      BY <1>4 DEF Start
  <2>2. m \in LiveTask /\ m.pc = "start" /\ m.todo = lobby
      BY <1>0 DEF LiveTask, IdleLive
  <2> HIDE DEF m
  <2>3. ~Entering(m) /\ LiveTaskOK(m) /\ \A s \in LiveRequests : ~TooEarly(liveReq[s], m)
      BY <1>0, <2>2 DEF Entering, LiveTaskOK, TooEarly, About, LiveInv
  <2> QED
      BY <1>0, <2>1, <2>2, <2>3, LiveReads DEF SetReq, Closing
<1>5. CASE LiveFails(r)
  <2>1. /\ SetReq(r, IdleLive) /\ UNCHANGED <<roomRec, lobby, hostHere, liveRow, reports>>
        /\ cutOff' = cutOff \cup ({t.room} \ {NoRoom})
      BY <1>5 DEF LiveFails
  <2>2. cutOff' \subseteq Rooms
      BY <1>0, <2>1 DEF LiveTask
  <2>3. t.pc \in Closing => t.room \in cutOff'
      BY <1>0, <2>1, LiveAssumption DEF Closing, About, Rooms
  <2> QED
      BY <1>0, <2>1, <2>2, <2>3, LiveRests
<1>6. ASSUME NEW i \in Rooms, EndOther(r, i) PROVE LiveInv'
  <2>1. /\ t.pc = "start" /\ i \in t.todo /\ UNCHANGED <<roomRec, lobby, hostHere, liveRow, reports, cutOff>>
      BY <1>6 DEF EndOther
  <2>2. PICK n \in LiveTask :
          /\ SetReq(r, n) /\ n.todo \subseteq t.todo
          /\ \/ n.pc = "start" \/ (n.pc = "del" /\ n.room = i /\ n.reason \in EndReasons)
    <3> DEFINE m == [t EXCEPT !.todo = t.todo \ {i}]
               e == Ending(t, i, "host")
    <3>1. m \in LiveTask /\ m.pc = "start" /\ m.todo \subseteq t.todo
        BY <1>0, <2>1 DEF LiveTask
    <3>2. e \in LiveTask /\ e.pc = "del" /\ e.room = i /\ e.reason \in EndReasons /\ e.todo = t.todo
      <4>1. "host" \in EndReasons
          BY DEF EndReasons
      <4> QED
          BY <1>0, <4>1, EndingOK
    <3>3. SetReq(r, m) \/ SetReq(r, e)
        BY <1>6 DEF EndOther
    <3> HIDE DEF m, e
    <3> QED
        BY <3>1, <3>2, <3>3
  <2>3. ~Entering(n) /\ LiveTaskOK(n)
      BY <1>0, <2>1, <2>2 DEF Entering, LiveTaskOK, About
  <2>4. \A s \in LiveRequests : s # r => ~TooEarly(liveReq[s], n)
      BY <1>0, <2>1, <2>2 DEF Entering, TooEarly, About
  <2> QED
      BY <1>0, <2>1, <2>2, <2>3, <2>4, LiveReads DEF SetReq, Closing
<1> QED
    BY <1>1, <1>2, <1>3, <1>4, <1>5, <1>6

\* Every step of the live rooms keeps the invariant.
LEMMA LiveInvStep == LiveInv /\ [LiveNext]_liveVars => LiveInv'
<1> SUFFICES ASSUME LiveInv, [LiveNext]_liveVars PROVE LiveInv'
    OBVIOUS
<1>1. ASSUME UNCHANGED <<roomRec, lobby, liveRow, reports, liveReq, cutOff>>, hostHere' \subseteq Rooms
      PROVE  LiveInv'
  <2>1. LiveTypeOK'
      BY <1>1 DEF LiveInv, LiveTypeOK
  <2>2. LobbyIsOnAir' /\ ReportsEndRoom'
      BY <1>1 DEF LiveInv, LobbyIsOnAir, ReportsEndRoom, Ended, Reporting
  <2>3. \A r \in LiveRequests : LiveTaskOK(liveReq[r])'
      BY <1>1 DEF LiveInv, LiveTaskOK, About, Entering
  <2> QED
      BY <1>1, <2>1, <2>2, <2>3 DEF LiveInv, TooEarly, About, Entering
<1>2. ASSUME NEW i \in Rooms, HostFallsSilent(i) PROVE LiveInv'
    BY <1>1, <1>2 DEF HostFallsSilent, LiveInv, LiveTypeOK
<1>3. CASE UNCHANGED liveVars
    BY <1>1, <1>3 DEF liveVars, LiveInv, LiveTypeOK
<1> QED
    BY <1>2, <1>3, EndKeysKeeps, EndRowKeeps, CreateRoomRowKeeps, NewRoomKeeps, FileReportKeeps,
       LiveStepsKeep, LiveBeginsKeeps
    DEF LiveNext, LiveStep

\* For any number of viewers, requests and rooms: the lobby never lists a room that is over,
\* and enough reports end a room, unless a request was cut off.
THEOREM LiveSafetyHolds == LiveSpec => [](LiveTypeOK /\ LiveSafety)
<1>1. LiveInv => LiveTypeOK /\ LiveSafety
    BY DEF LiveInv, LiveSafety
<1> QED
    BY <1>1, LiveInvInit, LiveInvStep, PTL DEF LiveSpec
=============================================================================
