--------------------------- MODULE PollPanelProofs ---------------------------
(***************************************************************************)
(* Proofs for the polls (the generator that keeps them within their cap,   *)
(* the votes on one of them and its end), for the trade panel of the web   *)
(* client, and for the social services together.                           *)
(***************************************************************************)
EXTENDS SocialProofs

-----------------------------------------------------------------------------
(* The generator *)

\* A run that inserts has left out what is asked already, and its picks fit under the cap.
GenTaskOK(t) ==
  /\ t.pc # "idle" => genLock
  /\ t.pc \in {"read", "insert"} => t.block \in PollBlocks
  /\ t.pc = "insert" => /\ t.picks \cap Asked = {}
                        /\ t.picks # {} => Cardinality(t.picks) + Cardinality(openPoll) <= OpenAutoCap

GenInv ==
  /\ GenTypeOK /\ GeneratorSafety /\ IsFiniteSet(openPoll)
  /\ \A g \in Generators : GenTaskOK(gen[g])
  /\ \A g, h \in Generators : gen[g].pc # "idle" /\ gen[h].pc # "idle" => g = h

GenTasks == [pc: {"idle", "start", "read", "insert"}, block: PollBlocks \cup {0}, picks: SUBSET Stems]

\* A run at rest has nothing to insert.
LEMMA IdleGenOK == IdleGen \in GenTasks /\ IdleGen.pc = "idle"
BY DEF IdleGen, GenTasks

\* No poll is open at the start.
LEMMA GenInvInit == GenInit => GenInv
<1> SUFFICES ASSUME GenInit PROVE GenInv
    OBVIOUS
<1>1. gen \in [Generators -> GenTasks] /\ \A g \in Generators : gen[g].pc = "idle"
    BY IdleGenOK DEF GenInit
<1>2. GenTypeOK
  <2>1. pollBlock \in PollBlocks
      BY GeneratorAssumption DEF GenInit, PollBlocks
  <2> QED
      BY <1>1, <2>1 DEF GenInit, GenTypeOK, GenTasks
<1>3. IsFiniteSet(openPoll) /\ Cardinality(openPoll) = 0
    BY FS_EmptySet DEF GenInit
<1>4. GeneratorSafety
    BY <1>3, GeneratorAssumption DEF GenInit, GeneratorSafety, OneOpenPollPerStem, OpenPollsCapped
<1> QED
    BY <1>1, <1>2, <1>3, <1>4 DEF GenInv, GenTaskOK

\* The one run that is under way goes on, without a change to the polls.
LEMMA GenGoesOn ==
    ASSUME GenInv, NEW g \in Generators, NEW n \in GenTasks, gen' = [gen EXCEPT ![g] = n],
           UNCHANGED <<openPoll, closedPoll>>, pollBlock' \in PollBlocks, lastBlock' \in PollBlocks \cup {0},
           genLock' \in BOOLEAN, genLock => genLock', GenTaskOK(n)',
           n.pc # "idle" => gen[g].pc # "idle" \/ ~genLock
    PROVE  GenInv'
<1>0. /\ gen \in [Generators -> GenTasks] /\ \A h \in Generators : gen'[h] = IF h = g THEN n ELSE gen[h]
    BY DEF GenInv, GenTypeOK, GenTasks
<1>1. GenTypeOK' /\ GeneratorSafety'
    BY <1>0 DEF GenInv, GenTypeOK, GenTasks, GeneratorSafety, OneOpenPollPerStem, OpenPollsCapped
<1>2. ASSUME NEW h \in Generators PROVE GenTaskOK(gen[h])'
  <2>1. CASE h = g
    <3>1. gen'[h] = n
        BY <1>0, <2>1
    <3> QED
        BY <3>1 DEF GenTaskOK, Asked
  <2>2. CASE h # g
    <3>1. gen'[h] = gen[h] /\ GenTaskOK(gen[h])
        BY <1>0, <2>2 DEF GenInv
    <3> QED
        BY <3>1 DEF GenTaskOK, Asked
  <2> QED
      BY <2>1, <2>2
<1>3. \A h, k \in Generators : gen'[h].pc # "idle" /\ gen'[k].pc # "idle" => h = k
  <2>1. \A h \in Generators : gen[h].pc # "idle" => genLock
      BY DEF GenInv, GenTaskOK
  <2> QED
      BY <1>0, <2>1 DEF GenInv
<1> QED
    BY <1>1, <1>2, <1>3 DEF GenInv

\* Room for the picks becomes room for one pick less and one poll more.
LEMMA insertKeeps ==
    ASSUME GenInv, NEW g \in Generators, NEW stem \in Stems, insert(g, stem)
    PROVE  GenInv'
<1> DEFINE t == gen[g]
           p == <<stem, t.block>>
           n == [t EXCEPT !.picks = t.picks \ {stem}]
<1>0. /\ gen \in [Generators -> GenTasks] /\ t \in GenTasks /\ t.pc = "insert" /\ stem \in t.picks
      /\ t.block \in PollBlocks /\ t.picks \cap Asked = {} /\ IsFiniteSet(openPoll)
      /\ Cardinality(t.picks) + Cardinality(openPoll) <= OpenAutoCap
      /\ openPoll \subseteq Poll /\ closedPoll \subseteq Poll /\ openPoll \cap closedPoll = {}
    BY DEF insert, GenInv, GenTypeOK, GenTasks, GenTaskOK
<1>1. /\ gen' = [gen EXCEPT ![g] = n] /\ UNCHANGED <<pollBlock, closedPoll, lastBlock, genLock>>
      /\ openPoll' = (IF p \in closedPoll THEN openPoll ELSE openPoll \cup {p})
    BY DEF insert, GenGoes
<1>2. n \in GenTasks /\ n.pc = "insert" /\ n.picks = t.picks \ {stem} /\ n.block = t.block
    BY <1>0 DEF GenTasks
<1>3. \A h \in Generators : gen'[h] = IF h = g THEN n ELSE gen[h]
    BY <1>0, <1>1
<1>4. p \in Poll /\ p[1] = stem /\ p \notin openPoll
    BY <1>0 DEF Poll, Asked
<1>5. IsFiniteSet(t.picks) /\ Cardinality(t.picks) \in Nat /\ IsFiniteSet(t.picks \ {stem})
      /\ Cardinality(t.picks \ {stem}) = Cardinality(t.picks) - 1
    BY <1>0, GeneratorAssumption, FS_Subset, FS_RemoveElement, FS_CardinalityType DEF GenTasks
<1>6. /\ IsFiniteSet(openPoll') /\ Cardinality(openPoll) \in Nat /\ Cardinality(openPoll') \in Nat
      /\ Cardinality(openPoll') <= Cardinality(openPoll) + 1
  <2> HIDE DEF p, n, t
  <2>1. Cardinality(openPoll) \in Nat
      BY <1>0, FS_CardinalityType
  <2>2. CASE p \in closedPoll
      BY <1>0, <1>1, <2>1, <2>2
  <2>3. CASE p \notin closedPoll
    <3>1. openPoll' = openPoll \cup {p}
        BY <1>1, <2>3
    <3>2. IsFiniteSet(openPoll \cup {p}) /\ Cardinality(openPoll \cup {p}) = Cardinality(openPoll) + 1
        BY <1>0, <1>4, FS_AddElement
    <3> QED
        BY <2>1, <3>1, <3>2
  <2> QED
      BY <2>2, <2>3
<1>7. /\ Cardinality(openPoll') <= OpenAutoCap
      /\ Cardinality(t.picks \ {stem}) + Cardinality(openPoll') <= OpenAutoCap
  <2>1. Cardinality(t.picks \ {stem}) \in Nat
      BY <1>5, FS_CardinalityType
  <2> QED
      BY <1>0, <1>5, <1>6, <2>1, GeneratorAssumption
<1> HIDE DEF p, n
<1>8. GenTypeOK'
    BY <1>0, <1>1, <1>2, <1>4 DEF GenInv, GenTypeOK, GenTasks
<1>9. \A q \in openPoll' : q \in openPoll \/ q = p
    BY <1>1
<1>10. OneOpenPollPerStem'
  <2>1. \A q \in openPoll : q[1] # stem
      BY <1>0 DEF Asked
  <2> QED
      BY <1>4, <1>9, <2>1 DEF GenInv, GeneratorSafety, OneOpenPollPerStem
<1>11. (t.picks \ {stem}) \cap Asked' = {}
    BY <1>0, <1>4, <1>9 DEF Asked
<1>12. ASSUME NEW h \in Generators PROVE GenTaskOK(gen[h])'
  <2>1. CASE h = g
      BY <1>0, <1>1, <1>2, <1>3, <1>7, <1>11, <2>1 DEF GenInv, GenTaskOK
  <2>2. CASE h # g
      BY <1>0, <1>3, <2>2 DEF GenInv, GenTaskOK
  <2> QED
      BY <2>1, <2>2
<1>13. \A h, k \in Generators : gen'[h].pc # "idle" /\ gen'[k].pc # "idle" => h = k
    BY <1>0, <1>2, <1>3 DEF GenInv
<1> QED
    BY <1>6, <1>7, <1>8, <1>10, <1>12, <1>13 DEF GenInv, GeneratorSafety, OpenPollsCapped

\* A poll that ends leaves room, and frees its question.
LEMMA PollEndsKeeps ==
    ASSUME GenInv, NEW p \in openPoll, PollEnds(p)
    PROVE  GenInv'
<1>1. /\ openPoll' = openPoll \ {p} /\ closedPoll' = closedPoll \cup {p}
      /\ UNCHANGED <<pollBlock, lastBlock, genLock, gen>>
    BY DEF PollEnds
<1>2. IsFiniteSet(openPoll) /\ openPoll \subseteq Poll
    BY DEF GenInv, GenTypeOK
<1>3. /\ IsFiniteSet(openPoll') /\ Cardinality(openPoll') <= Cardinality(openPoll)
      /\ Cardinality(openPoll) \in Nat /\ Cardinality(openPoll') \in Nat
  <2>1. openPoll' \subseteq openPoll
      BY <1>1
  <2>2. IsFiniteSet(openPoll') /\ Cardinality(openPoll') <= Cardinality(openPoll)
      BY <1>2, <2>1, FS_Subset
  <2> QED
      BY <1>2, <2>2, FS_CardinalityType
<1>4. GenTypeOK'
    BY <1>1, <1>2 DEF GenInv, GenTypeOK
<1>5. GeneratorSafety'
    BY <1>1, <1>3, GeneratorAssumption DEF GenInv, GeneratorSafety, OneOpenPollPerStem, OpenPollsCapped
<1>6. Asked' \subseteq Asked
    BY <1>1 DEF Asked
<1>7. ASSUME NEW g \in Generators PROVE GenTaskOK(gen[g])'
  <2>1. gen'[g] = gen[g] /\ GenTaskOK(gen[g])
      BY <1>1 DEF GenInv
  <2>2. (gen[g].pc = "insert") => (gen[g].picks \cap Asked' = {})
      BY <2>1, <1>6 DEF GenTaskOK
  <2>3. ASSUME gen[g].pc = "insert", gen[g].picks # {}
        PROVE  Cardinality(gen[g].picks) + Cardinality(openPoll') <= OpenAutoCap
    <3>1. Cardinality(gen[g].picks) + Cardinality(openPoll) <= OpenAutoCap
        BY <2>1, <2>3 DEF GenTaskOK
    <3>2. Cardinality(gen[g].picks) \in Nat
      <4>1. gen[g].picks \subseteq Stems
          BY DEF GenInv, GenTypeOK
      <4> QED
          BY <4>1, GeneratorAssumption, FS_Subset, FS_CardinalityType
    <3> QED
        BY <1>3, <3>1, <3>2, GeneratorAssumption
  <2> QED
      BY <1>1, <2>1, <2>2, <2>3 DEF GenTaskOK
<1>8. \A g, h \in Generators : gen'[g].pc # "idle" /\ gen'[h].pc # "idle" => g = h
    BY <1>1 DEF GenInv
<1> QED
    BY <1>3, <1>4, <1>5, <1>7, <1>8 DEF GenInv

\* Every step of a run, of time and of the polls keeps the invariant.
LEMMA GenInvStep == GenInv /\ [GenNext]_genVars => GenInv'
<1> SUFFICES ASSUME GenInv, [GenNext]_genVars PROVE GenInv'
    OBVIOUS
<1>0. /\ gen \in [Generators -> GenTasks] /\ pollBlock \in PollBlocks /\ genLock \in BOOLEAN
      /\ lastBlock \in PollBlocks \cup {0}
      /\ \A g \in Generators : gen[g] \in GenTasks /\ GenTaskOK(gen[g])
    BY DEF GenInv, GenTypeOK, GenTasks
<1>1. ASSUME NEW g \in Generators, GenLocked(g) PROVE GenInv'
  <2>1. PICK n \in GenTasks : n = [IdleGen EXCEPT !.pc = "start"]
      BY DEF IdleGen, GenTasks
  <2>2. n.pc = "start" /\ gen' = [gen EXCEPT ![g] = n]
      BY <1>1, <2>1 DEF GenLocked, GenGoes, IdleGen
  <2>3. GenTaskOK(n)'
      BY <1>1, <2>2 DEF GenLocked, GenTaskOK
  <2> QED
      BY <1>0, <1>1, <2>2, <2>3, GenGoesOn DEF GenLocked
<1>2. ASSUME NEW g \in Generators, StartBlock(g) PROVE GenInv'
  <2>1. CASE lastBlock = pollBlock
    <3>1. gen' = [gen EXCEPT ![g] = IdleGen] /\ GenTaskOK(IdleGen)'
        BY <1>2, <2>1, IdleGenOK DEF StartBlock, GenGoes, GenTaskOK
    <3> QED
        BY <1>0, <1>2, <3>1, GenGoesOn, IdleGenOK DEF StartBlock
  <2>2. CASE lastBlock # pollBlock
    <3>1. PICK n \in GenTasks : n = [IdleGen EXCEPT !.pc = "read", !.block = pollBlock]
        BY <1>0 DEF IdleGen, GenTasks
    <3>2. n.pc = "read" /\ n.block = pollBlock /\ gen' = [gen EXCEPT ![g] = n]
        BY <1>2, <2>2, <3>1 DEF StartBlock, GenGoes, IdleGen
    <3>3. GenTaskOK(n)'
        BY <1>0, <1>2, <3>2 DEF StartBlock, GenTaskOK
    <3> QED
        BY <1>0, <1>2, <3>2, <3>3, GenGoesOn DEF StartBlock
  <2> QED
      BY <2>1, <2>2
<1>3. ASSUME NEW g \in Generators, NEW picks \in SUBSET Stems, PickDrafts(g, picks) PROVE GenInv'
  <2>1. PICK n \in GenTasks : n = [gen[g] EXCEPT !.pc = "insert", !.picks = picks]
      BY <1>0 DEF GenTasks
  <2>2. /\ n.pc = "insert" /\ n.picks = picks /\ n.block = gen[g].block
        /\ gen' = [gen EXCEPT ![g] = n]
      BY <1>0, <1>3, <2>1 DEF PickDrafts, GenGoes, GenTasks
  <2>3. GenTaskOK(n)'
      BY <1>0, <1>3, <2>2 DEF PickDrafts, GenTaskOK, Asked
  <2> QED
      BY <1>0, <1>3, <2>2, <2>3, GenGoesOn DEF PickDrafts
<1>4. ASSUME NEW g \in Generators, BlockDone(g) PROVE GenInv'
  <2>1. gen' = [gen EXCEPT ![g] = IdleGen] /\ GenTaskOK(IdleGen)'
      BY <1>4, IdleGenOK DEF BlockDone, GenGoes, GenTaskOK
  <2>2. lastBlock' \in PollBlocks
      BY <1>0, <1>4 DEF BlockDone, GenTaskOK
  <2> QED
      BY <1>0, <1>4, <2>1, <2>2, GenGoesOn, IdleGenOK DEF BlockDone
<1>5. ASSUME NEW g \in Generators, GenFails(g) PROVE GenInv'
  <2>1. gen' = [gen EXCEPT ![g] = IdleGen] /\ GenTaskOK(IdleGen)'
      BY <1>5, IdleGenOK DEF GenFails, GenGoes, GenTaskOK
  <2> QED
      BY <1>0, <1>5, <2>1, GenGoesOn, IdleGenOK DEF GenFails
<1>6. ASSUME NextPollBlock \/ GenLockExpires \/ UNCHANGED genVars PROVE GenInv'
  <2>1. UNCHANGED <<openPoll, closedPoll, lastBlock, gen>>
      BY <1>6 DEF NextPollBlock, GenLockExpires, genVars
  <2>2. pollBlock' \in PollBlocks
      BY <1>0, <1>6, GeneratorAssumption DEF NextPollBlock, GenLockExpires, genVars, PollBlocks
  <2>3. genLock' \in BOOLEAN
      BY <1>0, <1>6 DEF NextPollBlock, GenLockExpires, genVars
  <2>4. \A g \in Generators : gen[g].pc # "idle" => genLock'
      BY <1>0, <1>6 DEF NextPollBlock, GenLockExpires, genVars, GenTaskOK
  <2>5. GenTypeOK' /\ GeneratorSafety'
      BY <2>1, <2>2, <2>3 DEF GenInv, GenTypeOK, GeneratorSafety, OneOpenPollPerStem, OpenPollsCapped
  <2>6. \A g \in Generators : GenTaskOK(gen[g])'
      BY <1>0, <2>1, <2>4 DEF GenTaskOK, Asked
  <2> QED
      BY <2>1, <2>5, <2>6 DEF GenInv
<1> QED
    BY <1>1, <1>2, <1>3, <1>4, <1>5, <1>6, insertKeeps, PollEndsKeeps DEF GenNext

\* Whatever runs fail half way and are repeated, and however the block changes under
\* them, the open automatic polls ask different questions and are no more than
\* OPEN_AUTO_CAP (predictions-cron.service.ts:22-23, 76-80).
THEOREM GeneratorSafetyHolds == GenSpec => [](GenTypeOK /\ GeneratorSafety)
<1>1. GenInv => GenTypeOK /\ GeneratorSafety
    BY DEF GenInv
<1> QED
    BY GenInvInit, GenInvStep, <1>1, PTL DEF GenSpec

-----------------------------------------------------------------------------
(* The votes *)

PollTask == [pc: {"idle", "run", "resolve", "counts", "group", "seed", "create", "bump"},
             user: Voters \cup {NoVoter}, option: Choice, counted: Count \cup {NoTally}]

\* The votes for an option that are still to be counted, and all of them.
Bumps(o) == {t \in PollRequests : pollTask[t].pc = "bump" /\ pollTask[t].option = o}
Supporters(o) == {v \in Voters : ballot[v] = o}

\* A vote is counted at most twice: in the rows a seed has read, and after that.
OptionOK(o) ==
  /\ IsFiniteSet(Bumps(o)) /\ Cardinality(Bumps(o)) <= Cardinality(Supporters(o))
  /\ tally # NoTally => tally[o] + Cardinality(Bumps(o)) <= 2 * Cardinality(Supporters(o))

\* What a task stands for: a voter's request, a view, or a run of the resolver.
PollTaskOK(t, n) ==
  /\ n.pc = "idle" => n.user = NoVoter
  /\ n.user # NoVoter => t \in PollRequests /\ n.option \in PollOptions
  /\ n.pc \in {"create", "bump"} => n.user # NoVoter
  /\ n.pc \in {"run", "resolve"} => t \in Resolvers /\ n.user = NoVoter
  /\ n.pc = "seed" => /\ n.counted \in Count
                      /\ \A o \in PollOptions : n.counted[o] <= Cardinality(Supporters(o))

\* What a seed is about to write is what the rows say, unless the tally was disturbed.
SeedsAgree ==
  ~disturbed => \A s \in PollTasks : pollTask[s].pc = "seed" =>
                  /\ pollTask[s].counted = Votes
                  /\ \A t \in PollTasks : pollTask[t].pc # "bump"

PollInv ==
  /\ PollTypeOK /\ TallyAgrees /\ SeedsAgree
  /\ \A o \in PollOptions : OptionOK(o)
  /\ \A t \in PollTasks : PollTaskOK(t, pollTask[t])

\* A task at rest.
LEMMA IdlePollOK == IdlePoll \in PollTask /\ IdlePoll.pc = "idle" /\ IdlePoll.user = NoVoter
BY DEF IdlePoll, PollTask, Choice

\* Supporters are counted by natural numbers, and no more than there are voters.
LEMMA SupportersCount ==
    ASSUME NEW o
    PROVE  /\ IsFiniteSet(Supporters(o)) /\ Cardinality(Supporters(o)) \in Nat
           /\ Cardinality(Voters) \in Nat /\ Cardinality(Supporters(o)) <= Cardinality(Voters)
<1>1. Supporters(o) \subseteq Voters
    BY DEF Supporters
<1>2. IsFiniteSet(Voters)
    BY PredictionsAssumption
<1>3. IsFiniteSet(Supporters(o)) /\ Cardinality(Supporters(o)) <= Cardinality(Voters)
    BY <1>1, <1>2, FS_Subset
<1> QED
    BY <1>2, <1>3, FS_CardinalityType

\* No vote is cast at the start.
LEMMA PollInvInit == PollInit => PollInv
<1> SUFFICES ASSUME PollInit PROVE PollInv
    OBVIOUS
<1>1. \A t \in PollTasks : pollTask[t] = IdlePoll
    BY DEF PollInit
<1>2. PollTypeOK
  <2>1. pollTask \in [PollTasks -> PollTask]
      BY IdlePollOK DEF PollInit
  <2>2. poll \in [status: {"ACTIVE", "RESOLVED", "EXPIRED"}, outcome: Choice] /\ ballot \in [Voters -> Choice]
      BY DEF PollInit, Choice
  <2> QED
      BY <2>1, <2>2 DEF PollInit, PollTypeOK, PollTask
<1>3. ASSUME NEW o \in PollOptions PROVE OptionOK(o)
  <2>1. Bumps(o) = {}
      BY <1>1, IdlePollOK DEF Bumps, PollTasks
  <2>2. IsFiniteSet(Bumps(o)) /\ Cardinality(Bumps(o)) = 0
      BY <2>1, FS_EmptySet
  <2> QED
      BY <2>2, SupportersCount DEF OptionOK, PollInit
<1>4. \A t \in PollTasks : PollTaskOK(t, pollTask[t])
    BY <1>1, IdlePollOK DEF PollTaskOK
<1>5. TallyAgrees /\ SeedsAgree
    BY <1>1, IdlePollOK DEF PollInit, TallyAgrees, SeedsAgree
<1> QED
    BY <1>2, <1>3, <1>4, <1>5 DEF PollInv

\* The tally of an undisturbed poll, in the terms of the invariant.
LEMMA TallyTerms ==
    TallyAgrees <=> (~disturbed /\ tally # NoTally =>
                       \A o \in PollOptions : tally[o] + Cardinality(Bumps(o)) = Cardinality(Supporters(o)))
BY DEF TallyAgrees, Bumps, Supporters, Votes

\* The same of the next state.
LEMMA TallyTermsNext ==
    ASSUME ~disturbed' => \A o \in PollOptions :
             tally' # NoTally => tally'[o] + Cardinality(Bumps(o)') = Cardinality(Supporters(o)')
    PROVE  TallyAgrees'
BY DEF TallyAgrees, Bumps, Supporters, Votes

\* A task that neither holds nor takes up a count goes on; it may write what it has
\* read from the rows.
LEMMA PollGoesOn ==
    ASSUME PollInv, NEW t \in PollTasks, NEW n \in PollTask, pollTask' = [pollTask EXCEPT ![t] = n],
           pollTask[t].pc # "bump", n.pc # "bump", PollTaskOK(t, n), UNCHANGED ballot,
           disturbed' \in BOOLEAN, disturbed => disturbed',
           poll' \in [status: {"ACTIVE", "RESOLVED", "EXPIRED"}, outcome: Choice],
           pollTime' \in {"open", "over", "late"}, resolveLock' \in BOOLEAN,
           tally' = tally \/ (pollTask[t].pc = "seed" /\ tally' = pollTask[t].counted),
           n.pc = "seed" => n.counted = Votes /\ (~disturbed' => ~Others(t, "bump"))
    PROVE  PollInv'
<1>0. /\ pollTask \in [PollTasks -> PollTask] /\ ballot \in [Voters -> Choice]
      /\ \A s \in PollTasks : pollTask'[s] = IF s = t THEN n ELSE pollTask[s]
    BY DEF PollInv, PollTypeOK, PollTask
<1>1. \A o : Bumps(o)' = Bumps(o) /\ Supporters(o)' = Supporters(o)
    BY <1>0 DEF Bumps, Supporters, PollTasks
<1>2. Votes' = Votes
    BY DEF Votes
<1>3. pollTask' \in [PollTasks -> PollTask]
    BY <1>0
<1>4. PollTaskOK(t, pollTask[t])
    BY DEF PollInv
<1>5. PollTypeOK'
  <2>1. tally' \in Count \cup {NoTally}
      BY <1>4 DEF PollInv, PollTypeOK, PollTaskOK
  <2> QED
      BY <1>3, <2>1 DEF PollInv, PollTypeOK, PollTask
<1>6. ASSUME NEW s \in PollTasks PROVE PollTaskOK(s, pollTask[s])'
  <2>1. PollTaskOK(s, pollTask'[s])
      BY <1>0 DEF PollInv
  <2> QED
      BY <1>1, <2>1 DEF PollTaskOK, Count
<1>7. ASSUME NEW o \in PollOptions PROVE OptionOK(o)'
  <2>1. OptionOK(o)
      BY DEF PollInv
  <2>2. CASE tally' = tally
      BY <1>1, <2>1, <2>2 DEF OptionOK
  <2>3. CASE pollTask[t].pc = "seed" /\ tally' = pollTask[t].counted
    <3>1. pollTask[t].counted[o] \in Nat /\ pollTask[t].counted[o] <= Cardinality(Supporters(o))
        BY <1>4, <2>3, SupportersCount DEF PollTaskOK, Count
    <3>2. Cardinality(Bumps(o)) \in Nat
        BY <2>1, FS_CardinalityType DEF OptionOK
    <3> QED
        BY <1>1, <2>1, <2>3, <3>1, <3>2, SupportersCount DEF OptionOK
  <2> QED
      BY <2>2, <2>3
<1>8. SeedsAgree'
    BY <1>0, <1>2 DEF PollInv, SeedsAgree, Others
<1>9. TallyAgrees'
  <2>1. CASE tally' = tally
      BY <1>1, <1>2, <2>1 DEF PollInv, TallyAgrees, Bumps
  <2>2. CASE pollTask[t].pc = "seed" /\ tally' = pollTask[t].counted
    <3>1. ASSUME ~disturbed', NEW o \in PollOptions
          PROVE  tally'[o] + Cardinality(Bumps(o)) = Votes[o]
      <4>1. tally' = Votes /\ \A s \in PollTasks : pollTask[s].pc # "bump"
          BY <2>2, <3>1 DEF PollInv, SeedsAgree
      <4>2. Bumps(o) = {}
          BY <4>1 DEF Bumps, PollTasks
      <4>3. Cardinality(Bumps(o)) = 0
          BY <4>2, FS_EmptySet
      <4>4. Votes[o] \in Nat
          BY SupportersCount DEF Votes, Supporters
      <4> QED
          BY <4>1, <4>3, <4>4
    <3>2. \A o \in PollOptions : Votes[o] = Cardinality(Supporters(o))
        BY DEF Votes, Supporters
    <3> QED
        BY <1>1, <3>1, <3>2, TallyTermsNext
  <2> QED
      BY <2>1, <2>2
<1> QED
    BY <1>5, <1>6, <1>7, <1>8, <1>9 DEF PollInv

\* A vote that was to be counted is counted, or its count is lost: the tally has one
\* more and the counts to come one less, or the tally counts as disturbed.
LEMMA CountLeaves ==
    ASSUME PollInv, NEW t \in PollTasks, pollTask[t].pc = "bump",
           pollTask' = [pollTask EXCEPT ![t] = IdlePoll],
           UNCHANGED <<poll, pollTime, ballot, resolveLock>>, disturbed' \in BOOLEAN,
           disturbed => disturbed',
           \/ tally' = tally /\ disturbed'
           \/ /\ tally' = [(IF tally = NoTally THEN [p \in PollOptions |-> 0] ELSE tally)
                             EXCEPT ![pollTask[t].option] = @ + 1]
              /\ tally = NoTally => disturbed'
    PROVE  PollInv'
<1>a. PICK x \in PollOptions : x = pollTask[t].option
    BY DEF PollInv, PollTypeOK, PollTask, PollTaskOK
<1> DEFINE before == IF tally = NoTally THEN [p \in PollOptions |-> 0] ELSE tally
<1>0. /\ pollTask \in [PollTasks -> PollTask] /\ x \in PollOptions /\ t \in PollRequests
      /\ ballot \in [Voters -> Choice] /\ tally \in Count \cup {NoTally}
      /\ \A s \in PollTasks : pollTask'[s] = IF s = t THEN IdlePoll ELSE pollTask[s]
    BY <1>a DEF PollInv, PollTypeOK, PollTask, PollTaskOK
<1>1. /\ \A o : Supporters(o)' = Supporters(o)
      /\ \A o : o # x => Bumps(o)' = Bumps(o)
      /\ Bumps(x)' = Bumps(x) \ {t} /\ t \in Bumps(x)
    BY <1>0, <1>a, IdlePollOK DEF Bumps, Supporters, PollTasks
<1>2. /\ Votes' = Votes /\ \A o \in PollOptions : Votes[o] = Cardinality(Supporters(o))
    BY DEF Votes, Supporters
<1>3. pollTask' \in [PollTasks -> PollTask]
    BY <1>0, IdlePollOK
<1>4. \A o \in PollOptions : OptionOK(o) /\ Cardinality(Bumps(o)) \in Nat
    BY FS_CardinalityType DEF PollInv, OptionOK
<1>5. IsFiniteSet(Bumps(x)') /\ Cardinality(Bumps(x)') = Cardinality(Bumps(x)) - 1
    BY <1>0, <1>1, <1>4, FS_RemoveElement DEF OptionOK
<1>6. /\ before \in [PollOptions -> Nat]
      /\ \A o \in PollOptions : before[o] + Cardinality(Bumps(o)) <= 2 * Cardinality(Supporters(o))
  <2>1. CASE tally = NoTally
    <3>1. before = [p \in PollOptions |-> 0]
        BY <2>1
    <3> QED
        BY <1>4, <3>1, SupportersCount DEF OptionOK
  <2>2. CASE tally # NoTally
    <3>1. before = tally /\ tally \in [PollOptions -> Nat]
        BY <1>0, <2>2, SupportersCount DEF Count
    <3> QED
        BY <1>4, <2>2, <3>1 DEF OptionOK
  <2> QED
      BY <2>1, <2>2
<1>7. tally # NoTally => before = tally
    OBVIOUS
<1>8. \/ tally' = tally /\ disturbed'
      \/ tally' = [before EXCEPT ![x] = @ + 1] /\ (tally = NoTally => disturbed')
    BY <1>a
<1> HIDE DEF before
<1>9. ASSUME NEW o \in PollOptions PROVE OptionOK(o)'
  <2>0. /\ OptionOK(o) /\ Cardinality(Bumps(o)) \in Nat /\ Cardinality(Supporters(o)) \in Nat
        /\ before[o] \in Nat /\ before[o] + Cardinality(Bumps(o)) <= 2 * Cardinality(Supporters(o))
      BY <1>4, <1>6, SupportersCount
  <2>1. /\ IsFiniteSet(Bumps(o)') /\ Cardinality(Bumps(o)') \in Int
        /\ Cardinality(Bumps(o)') <= Cardinality(Bumps(o))
        /\ o = x => Cardinality(Bumps(o)') = Cardinality(Bumps(o)) - 1
    <3>1. CASE o = x
        BY <1>5, <2>0, <3>1
    <3>2. CASE o # x
      <4>1. Bumps(o)' = Bumps(o)
          BY <1>1, <3>2
      <4> QED
          BY <2>0, <3>2, <4>1 DEF OptionOK
    <3> QED
        BY <3>1, <3>2
  <2>2. CASE tally' = tally
    <3>1. tally # NoTally => tally[o] \in Nat
        BY <1>6, <1>7
    <3> QED
        BY <1>1, <2>0, <2>1, <2>2, <3>1 DEF OptionOK
  <2>3. CASE tally' = [before EXCEPT ![x] = @ + 1]
    <3>1. tally'[o] = IF o = x THEN before[o] + 1 ELSE before[o]
        BY <1>6, <2>3
    <3>2. tally'[o] + Cardinality(Bumps(o)') <= 2 * Cardinality(Supporters(o))
        BY <1>1, <2>0, <2>1, <3>1
    <3> QED
        BY <1>1, <2>0, <2>1, <3>2 DEF OptionOK
  <2> QED
      BY <1>8, <2>2, <2>3
<1>10. PollTypeOK'
  <2>1. tally' \in Count \cup {NoTally}
    <3>1. CASE tally' = tally
        BY <1>0, <3>1
    <3>2. CASE tally' = [before EXCEPT ![x] = @ + 1]
      <4>1. ASSUME NEW o \in PollOptions PROVE tally'[o] \in 0..(2 * Cardinality(Voters))
        <5>1. /\ tally'[o] = IF o = x THEN before[o] + 1 ELSE before[o]
              /\ before[o] \in Nat /\ before[o] + Cardinality(Bumps(o)) <= 2 * Cardinality(Supporters(o))
            BY <1>6, <3>2
        <5>2. o = x => Cardinality(Bumps(o)) >= 1
          <6>1. Cardinality(Bumps(x)') \in Nat /\ Cardinality(Bumps(x)) \in Nat
              BY <1>0, <1>4, <1>5, FS_CardinalityType
          <6> QED
              BY <6>1, <1>5
        <5> QED
            BY <1>4, <5>1, <5>2, SupportersCount
      <4>2. tally' = [o \in PollOptions |-> tally'[o]]
          BY <1>6, <3>2
      <4> QED
          BY <4>1, <4>2 DEF Count
    <3> QED
        BY <1>8, <3>1, <3>2
  <2> QED
      BY <1>3, <2>1 DEF PollInv, PollTypeOK, PollTask
<1>11. ASSUME NEW s \in PollTasks PROVE PollTaskOK(s, pollTask[s])'
  <2>1. PollTaskOK(s, pollTask'[s])
      BY <1>0, IdlePollOK DEF PollInv, PollTaskOK
  <2> QED
      BY <1>1, <2>1 DEF PollTaskOK, Count
<1>12. SeedsAgree'
    BY <1>0, <1>2, IdlePollOK DEF PollInv, SeedsAgree
<1>13. TallyAgrees'
  <2>1. ASSUME ~disturbed', NEW o \in PollOptions, tally' # NoTally
        PROVE  tally'[o] + Cardinality(Bumps(o)') = Cardinality(Supporters(o)')
    <3>1. tally # NoTally /\ ~disturbed /\ tally' = [before EXCEPT ![x] = @ + 1] /\ before = tally
        BY <1>7, <1>8, <2>1
    <3>2. tally[o] + Cardinality(Bumps(o)) = Cardinality(Supporters(o)) /\ tally[o] \in Nat
        BY <1>6, <3>1, TallyTerms DEF PollInv
    <3>3. tally'[o] = IF o = x THEN tally[o] + 1 ELSE tally[o]
        BY <1>6, <3>1
    <3>4. Supporters(o)' = Supporters(o) /\ Cardinality(Bumps(o)) \in Nat
        BY <1>1, <1>4
    <3>5. CASE o = x
        BY <1>5, <3>2, <3>3, <3>4, <3>5
    <3>6. CASE o # x
      <4>1. Bumps(o)' = Bumps(o)
          BY <1>1, <3>6
      <4> QED
          BY <3>2, <3>3, <3>4, <3>6, <4>1
    <3> QED
        BY <3>5, <3>6
  <2> QED
      BY <2>1, TallyTermsNext
<1> QED
    BY <1>9, <1>10, <1>11, <1>12, <1>13 DEF PollInv

\* A new row: one vote more, one count more to come.
LEMMA VoteJoins ==
    ASSUME PollInv, NEW t \in PollRequests, CreateVote(t), ballot[pollTask[t].user] = NoOption
    PROVE  PollInv'
<1>a. PICK v \in Voters, x \in PollOptions : v = pollTask[t].user /\ x = pollTask[t].option
    BY DEF PollInv, PollTypeOK, PollTask, PollTaskOK, CreateVote, PollTasks
<1> DEFINE n == [pollTask[t] EXCEPT !.pc = "bump"]
<1>0. /\ pollTask \in [PollTasks -> PollTask] /\ t \in PollTasks /\ pollTask[t].pc = "create"
      /\ v # NoVoter /\ ballot \in [Voters -> Choice]
    BY <1>a DEF PollInv, PollTypeOK, PollTask, PollTaskOK, CreateVote, PollTasks
<1>1. /\ ballot' = [ballot EXCEPT ![v] = x] /\ pollTask' = [pollTask EXCEPT ![t] = n]
      /\ disturbed' = (disturbed \/ Others(t, "seed")) /\ UNCHANGED <<poll, pollTime, tally, resolveLock>>
    BY <1>a DEF CreateVote, Goes, Remember
<1>2. n \in PollTask /\ n.pc = "bump" /\ n.user = v /\ n.option = x
    BY <1>0, <1>a DEF PollTask
<1> HIDE DEF n
<1>3. /\ \A s \in PollTasks : pollTask'[s] = IF s = t THEN n ELSE pollTask[s]
      /\ pollTask' \in [PollTasks -> PollTask]
    BY <1>0, <1>1, <1>2
<1>4. /\ \A u \in Voters : ballot'[u] = IF u = v THEN x ELSE ballot[u]
      /\ ballot' \in [Voters -> Choice] /\ x # NoOption
    BY <1>0, <1>1, PredictionsAssumption DEF Choice
<1>5. /\ \A o \in PollOptions : o # x => Supporters(o)' = Supporters(o)
      /\ Supporters(x)' = Supporters(x) \cup {v} /\ v \notin Supporters(x)
  <2>1. \A o \in PollOptions : ballot[v] # o
      BY <1>a, PredictionsAssumption
  <2> QED
      BY <1>0, <1>4, <2>1 DEF Supporters
<1>6. /\ \A o \in PollOptions : o # x => Bumps(o)' = Bumps(o)
      /\ Bumps(x)' = Bumps(x) \cup {t} /\ t \notin Bumps(x)
    BY <1>0, <1>2, <1>3 DEF Bumps, PollTasks
<1>7. \A o \in PollOptions : /\ OptionOK(o) /\ Cardinality(Bumps(o)) \in Nat
                             /\ Cardinality(Supporters(o)) \in Nat
    BY FS_CardinalityType, SupportersCount DEF PollInv, OptionOK
<1>8. /\ IsFiniteSet(Bumps(x)') /\ Cardinality(Bumps(x)') = Cardinality(Bumps(x)) + 1
      /\ Cardinality(Supporters(x)') = Cardinality(Supporters(x)) + 1
  <2>1. IsFiniteSet(Bumps(x)) /\ IsFiniteSet(Supporters(x))
      BY <1>0, <1>7, SupportersCount DEF OptionOK
  <2>2. IsFiniteSet(Bumps(x)') /\ Cardinality(Bumps(x)') = Cardinality(Bumps(x)) + 1
      BY <1>6, <2>1, FS_AddElement
  <2>3. Cardinality(Supporters(x)') = Cardinality(Supporters(x)) + 1
      BY <1>5, <2>1, FS_AddElement
  <2> QED
      BY <2>2, <2>3
<1>9. ASSUME NEW o \in PollOptions
      PROVE  /\ IsFiniteSet(Bumps(o)')
             /\ Cardinality(Bumps(o)') = Cardinality(Bumps(o)) + (IF o = x THEN 1 ELSE 0)
             /\ Cardinality(Supporters(o)') = Cardinality(Supporters(o)) + (IF o = x THEN 1 ELSE 0)
  <2>1. CASE o = x
      BY <1>8, <2>1
  <2>2. CASE o # x
    <3>1. Bumps(o)' = Bumps(o) /\ Supporters(o)' = Supporters(o)
        BY <1>5, <1>6, <2>2
    <3>2. OptionOK(o) /\ Cardinality(Bumps(o)) \in Nat /\ Cardinality(Supporters(o)) \in Nat
        BY <1>7
    <3> QED
        BY <2>2, <3>1, <3>2 DEF OptionOK
  <2> QED
      BY <2>1, <2>2
<1>10. tally \in Count \cup {NoTally} /\ \A o \in PollOptions : tally # NoTally => tally[o] \in Nat
  <2>1. tally \in Count \cup {NoTally}
      BY DEF PollInv, PollTypeOK
  <2> QED
      BY <2>1, SupportersCount DEF Count
<1>11. ASSUME NEW o \in PollOptions PROVE OptionOK(o)'
    BY <1>1, <1>7, <1>9, <1>10 DEF OptionOK
<1>12. TallyAgrees'
  <2>1. ASSUME ~disturbed', NEW o \in PollOptions, tally' # NoTally
        PROVE  tally'[o] + Cardinality(Bumps(o)') = Cardinality(Supporters(o)')
    <3>1. tally # NoTally /\ ~disturbed /\ tally' = tally
        BY <1>1, <2>1
    <3>2. tally[o] + Cardinality(Bumps(o)) = Cardinality(Supporters(o)) /\ tally[o] \in Nat
        BY <1>10, <3>1, TallyTerms DEF PollInv
    <3> QED
        BY <1>7, <1>9, <3>1, <3>2
  <2> QED
      BY <2>1, TallyTermsNext
<1>13. SeedsAgree'
    BY <1>1, <1>2, <1>3 DEF SeedsAgree, Others
<1>14. PollTypeOK'
  <2>1. disturbed' \in BOOLEAN
      BY <1>1
  <2> QED
      BY <1>1, <1>3, <1>4, <2>1 DEF PollInv, PollTypeOK, PollTask
<1>15. ASSUME NEW s \in PollTasks PROVE PollTaskOK(s, pollTask[s])'
  <2>1. CASE s = t
    <3>1. pollTask'[s] = n
        BY <1>3, <2>1
    <3> QED
        BY <1>0, <1>2, <2>1, <3>1 DEF PollTaskOK
  <2>2. CASE s # t
    <3>1. pollTask'[s] = pollTask[s] /\ PollTaskOK(s, pollTask[s])
        BY <1>3, <2>2 DEF PollInv
    <3>2. ASSUME pollTask[s].pc = "seed", NEW o \in PollOptions
          PROVE  pollTask[s].counted[o] <= Cardinality(Supporters(o)')
      <4>1. pollTask[s].counted[o] \in Nat /\ pollTask[s].counted[o] <= Cardinality(Supporters(o))
          BY <3>1, <3>2, SupportersCount DEF PollTaskOK, Count
      <4> QED
          BY <1>7, <1>9, <4>1
    <3> QED
        BY <3>1, <3>2 DEF PollTaskOK, Count
  <2> QED
      BY <2>1, <2>2
<1> QED
    BY <1>11, <1>12, <1>13, <1>14, <1>15 DEF PollInv

\* Where a task goes with the counts: to the row of its vote, or it is done.
LEMMA AfterCountsOK ==
    ASSUME PollInv, NEW t \in PollTasks
    PROVE  AfterCounts(t) \in PollTask /\ PollTaskOK(t, AfterCounts(t)) /\ AfterCounts(t).pc \in {"idle", "create"}
<1>1. pollTask[t] \in PollTask /\ PollTaskOK(t, pollTask[t])
    BY DEF PollInv, PollTypeOK, PollTask
<1>2. CASE pollTask[t].user = NoVoter
    BY <1>2, IdlePollOK DEF AfterCounts, PollTaskOK
<1>3. CASE pollTask[t].user # NoVoter
  <2>1. /\ AfterCounts(t) = [pollTask[t] EXCEPT !.pc = "create", !.counted = NoTally]
        /\ AfterCounts(t) \in PollTask /\ AfterCounts(t).pc = "create"
        /\ AfterCounts(t).user = pollTask[t].user /\ AfterCounts(t).option = pollTask[t].option
      BY <1>1, <1>3 DEF AfterCounts, PollTask
  <2> QED
      BY <1>1, <1>3, <2>1 DEF PollTaskOK
<1> QED
    BY <1>2, <1>3

\* The steps of requests, up to the vote row.
LEMMA RequestKeeps ==
    ASSUME PollInv, NEW t \in PollTasks,
           \/ t \in PollRequests /\ (\E v \in Voters, o \in PollOptions : vote(t, v, o))
           \/ t \in PollRequests /\ present(t)
           \/ \E ok \in BOOLEAN : ReadHash(t, ok) \/ SeedHash(t, ok)
           \/ GroupVotes(t)
    PROVE  PollInv'
<1>0. /\ pollTask[t] \in PollTask /\ PollTaskOK(t, pollTask[t])
      /\ poll \in [status: {"ACTIVE", "RESOLVED", "EXPIRED"}, outcome: Choice]
      /\ pollTime \in {"open", "over", "late"} /\ resolveLock \in BOOLEAN /\ disturbed \in BOOLEAN
      /\ UNCHANGED <<poll, pollTime, resolveLock, ballot>>
    BY DEF PollInv, PollTypeOK, PollTask, vote, present, ReadHash, SeedHash, GroupVotes
<1>1. ASSUME t \in PollRequests, NEW v \in Voters, NEW o \in PollOptions, vote(t, v, o) PROVE PollInv'
  <2>1. PICK n \in PollTask : n = [IdlePoll EXCEPT !.pc = "counts", !.user = v, !.option = o]
      BY DEF IdlePoll, PollTask, Choice
  <2>2. /\ n.pc = "counts" /\ n.user = v /\ n.option = o /\ pollTask' = [pollTask EXCEPT ![t] = n]
        /\ pollTask[t].pc = "idle" /\ UNCHANGED <<tally, disturbed>>
      BY <1>1, <2>1 DEF vote, Remember, IdlePoll
  <2>3. PollTaskOK(t, n)
      BY <1>1, <2>2 DEF PollTaskOK
  <2> QED
      BY <1>0, <2>2, <2>3, PollGoesOn
<1>2. ASSUME t \in PollRequests, present(t) PROVE PollInv'
  <2>1. PICK n \in PollTask : n = [IdlePoll EXCEPT !.pc = "counts"]
      BY DEF IdlePoll, PollTask, Choice
  <2>2. /\ n.pc = "counts" /\ n.user = NoVoter /\ pollTask' = [pollTask EXCEPT ![t] = n]
        /\ pollTask[t].pc = "idle" /\ UNCHANGED <<tally, disturbed>>
      BY <1>2, <2>1 DEF present, Remember, IdlePoll
  <2>3. PollTaskOK(t, n)
      BY <2>2 DEF PollTaskOK
  <2> QED
      BY <1>0, <2>2, <2>3, PollGoesOn
<1>3. ASSUME NEW ok \in BOOLEAN, ReadHash(t, ok) PROVE PollInv'
  <2>0. pollTask[t].pc = "counts" /\ UNCHANGED <<tally, disturbed>>
      BY <1>3 DEF ReadHash
  <2>1. CASE ok
    <3>1. PICK n \in PollTask : n = AfterCounts(t)
        BY AfterCountsOK
    <3>2. pollTask' = [pollTask EXCEPT ![t] = n] /\ PollTaskOK(t, n) /\ n.pc \in {"idle", "create"}
        BY <1>3, <2>1, <3>1, AfterCountsOK DEF ReadHash, Remember
    <3> QED
        BY <1>0, <2>0, <3>2, PollGoesOn
  <2>2. CASE ~ok
    <3>1. PICK n \in PollTask : n = [pollTask[t] EXCEPT !.pc = "group"]
        BY <1>0 DEF PollTask
    <3>2. /\ pollTask' = [pollTask EXCEPT ![t] = n] /\ n.pc = "group"
          /\ n.user = pollTask[t].user /\ n.option = pollTask[t].option
        BY <1>0, <1>3, <2>2, <3>1 DEF ReadHash, Goes, Remember, PollTask
    <3>3. PollTaskOK(t, n)
        BY <1>0, <3>2 DEF PollTaskOK
    <3> QED
        BY <1>0, <2>0, <3>2, <3>3, PollGoesOn
  <2> QED
      BY <2>1, <2>2
<1>4. ASSUME NEW ok \in BOOLEAN, SeedHash(t, ok) PROVE PollInv'
  <2>0. /\ pollTask[t].pc = "seed" /\ UNCHANGED disturbed
        /\ tally' = tally \/ tally' = pollTask[t].counted
      BY <1>4 DEF SeedHash
  <2>1. PICK n \in PollTask : n = AfterCounts(t)
      BY AfterCountsOK
  <2>2. pollTask' = [pollTask EXCEPT ![t] = n] /\ PollTaskOK(t, n) /\ n.pc \in {"idle", "create"}
      BY <1>4, <2>1, AfterCountsOK DEF SeedHash, Remember
  <2> QED
      BY <1>0, <2>0, <2>2, PollGoesOn
<1>5. ASSUME GroupVotes(t) PROVE PollInv'
  <2>0. /\ pollTask[t].pc = "group" /\ UNCHANGED tally
        /\ disturbed' = (disturbed \/ Others(t, "bump"))
      BY <1>5 DEF GroupVotes
  <2>1. Votes \in Count /\ \A o \in PollOptions : Votes[o] = Cardinality(Supporters(o))
    <3>1. \A o \in PollOptions : Votes[o] = Cardinality(Supporters(o))
        BY DEF Votes, Supporters
    <3>2. \A o \in PollOptions : Votes[o] \in 0..(2 * Cardinality(Voters))
        BY <3>1, SupportersCount
    <3>3. Votes = [o \in PollOptions |-> Votes[o]]
        BY DEF Votes
    <3> QED
        BY <3>1, <3>2, <3>3 DEF Count
  <2>2. PICK n \in PollTask : n = [pollTask[t] EXCEPT !.pc = "seed", !.counted = Votes]
      BY <1>0, <2>1 DEF PollTask
  <2>3. /\ pollTask' = [pollTask EXCEPT ![t] = n] /\ n.pc = "seed" /\ n.counted = Votes
        /\ n.user = pollTask[t].user /\ n.option = pollTask[t].option
      BY <1>0, <1>5, <2>2 DEF GroupVotes, Remember, PollTask
  <2>4. PollTaskOK(t, n)
      BY <1>0, <2>0, <2>1, <2>3, SupportersCount DEF PollTaskOK
  <2>5. disturbed' \in BOOLEAN /\ (~disturbed' => ~Others(t, "bump")) /\ (disturbed => disturbed')
      BY <1>0, <2>0
  <2> QED
      BY <1>0, <2>0, <2>3, <2>4, <2>5, PollGoesOn
<1> QED
    BY <1>1, <1>2, <1>3, <1>4, <1>5

\* The steps of the resolver.
LEMMA ResolverKeeps ==
    ASSUME PollInv, NEW t \in Resolvers, locked(t) \/ FindDue(t) \/ resolve(t)
    PROVE  PollInv'
<1>0. /\ t \in PollTasks /\ pollTask[t] \in PollTask /\ PollTaskOK(t, pollTask[t])
      /\ poll \in [status: {"ACTIVE", "RESOLVED", "EXPIRED"}, outcome: Choice]
      /\ pollTime \in {"open", "over", "late"} /\ resolveLock \in BOOLEAN /\ disturbed \in BOOLEAN
    BY DEF PollInv, PollTypeOK, PollTask, PollTasks
<1>1. /\ UNCHANGED <<pollTime, ballot, tally, disturbed>> /\ resolveLock' \in BOOLEAN
      /\ pollTask[t].pc \in {"idle", "run", "resolve"}
      /\ poll' \in [status: {"ACTIVE", "RESOLVED", "EXPIRED"}, outcome: Choice]
      /\ \/ pollTask' = [pollTask EXCEPT ![t] = IdlePoll]
         \/ \E pc \in {"run", "resolve", "counts"} : Goes(t, pc)
  <2>1. CASE locked(t)
      BY <1>0, <2>1 DEF locked
  <2>2. CASE FindDue(t)
      BY <1>0, <2>2 DEF FindDue, Remember
  <2>3. ASSUME NEW status \in {"RESOLVED", "EXPIRED"}, NEW outcome \in Choice, finish(t, status, outcome)
        PROVE  /\ UNCHANGED <<pollTime, ballot, tally, disturbed>> /\ resolveLock' \in BOOLEAN
               /\ pollTask[t].pc = "resolve" /\ Goes(t, "counts")
               /\ poll' \in [status: {"ACTIVE", "RESOLVED", "EXPIRED"}, outcome: Choice]
      BY <1>0, <2>3 DEF finish
  <2>4. CASE resolve(t)
    <3>1. CASE \E o \in PollOptions : finish(t, "RESOLVED", o)
        BY <2>3, <3>1 DEF Choice
    <3>2. CASE finish(t, "EXPIRED", NoOption)
        BY <2>3, <3>2 DEF Choice
    <3>3. CASE ~(\E o \in PollOptions : finish(t, "RESOLVED", o)) /\ ~finish(t, "EXPIRED", NoOption)
        BY <1>0, <2>4, <3>3 DEF resolve, Remember
    <3> QED
        BY <3>1, <3>2, <3>3
  <2> QED
      BY <2>1, <2>2, <2>4
<1>2. CASE pollTask' = [pollTask EXCEPT ![t] = IdlePoll]
  <2>1. PollTaskOK(t, IdlePoll)
      BY IdlePollOK DEF PollTaskOK
  <2> QED
      BY <1>0, <1>1, <1>2, <2>1, IdlePollOK, PollGoesOn
<1>3. ASSUME NEW pc \in {"run", "resolve", "counts"}, Goes(t, pc) PROVE PollInv'
  <2>1. PICK n \in PollTask : n = [pollTask[t] EXCEPT !.pc = pc]
      BY <1>0 DEF PollTask
  <2>2. pollTask' = [pollTask EXCEPT ![t] = n] /\ n.pc = pc /\ n.user = pollTask[t].user
      BY <1>0, <1>3, <2>1 DEF Goes, Remember, PollTask
  <2>3. PollTaskOK(t, n)
      BY <1>0, <1>1, <2>2 DEF PollTaskOK
  <2> QED
      BY <1>0, <1>1, <2>2, <2>3, PollGoesOn
<1> QED
    BY <1>1, <1>2, <1>3

\* Every step keeps the invariant.
LEMMA PollInvStep == PollInv /\ [PollNext]_pollVars => PollInv'
<1> SUFFICES ASSUME PollInv, [PollNext]_pollVars PROVE PollInv'
    OBVIOUS
<1>0. /\ pollTask \in [PollTasks -> PollTask]
      /\ poll \in [status: {"ACTIVE", "RESOLVED", "EXPIRED"}, outcome: Choice]
      /\ pollTime \in {"open", "over", "late"} /\ resolveLock \in BOOLEAN /\ disturbed \in BOOLEAN
      /\ PollTaskOK(0, IdlePoll) /\ PollRequests \subseteq PollTasks
    BY IdlePollOK DEF PollInv, PollTypeOK, PollTask, PollTaskOK, PollTasks
<1>1. ASSUME NEW t \in PollRequests, CreateVote(t) PROVE PollInv'
  <2>1. CASE ballot[pollTask[t].user] = NoOption
      BY <1>1, <2>1, VoteJoins
  <2>2. CASE ballot[pollTask[t].user] # NoOption
    <3>1. /\ pollTask' = [pollTask EXCEPT ![t] = IdlePoll] /\ pollTask[t].pc = "create"
          /\ UNCHANGED <<poll, pollTime, ballot, tally, resolveLock, disturbed>>
        BY <1>1, <2>2 DEF CreateVote, Remember
    <3>2. PollTaskOK(t, IdlePoll)
        BY IdlePollOK DEF PollTaskOK
    <3> QED
        BY <1>0, <3>1, <3>2, IdlePollOK, PollGoesOn
  <2> QED
      BY <2>1, <2>2
<1>2. ASSUME NEW t \in PollRequests, NEW ok \in BOOLEAN, BumpTally(t, ok) PROVE PollInv'
  <2>1. /\ pollTask[t].pc = "bump" /\ pollTask' = [pollTask EXCEPT ![t] = IdlePoll]
        /\ UNCHANGED <<poll, pollTime, ballot, resolveLock>>
        /\ disturbed' = (disturbed \/ ~ok \/ tally = NoTally)
        /\ tally' = IF ok THEN [(IF tally = NoTally THEN [p \in PollOptions |-> 0] ELSE tally)
                                  EXCEPT ![pollTask[t].option] = @ + 1]
                    ELSE tally
      BY <1>2 DEF BumpTally, Remember
  <2>2. disturbed' \in BOOLEAN /\ (disturbed => disturbed') /\ (~ok => disturbed') /\ (tally = NoTally => disturbed')
      BY <1>0, <2>1
  <2> QED
      BY <1>0, <2>1, <2>2, CountLeaves
<1>3. ASSUME NEW t \in PollTasks, PollDies(t) PROVE PollInv'
  <2>1. /\ pollTask' = [pollTask EXCEPT ![t] = IdlePoll]
        /\ UNCHANGED <<poll, pollTime, ballot, tally, resolveLock>>
        /\ disturbed' = (disturbed \/ pollTask[t].pc = "bump")
      BY <1>3 DEF PollDies, Remember
  <2>2. CASE pollTask[t].pc = "bump"
      BY <1>0, <2>1, <2>2, CountLeaves
  <2>3. CASE pollTask[t].pc # "bump"
    <3>1. PollTaskOK(t, IdlePoll)
        BY IdlePollOK DEF PollTaskOK
    <3>2. disturbed' = disturbed
        BY <1>0, <2>1, <2>3
    <3> QED
        BY <1>0, <2>1, <2>3, <3>1, <3>2, IdlePollOK, PollGoesOn
  <2> QED
      BY <2>2, <2>3
<1>4. ASSUME PollPasses \/ TallyExpires \/ ResolveLockExpires \/ UNCHANGED pollVars PROVE PollInv'
  <2>1. /\ UNCHANGED <<poll, ballot, pollTask, disturbed>> /\ tally' \in {tally, NoTally}
        /\ resolveLock' \in BOOLEAN /\ pollTime' \in {"open", "over", "late"}
      BY <1>0, <1>4 DEF PollPasses, TallyExpires, ResolveLockExpires, pollVars
  <2>2. \A o : Bumps(o)' = Bumps(o) /\ Supporters(o)' = Supporters(o)
      BY <2>1 DEF Bumps, Supporters
  <2>3. PollTypeOK'
      BY <2>1 DEF PollInv, PollTypeOK
  <2>4. TallyAgrees' /\ SeedsAgree'
      BY <2>1 DEF PollInv, TallyAgrees, SeedsAgree, Votes
  <2>5. \A o \in PollOptions : OptionOK(o)'
      BY <2>1, <2>2 DEF PollInv, OptionOK
  <2>6. \A t \in PollTasks : PollTaskOK(t, pollTask[t])'
      BY <2>1, <2>2 DEF PollInv, PollTaskOK, Count
  <2> QED
      BY <2>3, <2>4, <2>5, <2>6 DEF PollInv
<1>5. ASSUME NEW t \in PollRequests, (\E v \in Voters, o \in PollOptions : vote(t, v, o)) \/ present(t)
      PROVE  PollInv'
    BY <1>0, <1>5, RequestKeeps
<1>6. ASSUME NEW t \in PollTasks, (\E ok \in BOOLEAN : ReadHash(t, ok) \/ SeedHash(t, ok)) \/ GroupVotes(t)
      PROVE  PollInv'
    BY <1>6, RequestKeeps
<1> QED
    BY <1>1, <1>2, <1>3, <1>4, <1>5, <1>6, ResolverKeeps DEF PollNext

\* However votes and views interleave, the hash agrees with the vote rows, the counts
\* to come left out, as long as no seed overlapped a vote and no count was missed; and
\* even then it never counts a vote more than twice (predictions.service.ts:153).
THEOREM TallyAgreesHolds == PollSpec => [](PollTypeOK /\ TallyAgrees)
<1>1. PollInv => PollTypeOK /\ TallyAgrees
    BY DEF PollInv
<1> QED
    BY PollInvInit, PollInvStep, <1>1, PTL DEF PollSpec

-----------------------------------------------------------------------------
(* The outcome *)

\* While a run cannot outlast its lock, one run at a time is past the read of the due
\* polls, and the poll it is about to finish is still open.
OneResolver ==
  /\ \A t \in PollTasks : pollTask[t].pc \in {"run", "resolve"} => t \in Resolvers /\ resolveLock
  /\ \A s, t \in PollTasks : (/\ pollTask[s].pc \in {"run", "resolve"}
                              /\ pollTask[t].pc \in {"run", "resolve"}) => s = t
  /\ \A t \in PollTasks : pollTask[t].pc = "resolve" => poll.status = "ACTIVE"

\* A task goes on without a run of the resolver beginning.
LEMMA OthersRun ==
    ASSUME OneResolver, PollInv, NEW t \in PollTasks, NEW n \in PollTask,
           pollTask' = [pollTask EXCEPT ![t] = n], n.pc \notin {"run", "resolve"},
           UNCHANGED <<resolveLock, poll>>
    PROVE  OneResolver'
<1>1. \A s \in PollTasks : pollTask'[s] = IF s = t THEN n ELSE pollTask[s]
    BY DEF PollInv, PollTypeOK, PollTask
<1> QED
    BY <1>1 DEF OneResolver

\* Every step of a fast enough system keeps to one resolver.
LEMMA OneResolverStep ==
    ASSUME ~SlowResolvers, PollInv, OneResolver, [PollNext]_pollVars
    PROVE  OneResolver'
<1>0. /\ pollTask \in [PollTasks -> PollTask] /\ resolveLock \in BOOLEAN
      /\ PollRequests \subseteq PollTasks /\ Resolvers \subseteq PollTasks
      /\ \A t \in PollTasks : pollTask[t] \in PollTask /\ PollTaskOK(t, pollTask[t])
    BY DEF PollInv, PollTypeOK, PollTask, PollTasks
<1>1. ASSUME NEW t \in PollTasks, NEW pc \in {"group", "bump"}, Goes(t, pc), UNCHANGED <<resolveLock, poll>>
      PROVE  OneResolver'
  <2>1. PICK n \in PollTask : n = [pollTask[t] EXCEPT !.pc = pc]
      BY <1>0, <1>1 DEF PollTask
  <2>2. n.pc = pc /\ pollTask' = [pollTask EXCEPT ![t] = n]
      BY <1>0, <1>1, <2>1 DEF PollTask, Goes, Remember
  <2> QED
      BY <1>1, <2>2, OthersRun
<1>2. ASSUME NEW t \in PollTasks, NEW n \in PollTask, Remember(t, n), n.pc \notin {"run", "resolve"},
             UNCHANGED <<resolveLock, poll>>
      PROVE  OneResolver'
    BY <1>2, OthersRun DEF Remember
<1>3. ASSUME NEW t \in PollTasks, Remember(t, IdlePoll), UNCHANGED <<resolveLock, poll>> PROVE OneResolver'
    BY <1>2, <1>3, IdlePollOK
<1>4. ASSUME NEW t \in PollRequests, NEW v \in Voters, NEW o \in PollOptions, vote(t, v, o) PROVE OneResolver'
  <2>1. PICK n \in PollTask : n = [IdlePoll EXCEPT !.pc = "counts", !.user = v, !.option = o]
      BY DEF IdlePoll, PollTask, Choice
  <2>2. n.pc = "counts"
      BY <2>1 DEF IdlePoll
  <2> QED
      BY <1>0, <1>2, <1>4, <2>1, <2>2 DEF vote
<1>5. ASSUME NEW t \in PollRequests, present(t) PROVE OneResolver'
  <2>1. PICK n \in PollTask : n = [IdlePoll EXCEPT !.pc = "counts"]
      BY DEF IdlePoll, PollTask, Choice
  <2>2. n.pc = "counts"
      BY <2>1 DEF IdlePoll
  <2> QED
      BY <1>0, <1>2, <1>5, <2>1, <2>2 DEF present
<1>6. ASSUME NEW t \in PollRequests, CreateVote(t) PROVE OneResolver'
  <2>1. UNCHANGED <<resolveLock, poll>> /\ (Goes(t, "bump") \/ Remember(t, IdlePoll))
      BY <1>6 DEF CreateVote
  <2> QED
      BY <1>0, <1>1, <1>3, <2>1
<1>7. ASSUME NEW t \in PollRequests, NEW ok \in BOOLEAN, BumpTally(t, ok) PROVE OneResolver'
    BY <1>0, <1>3, <1>7 DEF BumpTally
<1>8. ASSUME NEW t \in PollTasks, NEW ok \in BOOLEAN, ReadHash(t, ok) PROVE OneResolver'
  <2>1. UNCHANGED <<resolveLock, poll>> /\ (Goes(t, "group") \/ Remember(t, AfterCounts(t)))
      BY <1>8 DEF ReadHash
  <2>2. AfterCounts(t) \in PollTask /\ AfterCounts(t).pc \in {"idle", "create"}
      BY AfterCountsOK
  <2>3. PICK n \in PollTask : n = AfterCounts(t)
      BY <2>2
  <2> QED
      BY <1>0, <1>1, <1>2, <2>1, <2>2, <2>3
<1>9. ASSUME NEW t \in PollTasks, NEW ok \in BOOLEAN, SeedHash(t, ok) PROVE OneResolver'
  <2>1. UNCHANGED <<resolveLock, poll>> /\ Remember(t, AfterCounts(t))
      BY <1>9 DEF SeedHash
  <2>2. AfterCounts(t) \in PollTask /\ AfterCounts(t).pc \in {"idle", "create"}
      BY AfterCountsOK
  <2>3. PICK n \in PollTask : n = AfterCounts(t)
      BY <2>2
  <2> QED
      BY <1>2, <2>1, <2>2, <2>3
<1>10. ASSUME NEW t \in PollTasks, GroupVotes(t) PROVE OneResolver'
  <2>1. \A s \in PollTasks : s # t => pollTask'[s] = pollTask[s]
      BY <1>0, <1>10 DEF GroupVotes, Remember
  <2>2. pollTask'[t].pc = "seed" /\ UNCHANGED <<resolveLock, poll>>
      BY <1>0, <1>10 DEF GroupVotes, Remember, PollTask
  <2> QED
      BY <2>1, <2>2 DEF OneResolver
<1>11. ASSUME NEW t \in PollTasks, PollDies(t) PROVE OneResolver'
    BY <1>3, <1>11 DEF PollDies
<1>12. ASSUME NEW t \in Resolvers, locked(t) PROVE OneResolver'
  <2>1. /\ pollTask'[t].pc = "run" /\ \A s \in PollTasks : s # t => pollTask'[s] = pollTask[s]
        /\ ~resolveLock /\ resolveLock' /\ UNCHANGED poll
      BY <1>0, <1>12 DEF locked, Goes, Remember, PollTask
  <2> QED
      BY <2>1 DEF OneResolver
<1>13. ASSUME NEW t \in Resolvers, FindDue(t) PROVE OneResolver'
  <2>0. UNCHANGED <<resolveLock, poll>> /\ pollTask[t].pc = "run" /\ t \in PollTasks
      BY <1>0, <1>13 DEF FindDue
  <2>1. CASE poll.status = "ACTIVE" /\ pollTime # "open"
    <3>1. pollTask'[t].pc = "resolve" /\ \A s \in PollTasks : s # t => pollTask'[s] = pollTask[s]
        BY <1>0, <1>13, <2>1 DEF FindDue, Goes, Remember, PollTask
    <3> QED
        BY <2>0, <2>1, <3>1 DEF OneResolver
  <2>2. CASE ~(poll.status = "ACTIVE" /\ pollTime # "open")
      BY <1>0, <1>3, <1>13, <2>0, <2>2 DEF FindDue
  <2> QED
      BY <2>1, <2>2
<1>14. ASSUME NEW t \in Resolvers, resolve(t) PROVE OneResolver'
  <2>1. ASSUME NEW status, NEW outcome, finish(t, status, outcome) PROVE OneResolver'
    <3>1. /\ pollTask[t].pc = "resolve" /\ pollTask'[t].pc = "counts" /\ UNCHANGED resolveLock
          /\ \A s \in PollTasks : s # t => pollTask'[s] = pollTask[s]
        BY <1>0, <2>1 DEF finish, Goes, Remember, PollTask
    <3>2. \A s \in PollTasks : pollTask'[s].pc \notin {"run", "resolve"}
        BY <1>0, <3>1 DEF OneResolver
    <3> QED
        BY <3>2 DEF OneResolver
  <2>2. CASE Remember(t, IdlePoll) /\ UNCHANGED <<resolveLock, poll>>
      BY <1>0, <1>3, <2>2
  <2> QED
      BY <1>14, <2>1, <2>2 DEF resolve
<1>15. ASSUME PollPasses \/ TallyExpires \/ UNCHANGED pollVars PROVE OneResolver'
    BY <1>15 DEF PollPasses, TallyExpires, pollVars, OneResolver
<1>16. ASSUME ResolveLockExpires PROVE OneResolver'
  <2>1. \A t \in PollTasks : pollTask[t].pc \notin {"run", "resolve"}
      BY <1>16 DEF ResolveLockExpires, OneResolver
  <2> QED
      BY <1>16, <2>1 DEF ResolveLockExpires, OneResolver
<1> QED
    BY <1>4, <1>5, <1>6, <1>7, <1>8, <1>9, <1>10, <1>11, <1>12, <1>13, <1>14, <1>15, <1>16 DEF PollNext

\* Only a run that found the poll open writes its outcome.
LEMMA FinishOnlyOpen ==
    ASSUME PollInv, OneResolver, [PollNext]_pollVars, poll.status # "ACTIVE"
    PROVE  poll' = poll
<1>1. ASSUME NEW t \in Resolvers, NEW status, NEW outcome PROVE ~finish(t, status, outcome)
    BY DEF finish, OneResolver, PollTasks
<1>2. ASSUME NEW t \in Resolvers, resolve(t) PROVE poll' = poll
    BY <1>1, <1>2 DEF resolve
<1> QED
    BY <1>2 DEF PollNext, vote, present, CreateVote, BumpTally, ReadHash, SeedHash, GroupVotes, PollDies,
                locked, FindDue, PollPasses, TallyExpires, ResolveLockExpires, pollVars

\* When no run of the resolver outlasts its lock, the outcome of a poll is decided once,
\* although finish does not look at the status again (predictions-cron.service.ts:304-307,
\* 425-426).
THEOREM OutcomeIsFinalHolds == ~SlowResolvers => (PollSpec => OutcomeIsFinal)
<1> SUFFICES ASSUME ~SlowResolvers PROVE PollSpec => OutcomeIsFinal
    OBVIOUS
<1>1. PollInit => OneResolver
    BY IdlePollOK DEF PollInit, OneResolver
<1>2. PollInv /\ OneResolver /\ [PollNext]_pollVars => OneResolver'
    BY OneResolverStep
<1>3. PollInv /\ OneResolver /\ [PollNext]_pollVars => [poll.status # "ACTIVE" => poll' = poll]_pollVars
    BY FinishOnlyOpen DEF pollVars
<1> QED
    BY PollInvInit, PollInvStep, <1>1, <1>2, <1>3, PTL DEF PollSpec, OutcomeIsFinal

-----------------------------------------------------------------------------
(* The trade panel *)

PanelState == [step: {"form", "record-failed"} \cup ReviewSteps \cup StatusSteps,
               quote: MaybeQuote, quoteStatus: {"idle", "loading", "ready", "error"},
               approved: BOOLEAN, ack: BOOLEAN, pendingHash: 0..MaxSwaps,
               of: MaybeQuote, row: Rows,
               feeSign: {"idle", "signing", "record-failed"}, feePendingHash: 0..MaxFees]
PanelTask == [pc: {"idle", "approve", "dryRun", "send", "record",
                   "consent", "relay", "feeSend", "feeRecord"},
              quote: MaybeQuote, of: MaybeQuote, hash: 0..(MaxSwaps + MaxFees)]
PanelAnswer == [of: MaybeQuote, quote: MaybeQuote, row: Rows]

\* On the way to a signature, and with a swap in hand.
Signing == {"approve", "dryRun", "send", "consent", "relay"}
Trading == Signing \cup {"record"}
BeforeSwap == ReviewSteps \cup {"form"}

\* A row has a swap that was broadcast, and a confirmed one the swap it was quoted for.
RowOK(q) ==
  /\ trade[q].status # "none" => trade[q].hash \in 1..Len(swaps)
  /\ trade[q].status = "CONFIRMED" => swaps[trade[q].hash] = q

BackendOK ==
  /\ trade \in [PanelQuotes -> Rows] /\ \A q \in PanelQuotes : RowOK(q)
  /\ swaps \in Seq(PanelQuotes) /\ Len(swaps) <= MaxSwaps
  /\ fees \in Seq([for: PanelQuotes, quote: PanelQuotes]) /\ Len(fees) <= MaxFees
  /\ swapsNow \in {0, 1} /\ swapsNow <= Len(swaps)
  /\ FeeOnlyAfterSwap

\* What the panel or an answer says is confirmed is so by now.
Seen(of, row) == row.status = "CONFIRMED" => of \in PanelQuotes /\ trade[of].status = "CONFIRMED"

HandlerOK(n) ==
  /\ n.pc # "idle" => n.quote \in PanelQuotes
  /\ n.pc \in Signing => swapsNow = 0
  /\ n.pc = "record" => n.hash \in 1..Len(swaps)
  /\ n.pc = "feeSend" => n.of \in PanelQuotes /\ trade[n.of].status = "CONFIRMED"
  /\ n.pc = "feeRecord" => n.of \in PanelQuotes /\ n.hash \in 1..Len(fees)

\* One handler at a time is about a swap.
HandlersOK ==
  /\ handler \in [PanelHandlers -> PanelTask]
  /\ \A h \in PanelHandlers : HandlerOK(handler[h])
  /\ \A h, k \in PanelHandlers : handler[h].pc \in Trading /\ handler[k].pc \in Trading => h = k

\* A screen with a button that signs is one of a panel that has sent nothing.
ScreenOK ==
  /\ panel \in PanelState /\ SuccessIsReal /\ Seen(panel.of, panel.row)
  /\ panel.step \in BeforeSwap => swapsNow = 0
  /\ panel.pendingHash <= Len(swaps) /\ panel.feePendingHash <= Len(fees)

AnswersOK ==
  /\ answers \in [1..MaxAnswers -> PanelAnswer]
  /\ \A i \in 1..MaxAnswers : Seen(answers[i].of, answers[i].row)

AskingOK ==
  /\ feeAsked \in BOOLEAN /\ debounce \in BOOLEAN /\ asked \in 0..MaxAsked
  /\ lapsed \subseteq given /\ given \subseteq PanelQuotes
  /\ polling = NotPolling \/ polling \in [of: PanelQuotes, quote: PanelQuotes]

PanelInv == BackendOK /\ HandlersOK /\ ScreenOK /\ AnswersOK /\ AskingOK

\* The invariant says what the run checks.
LEMMA PanelInvSafe == PanelInv => PanelTypeOK /\ PanelSafety
<1> SUFFICES ASSUME PanelInv PROVE PanelTypeOK /\ PanelSafety
    OBVIOUS
<1>1. polling \in [of: MaybeQuote, quote: MaybeQuote]
    BY DEF PanelInv, AskingOK, NotPolling, MaybeQuote
<1>2. PanelTypeOK
    BY <1>1 DEF PanelInv, PanelTypeOK, BackendOK, HandlersOK, ScreenOK, AnswersOK, AskingOK, PanelState,
                PanelTask, PanelAnswer
<1>3. OneSwapPerTrade
    BY DEF PanelInv, BackendOK, OneSwapPerTrade
<1> QED
    BY <1>2, <1>3 DEF PanelInv, PanelSafety, BackendOK, ScreenOK

\* What a panel at rest consists of.
LEMMA AtRestOK ==
    /\ NoRow \in Rows /\ NoRow.status = "none" /\ NoRow.hash = 0
    /\ AtRest \in PanelTask /\ AtRest.pc = "idle"
    /\ NoAnswer \in PanelAnswer /\ NoAnswer.row = NoRow
    /\ FreshPanel \in PanelState /\ FreshPanel.step = "form" /\ FreshPanel.row = NoRow
    /\ FreshPanel.pendingHash = 0 /\ FreshPanel.feePendingHash = 0
<1>0. MaxSwaps \in Nat \ {0} /\ MaxFees \in Nat \ {0} /\ NoQuote \in MaybeQuote
    BY PanelAssumption DEF MaybeQuote
<1>1. NoRow \in Rows /\ NoRow.status = "none" /\ NoRow.hash = 0
    BY <1>0 DEF NoRow, Rows, RowStatus, Settled
<1>2. AtRest \in PanelTask /\ AtRest.pc = "idle"
    BY <1>0 DEF AtRest, PanelTask
<1>3. NoAnswer \in PanelAnswer /\ NoAnswer.row = NoRow
    BY <1>0, <1>1 DEF NoAnswer, PanelAnswer
<1> HIDE DEF NoRow
<1>4. FreshPanel \in PanelState
    BY <1>0, <1>1 DEF FreshPanel, PanelState
<1> QED
    BY <1>1, <1>2, <1>3, <1>4 DEF FreshPanel

\* Nothing is traded at the start.
LEMMA PanelInvInit == PanelInit => PanelInv
<1> SUFFICES ASSUME PanelInit PROVE PanelInv
    OBVIOUS
<1>1. BackendOK
  <2>1. trade \in [PanelQuotes -> Rows] /\ \A q \in PanelQuotes : RowOK(q)
      BY AtRestOK DEF PanelInit, RowOK
  <2> QED
      BY <2>1, PanelAssumption DEF PanelInit, BackendOK, FeeOnlyAfterSwap
<1>2. HandlersOK
  <2>1. handler \in [PanelHandlers -> PanelTask] /\ \A h \in PanelHandlers : handler[h].pc = "idle"
      BY AtRestOK DEF PanelInit
  <2> QED
      BY <2>1 DEF HandlersOK, HandlerOK, Trading, Signing
<1>3. ScreenOK
    BY AtRestOK DEF PanelInit, ScreenOK, SuccessIsReal, Seen
<1>4. AnswersOK
    BY AtRestOK DEF PanelInit, AnswersOK, Seen
<1>5. AskingOK
  <2>1. MaxAsked \in Nat
      BY PanelAssumption
  <2>2. polling = NotPolling /\ asked \in 0..MaxAsked
      BY <2>1 DEF PanelInit
  <2> QED
      BY <2>2 DEF PanelInit, AskingOK
<1> QED
    BY <1>1, <1>2, <1>3, <1>4, <1>5 DEF PanelInv

\* The chain and the rows only grow, and a confirmed row stays confirmed.
Grows ==
  /\ BackendOK'
  /\ Len(swaps) <= Len(swaps') /\ Len(fees) <= Len(fees')
  /\ \A q \in PanelQuotes : trade[q].status = "CONFIRMED" => trade'[q].status = "CONFIRMED"

\* A step that leaves the API alone.
LEMMA BackendRests ==
    ASSUME PanelInv, UNCHANGED backendVars
    PROVE  Grows /\ swapsNow' = swapsNow
<1>1. UNCHANGED <<trade, swaps, fees, swapsNow>>
    BY DEF backendVars
<1> QED
    BY <1>1 DEF Grows, PanelInv, BackendOK, RowOK, FeeOnlyAfterSwap

\* What a handler knows stays true.
LEMMA HandlerStays ==
    ASSUME PanelInv, Grows, swapsNow' \in {0, swapsNow}, NEW n \in PanelTask, HandlerOK(n)
    PROVE  HandlerOK(n)'
<1>1. Len(swaps) \in Nat /\ Len(fees) \in Nat /\ Len(swaps') \in Nat /\ Len(fees') \in Nat
    BY DEF PanelInv, BackendOK, Grows
<1> QED
    BY <1>1 DEF HandlerOK, Grows, PanelTask

\* No handler moves.
LEMMA HandlersRest ==
    ASSUME PanelInv, Grows, swapsNow' \in {0, swapsNow}, UNCHANGED handler
    PROVE  HandlersOK'
<1>1. ASSUME NEW h \in PanelHandlers PROVE HandlerOK(handler[h])'
  <2>1. PICK n \in PanelTask : n = handler[h]
      BY DEF PanelInv, HandlersOK
  <2>2. HandlerOK(n)'
      BY <2>1, HandlerStays DEF PanelInv, HandlersOK
  <2> QED
      BY <2>1, <2>2 DEF HandlerOK
<1> QED
    BY <1>1 DEF PanelInv, HandlersOK

\* One handler moves; another may be about a swap only if this one is not.
LEMMA HandlerGoes ==
    ASSUME PanelInv, Grows, NEW h \in PanelHandlers, NEW n \in PanelTask,
           handler' = [handler EXCEPT ![h] = n], HandlerOK(n)',
           swapsNow' \in {0, swapsNow} \/ handler[h].pc \in Trading,
           n.pc \in Trading => handler[h].pc \in Trading \/ UserActs
    PROVE  HandlersOK'
<1>0. /\ handler \in [PanelHandlers -> PanelTask]
      /\ \A k \in PanelHandlers : handler'[k] = IF k = h THEN n ELSE handler[k]
    BY DEF PanelInv, HandlersOK
<1>1. handler' \in [PanelHandlers -> PanelTask]
    BY <1>0
<1>2. ASSUME NEW k \in PanelHandlers PROVE HandlerOK(handler[k])'
  <2>1. CASE k = h
    <3>1. handler'[k] = n
        BY <1>0, <2>1
    <3> QED
        BY <3>1 DEF HandlerOK
  <2>2. CASE k # h
    <3>1. PICK m \in PanelTask : m = handler[k] /\ m = handler'[k]
        BY <1>0, <2>2
    <3>2. HandlerOK(m)
        BY <3>1 DEF PanelInv, HandlersOK
    <3>3. HandlerOK(m)'
      <4>1. CASE swapsNow' \in {0, swapsNow}
          BY <3>2, <4>1, HandlerStays
      <4>2. CASE handler[h].pc \in Trading
        <5>1. m.pc \notin Trading
            BY <2>2, <3>1, <4>2 DEF PanelInv, HandlersOK
        <5>2. Len(swaps) \in Nat /\ Len(fees) \in Nat /\ Len(swaps') \in Nat /\ Len(fees') \in Nat
            BY DEF PanelInv, BackendOK, Grows
        <5> QED
            BY <3>2, <5>1, <5>2 DEF HandlerOK, Grows, PanelTask, Trading, Signing
      <4> QED
          BY <4>1, <4>2
    <3> QED
        BY <3>1, <3>3 DEF HandlerOK
  <2> QED
      BY <2>1, <2>2
<1>3. \A k, l \in PanelHandlers : handler'[k].pc \in Trading /\ handler'[l].pc \in Trading => k = l
  <2>1. UserActs => \A k \in PanelHandlers : handler[k].pc \notin Trading
      BY AtRestOK DEF UserActs, Trading, Signing
  <2> QED
      BY <1>0, <2>1 DEF PanelInv, HandlersOK
<1> QED
    BY <1>1, <1>2, <1>3 DEF HandlersOK

\* The handler that comes to rest, or the spare one that begins.
LEMMA HandlerReturns ==
    ASSUME PanelInv, Grows, NEW h \in PanelHandlers, swapsNow' \in {0, swapsNow}, Returns(h)
    PROVE  HandlersOK'
<1>1. HandlerOK(AtRest)' /\ AtRest.pc \notin Trading
    BY AtRestOK DEF HandlerOK, Trading, Signing
<1> QED
    BY <1>1, AtRestOK, HandlerGoes DEF Returns

\* Answers on their way stay true.
LEMMA AnswersRest ==
    ASSUME PanelInv, Grows, UNCHANGED answers
    PROVE  AnswersOK'
BY DEF PanelInv, AnswersOK, Grows, Seen

\* The screen changes to p: not to success without a confirmed trade, nor to a button that
\* signs once a swap is out.
LEMMA ScreenGoes ==
    ASSUME PanelInv, Grows, NEW p \in PanelState, panel' = p,
           p.step = "confirmed" => (panel.step = "confirmed" \/ (Seen(p.of, p.row) /\ p.row.status = "CONFIRMED")),
           Seen(p.of, p.row)' \/ (p.of = panel.of /\ p.row = panel.row),
           p.step \in BeforeSwap => swapsNow' = 0,
           p.pendingHash <= Len(swaps') \/ p.pendingHash = panel.pendingHash,
           p.feePendingHash <= Len(fees') \/ p.feePendingHash = panel.feePendingHash
    PROVE  ScreenOK'
<1>1. Seen(panel.of, panel.row)'
    BY DEF PanelInv, ScreenOK, Seen, Grows
<1>2. panel'.pendingHash <= Len(swaps') /\ panel'.feePendingHash <= Len(fees')
  <2>1. Len(swaps) \in Nat /\ Len(fees) \in Nat /\ Len(swaps') \in Nat /\ Len(fees') \in Nat
      BY DEF PanelInv, BackendOK, Grows
  <2>2. panel.pendingHash \in Nat /\ panel.feePendingHash \in Nat
      BY DEF PanelInv, ScreenOK, PanelState
  <2> QED
      BY <2>1, <2>2 DEF PanelInv, ScreenOK, Grows
<1>3. SuccessIsReal'
  <2>1. SUFFICES ASSUME p.step = "confirmed" PROVE SuccessIsReal'
      BY DEF SuccessIsReal
  <2>2. PICK q \in PanelQuotes : trade[q].status = "CONFIRMED"
      BY <2>1 DEF PanelInv, ScreenOK, SuccessIsReal, Seen
  <2>3. trade'[q].status = "CONFIRMED" /\ swaps'[trade'[q].hash] = q
      BY <2>2 DEF Grows, BackendOK, RowOK
  <2> QED
      BY <2>3 DEF SuccessIsReal
<1> QED
    BY <1>1, <1>2, <1>3 DEF ScreenOK

\* The quote on the screen, the amount typed in and the requests for quotes change nothing else.
LEMMA QuoteKeeps ==
    ASSUME PanelInv, QuoteStep
    PROVE  PanelInv'
<1> DEFINE SameTrade(p) == /\ p \in PanelState /\ p.step = panel.step /\ p.of = panel.of /\ p.row = panel.row
                           /\ p.pendingHash = panel.pendingHash /\ p.feePendingHash = panel.feePendingHash
<1>0. /\ panel \in PanelState /\ SameTrade(panel) /\ UNCHANGED <<handler, pollingVars, backendVars>>
    BY DEF PanelInv, ScreenOK, QuoteStep, ChangeInput, getQuote, SilentRefresh, Ask, QuoteFails,
           BalanceDrops, QuoteExpires, QuoteArrives
<1>1. ASSUME NEW p, SameTrade(p) PROVE SameTrade(Loading(p))
    BY <1>1 DEF Loading, PanelState
<1>2. ASSUME NEW q \in MaybeQuote, NEW s \in {"idle", "ready", "error"}
      PROVE  SameTrade([panel EXCEPT !.quote = q, !.quoteStatus = s])
    BY <1>0 DEF PanelState
<1>3. NoQuote \in MaybeQuote /\ PanelQuotes \subseteq MaybeQuote /\ MaxAsked \in Nat
    BY PanelAssumption DEF MaybeQuote
<1>4. AskingOK /\ feeAsked' = feeAsked /\ polling' = polling /\ answers' = answers
    BY <1>0 DEF PanelInv, pollingVars
<1> HIDE DEF SameTrade
<1>5. \E p \in PanelState : panel' = p /\ SameTrade(p) /\ AskingOK'
  <2>0. ASSUME NEW p, SameTrade(p) PROVE p \in PanelState
      BY <2>0 DEF SameTrade
  <2>1. ASSUME NEW valid \in BOOLEAN, ChangeInput(valid) PROVE SameTrade(panel') /\ AskingOK'
    <3>1. SameTrade(panel')
        BY <1>0, <1>1, <1>2, <1>3, <2>1 DEF ChangeInput
    <3>2. AskingOK'
        BY <1>4, <2>1 DEF ChangeInput, AskingOK
    <3> QED
        BY <3>1, <3>2
  <2>2. ASSUME Ask PROVE SameTrade(panel') /\ AskingOK'
    <3>1. SameTrade(panel')
        BY <1>0, <2>2 DEF Ask
    <3>2. AskingOK'
      <4>1. asked' \in 0..MaxAsked /\ debounce' = FALSE /\ UNCHANGED <<given, lapsed>>
          BY <1>3, <1>4, <2>2 DEF Ask, AskingOK
      <4> QED
          BY <1>4, <4>1 DEF AskingOK
    <3> QED
        BY <3>1, <3>2
  <2>3. ASSUME NEW q \in PanelQuotes, NEW widens \in BOOLEAN, QuoteArrives(q, widens)
        PROVE  SameTrade(panel') /\ AskingOK'
    <3>1. SameTrade(panel')
        BY <1>1, <1>2, <1>3, <2>3 DEF QuoteArrives
    <3>2. debounce' \in BOOLEAN
        BY <1>4, <2>3 DEF QuoteArrives, AskingOK
    <3>3. AskingOK'
        BY <1>3, <1>4, <2>3, <3>2 DEF QuoteArrives, AskingOK
    <3> QED
        BY <3>1, <3>3
  <2>4. ASSUME QuoteFails PROVE SameTrade(panel') /\ AskingOK'
    <3>1. SameTrade(panel')
        BY <1>2, <1>3, <2>4 DEF QuoteFails
    <3>2. AskingOK'
        BY <1>3, <1>4, <2>4 DEF QuoteFails, AskingOK
    <3> QED
        BY <3>1, <3>2
  <2>5. ASSUME BalanceDrops PROVE SameTrade(panel') /\ AskingOK'
    <3>1. SameTrade(panel')
        BY <1>2, <1>3, <2>5 DEF BalanceDrops
    <3>2. AskingOK'
        BY <1>4, <2>5 DEF BalanceDrops, AskingOK
    <3> QED
        BY <3>1, <3>2
  <2>6. ASSUME NEW q \in PanelQuotes, QuoteExpires(q) PROVE SameTrade(panel') /\ AskingOK'
    <3>1. SameTrade(panel')
        BY <1>0, <2>6 DEF QuoteExpires
    <3>2. AskingOK'
        BY <1>4, <2>6 DEF QuoteExpires, AskingOK
    <3> QED
        BY <3>1, <3>2
  <2>7. SameTrade(panel') /\ AskingOK'
      BY <2>1, <2>2, <2>3, <2>4, <2>5, <2>6 DEF QuoteStep, getQuote, SilentRefresh
  <2> QED
      BY <2>0, <2>7
<1>6. PICK p \in PanelState : panel' = p /\ SameTrade(p) /\ AskingOK'
    BY <1>5
<1>7. Grows /\ swapsNow' = swapsNow
    BY <1>0, BackendRests
<1>8. ScreenOK'
  <2>1. p.step = panel.step /\ p.of = panel.of /\ p.row = panel.row
        /\ p.pendingHash = panel.pendingHash /\ p.feePendingHash = panel.feePendingHash
      BY <1>6 DEF SameTrade
  <2>2. p.step \in BeforeSwap => swapsNow' = 0
      BY <1>7, <2>1 DEF PanelInv, ScreenOK
  <2>3. p.step = "confirmed" => (panel.step = "confirmed" \/ (Seen(p.of, p.row) /\ p.row.status = "CONFIRMED"))
      BY <2>1
  <2>4. Seen(p.of, p.row)' \/ (p.of = panel.of /\ p.row = panel.row)
      BY <2>1
  <2>5. /\ p.pendingHash <= Len(swaps') \/ p.pendingHash = panel.pendingHash
        /\ p.feePendingHash <= Len(fees') \/ p.feePendingHash = panel.feePendingHash
      BY <2>1
  <2>6. panel' = p
      BY <1>6
  <2> QED
      BY <1>7, <2>2, <2>3, <2>4, <2>5, <2>6, ScreenGoes
<1>9. HandlersOK' /\ AnswersOK'
    BY <1>0, <1>4, <1>7, HandlersRest, AnswersRest
<1>10. BackendOK'
    BY <1>7 DEF Grows
<1> QED
    BY <1>6, <1>8, <1>9, <1>10 DEF PanelInv

\* The spare handler begins.
LEMMA SpareIsThere == MayBegin => SpareHandler \in PanelHandlers /\ handler[SpareHandler] = AtRest
BY DEF MayBegin, SpareHandler

\* A step of the user or the wallet that changes only the screen's step and one handler.
LEMMA StepAndHandler ==
    ASSUME PanelInv, UNCHANGED <<pollingVars, backendVars>>, AskingOK', HandlersOK',
           NEW p \in PanelState, panel' = p,
           p.step = "confirmed" => panel.step = "confirmed",
           (p.of = panel.of /\ p.row = panel.row) \/ p.row.status # "CONFIRMED",
           p.step \in BeforeSwap => swapsNow = 0,
           p.pendingHash \in {0, panel.pendingHash}, p.feePendingHash \in {0, panel.feePendingHash}
    PROVE  PanelInv'
<1>1. Grows /\ swapsNow' = swapsNow /\ answers' = answers
    BY BackendRests DEF pollingVars
<1>2. Len(swaps') \in Nat /\ Len(fees') \in Nat
    BY <1>1 DEF Grows, BackendOK
<1>3. ScreenOK'
  <2>1. Seen(p.of, p.row)' \/ (p.of = panel.of /\ p.row = panel.row)
      BY DEF Seen
  <2>2. p.step = "confirmed" => (panel.step = "confirmed" \/ (Seen(p.of, p.row) /\ p.row.status = "CONFIRMED"))
      OBVIOUS
  <2>3. /\ p.pendingHash <= Len(swaps') \/ p.pendingHash = panel.pendingHash
        /\ p.feePendingHash <= Len(fees') \/ p.feePendingHash = panel.feePendingHash
      BY <1>2
  <2>4. p.step \in BeforeSwap => swapsNow' = 0
      BY <1>1
  <2> QED
      BY <1>1, <2>1, <2>2, <2>3, <2>4, ScreenGoes
<1> QED
    BY <1>1, <1>3, AnswersRest DEF PanelInv, Grows

PanelSteps == {"form", "record-failed"} \cup ReviewSteps \cup StatusSteps
HandlerSteps == {"idle", "approve", "dryRun", "send", "record", "consent", "relay", "feeSend", "feeRecord"}

\* A panel that shows the same trade.
SameRow(p) ==
  /\ p \in PanelState /\ p.of = panel.of /\ p.row = panel.row
  /\ p.pendingHash = panel.pendingHash /\ p.feePendingHash = panel.feePendingHash

\* Another step of the screen keeps the trade it shows.
LEMMA StepSet ==
    ASSUME NEW p, SameRow(p), NEW s \in PanelSteps
    PROVE  SameRow([p EXCEPT !.step = s]) /\ [p EXCEPT !.step = s].step = s
BY DEF SameRow, PanelState, PanelSteps

\* So do the other changes of the screen.
LEMMA SameRowSet ==
    ASSUME NEW p, SameRow(p)
    PROVE  /\ \A s \in PanelSteps : SameRow([p EXCEPT !.step = s]) /\ [p EXCEPT !.step = s].step = s
           /\ SameRow(Loading(p)) /\ Loading(p).step = p.step
           /\ SameRow([p EXCEPT !.approved = TRUE]) /\ [p EXCEPT !.approved = TRUE].step = p.step
           /\ SameRow([p EXCEPT !.ack = ~p.ack]) /\ [p EXCEPT !.ack = ~p.ack].step = p.step
           /\ SameRow([p EXCEPT !.feeSign = "idle"]) /\ [p EXCEPT !.feeSign = "idle"].step = p.step
           /\ SameRow([p EXCEPT !.feeSign = "signing"]) /\ [p EXCEPT !.feeSign = "signing"].step = p.step
<1>1. p \in PanelState
    BY DEF SameRow
<1>2. ASSUME NEW s \in PanelSteps PROVE SameRow([p EXCEPT !.step = s]) /\ [p EXCEPT !.step = s].step = s
    BY StepSet
<1>3. SameRow(Loading(p)) /\ Loading(p).step = p.step
    BY <1>1 DEF SameRow, PanelState, Loading
<1>4. SameRow([p EXCEPT !.approved = TRUE]) /\ [p EXCEPT !.approved = TRUE].step = p.step
    BY <1>1 DEF SameRow, PanelState
<1>5. SameRow([p EXCEPT !.ack = ~p.ack]) /\ [p EXCEPT !.ack = ~p.ack].step = p.step
  <2>1. (~p.ack) \in BOOLEAN
      OBVIOUS
  <2> QED
      BY <1>1, <2>1 DEF SameRow, PanelState
<1>6. /\ SameRow([p EXCEPT !.feeSign = "idle"]) /\ [p EXCEPT !.feeSign = "idle"].step = p.step
      /\ SameRow([p EXCEPT !.feeSign = "signing"]) /\ [p EXCEPT !.feeSign = "signing"].step = p.step
    BY <1>1 DEF SameRow, PanelState
<1> QED
    BY <1>2, <1>3, <1>4, <1>5, <1>6

\* A step that keeps the trade on the screen and leaves the API alone.
LEMMA ScreenAndHandler ==
    ASSUME PanelInv, UNCHANGED <<pollingVars, backendVars>>, AskingOK', HandlersOK', SameRow(panel'),
           panel'.step = "confirmed" => panel.step = "confirmed",
           panel'.step \in BeforeSwap => swapsNow = 0
    PROVE  PanelInv'
<1>1. PICK p \in PanelState : p = panel'
    BY DEF SameRow
<1> QED
    BY <1>1, StepAndHandler DEF SameRow

\* A handler goes on with what it holds.
LEMMA Holds ==
    ASSUME PanelInv, Grows, NEW h \in PanelHandlers, NEW pc \in HandlerSteps, NEW q \in PanelQuotes,
           NEW of \in MaybeQuote, NEW hash \in 0..(MaxSwaps + MaxFees), Holding(h, pc, q, of, hash),
           swapsNow' \in {0, swapsNow} \/ handler[h].pc \in Trading,
           pc \in Trading => handler[h].pc \in Trading \/ UserActs,
           pc \in Signing => swapsNow' = 0,
           pc = "record" => hash \in 1..Len(swaps'),
           pc = "feeSend" => of \in PanelQuotes /\ trade'[of].status = "CONFIRMED",
           pc = "feeRecord" => of \in PanelQuotes /\ hash \in 1..Len(fees')
    PROVE  HandlersOK'
<1>1. PICK n \in PanelTask : n = [pc |-> pc, quote |-> q, of |-> of, hash |-> hash]
    BY DEF PanelTask, MaybeQuote, HandlerSteps
<1>2. n.pc = pc /\ n.quote = q /\ n.of = of /\ n.hash = hash /\ handler' = [handler EXCEPT ![h] = n]
    BY <1>1 DEF Holding
<1>3. HandlerOK(n)'
    BY <1>2 DEF HandlerOK
<1> QED
    BY <1>2, <1>3, HandlerGoes

\* The quotes are left alone.
LEMMA AskingRests ==
    ASSUME PanelInv, UNCHANGED <<asked, given, lapsed, pollingVars>>, debounce' \in BOOLEAN
    PROVE  AskingOK'
BY DEF PanelInv, AskingOK, pollingVars

\* handleConfirmAndSign up to its first await.
LEMMA ConfirmKeeps ==
    ASSUME PanelInv, UNCHANGED <<pollingVars, backendVars>>, AskingOK', NEW h \in PanelHandlers,
           NEW q \in PanelQuotes, NEW p, SameRow(p), ConfirmAndSign(h, q, p), swapsNow = 0,
           p.step = panel.step, handler[h].pc \in Trading \/ UserActs
    PROVE  PanelInv'
<1>1. Grows /\ swapsNow' = swapsNow
    BY BackendRests
<1>2. CASE HasLapsed(q)
  <2>1. panel' = p /\ Returns(h)
      BY <1>2 DEF ConfirmAndSign
  <2>2. HandlersOK'
      BY <1>1, <2>1, HandlerReturns
  <2> QED
      BY <2>1, <2>2, ScreenAndHandler
<1>3. CASE ~HasLapsed(q)
  <2>1. panel' = [p EXCEPT !.step = "signing"]
      BY <1>3 DEF ConfirmAndSign
  <2>2. SameRow(panel') /\ panel'.step = "signing"
      BY <2>1, StepSet DEF PanelSteps, ReviewSteps
  <2>3. PICK pc \in {"consent", "dryRun"} : Holding(h, pc, q, NoQuote, 0)
      BY <1>3 DEF ConfirmAndSign
  <2>4. HandlersOK'
    <3>1. pc \in HandlerSteps /\ pc \in Trading /\ 0 \in 0..(MaxSwaps + MaxFees) /\ NoQuote \in MaybeQuote
        BY PanelAssumption DEF HandlerSteps, Trading, Signing, MaybeQuote
    <3> QED
        BY <1>1, <2>3, <3>1, Holds
  <2> QED
      BY <2>2, <2>4, ScreenAndHandler
<1> QED
    BY <1>2, <1>3

\* The buttons before a signature.
LEMMA TapKeeps ==
    ASSUME PanelInv, OneTap \/ ApproveButton \/ ConfirmButton \/ Acknowledge \/ Back \/ RefreshLink
    PROVE  PanelInv'
<1>0. /\ SameRow(panel) /\ AskingOK /\ debounce \in BOOLEAN /\ UNCHANGED <<pollingVars, backendVars>>
      /\ panel.step \in BeforeSwap => swapsNow = 0
      /\ NoQuote \in MaybeQuote /\ 0 \in 0..(MaxSwaps + MaxFees)
  <2>1. SameRow(panel) /\ AskingOK /\ debounce \in BOOLEAN /\ (panel.step \in BeforeSwap => swapsNow = 0)
      BY DEF PanelInv, ScreenOK, SameRow, AskingOK
  <2>2. UNCHANGED <<pollingVars, backendVars>>
      BY DEF OneTap, ApproveButton, ConfirmButton, Acknowledge, Back, RefreshLink
  <2>3. NoQuote \in MaybeQuote /\ 0 \in 0..(MaxSwaps + MaxFees)
      BY PanelAssumption DEF MaybeQuote
  <2> QED
      BY <2>1, <2>2, <2>3
<1>1. Grows /\ swapsNow' = swapsNow
    BY <1>0, BackendRests
<1>2. Reviewing => panel.step \in BeforeSwap /\ Shown \in PanelQuotes
    BY DEF Reviewing, BeforeSwap, Shown, PanelInv, ScreenOK, PanelState, MaybeQuote
<1>3. ASSUME UNCHANGED handler PROVE HandlersOK'
    BY <1>1, <1>3, HandlersRest
<1>4. ASSUME UserActs, MayBegin, NEW q \in PanelQuotes, swapsNow = 0, StartHandler("approve", q, NoQuote, 0)
      PROVE  HandlersOK'
  <2>1. Holding(SpareHandler, "approve", q, NoQuote, 0) /\ SpareHandler \in PanelHandlers
      BY <1>4, SpareIsThere DEF StartHandler
  <2>2. PICK h \in PanelHandlers : h = SpareHandler
      BY <2>1
  <2> QED
      BY <1>0, <1>1, <1>4, <2>1, <2>2, Holds DEF HandlerSteps, Trading, Signing
<1>5. ASSUME UserActs, MayBegin, NEW q \in PanelQuotes, swapsNow = 0, AskingOK',
             ConfirmAndSign(SpareHandler, q, panel)
      PROVE  PanelInv'
  <2>1. PICK h \in PanelHandlers : h = SpareHandler
      BY <1>5, SpareIsThere
  <2> QED
      BY <1>0, <1>5, <2>1, ConfirmKeeps
<1>6. ASSUME NEW s \in BeforeSwap, panel' = [panel EXCEPT !.step = s]
      PROVE  SameRow(panel') /\ panel'.step = s /\ s # "confirmed"
  <2>1. s \in PanelSteps /\ s # "confirmed"
      BY DEF PanelSteps, BeforeSwap, ReviewSteps
  <2> QED
      BY <1>0, <1>6, <2>1, SameRowSet
<1>7. CASE OneTap
  <2>0. /\ UserActs /\ MayBegin /\ Shown \in PanelQuotes /\ swapsNow = 0 /\ panel.step = "form"
        /\ UNCHANGED <<asked, given, lapsed>>
      BY <1>0, <1>7 DEF OneTap, BeforeSwap, Shown, PanelInv, ScreenOK, PanelState, MaybeQuote
  <2>1. AskingOK'
    <3>1. debounce' \in BOOLEAN
        BY <1>0, <1>7 DEF OneTap
    <3> QED
        BY <1>0, <2>0, <3>1, AskingRests
  <2>2. CASE panel' = Loading(panel) /\ UNCHANGED handler
      BY <1>0, <1>3, <2>0, <2>1, <2>2, SameRowSet, ScreenAndHandler
  <2>3. CASE BackToReview /\ UNCHANGED handler
      BY <1>0, <1>3, <1>6, <2>0, <2>1, <2>3, ScreenAndHandler DEF BackToReview, BeforeSwap, ReviewSteps
  <2>4. CASE panel' = [panel EXCEPT !.step = "approving"] /\ StartHandler("approve", Shown, NoQuote, 0)
    <3>1. PICK q \in PanelQuotes : q = Shown
        BY <2>0
    <3>2. HandlersOK'
        BY <1>4, <2>0, <2>4, <3>1
    <3> QED
        BY <1>0, <1>6, <2>0, <2>1, <2>4, <3>2, ScreenAndHandler DEF BeforeSwap, ReviewSteps
  <2>5. CASE ConfirmAndSign(SpareHandler, Shown, panel)
    <3>1. PICK q \in PanelQuotes : q = Shown
        BY <2>0
    <3> QED
        BY <1>5, <2>0, <2>1, <2>5, <3>1
  <2> QED
      BY <1>7, <2>2, <2>3, <2>4, <2>5 DEF OneTap
<1>8. CASE ApproveButton
  <2>0. UserActs /\ Reviewing /\ MayBegin /\ UNCHANGED quoteVars /\ panel' = [panel EXCEPT !.step = "approving"]
      BY <1>8 DEF ApproveButton, StartHandler
  <2>1. PICK q \in PanelQuotes : q = Shown
      BY <1>2, <2>0
  <2>2. HandlersOK'
      BY <1>0, <1>2, <1>4, <1>8, <2>0, <2>1 DEF ApproveButton
  <2>3. AskingOK'
      BY <1>0, <2>0, AskingRests DEF quoteVars
  <2> QED
      BY <1>0, <1>2, <1>6, <2>0, <2>2, <2>3, ScreenAndHandler DEF BeforeSwap, ReviewSteps
<1>9. CASE ConfirmButton
  <2>0. /\ UserActs /\ Reviewing /\ MayBegin /\ UNCHANGED quoteVars
        /\ ConfirmAndSign(SpareHandler, Shown, panel)
      BY <1>9 DEF ConfirmButton
  <2>1. PICK q \in PanelQuotes : q = Shown
      BY <1>2, <2>0
  <2>2. AskingOK'
      BY <1>0, <2>0, AskingRests DEF quoteVars
  <2> QED
      BY <1>0, <1>2, <1>5, <2>0, <2>1, <2>2
<1>10. CASE Acknowledge
  <2>0. /\ Reviewing /\ UNCHANGED <<handler, quoteVars>> /\ panel' = [panel EXCEPT !.ack = ~panel.ack]
      BY <1>10 DEF Acknowledge
  <2>1. SameRow(panel') /\ panel'.step = panel.step
      BY <1>0, <2>0, SameRowSet
  <2>2. AskingOK'
      BY <1>0, <2>0, AskingRests DEF quoteVars
  <2> QED
      BY <1>0, <1>3, <2>0, <2>1, <2>2, ScreenAndHandler
<1>11. CASE Back
  <2>0. /\ Reviewing /\ UNCHANGED <<handler, quoteVars>> /\ panel' = [panel EXCEPT !.step = "form"]
      BY <1>11 DEF Back
  <2>2. AskingOK'
      BY <1>0, <2>0, AskingRests DEF quoteVars
  <2> QED
      BY <1>0, <1>2, <1>3, <1>6, <2>0, <2>2, ScreenAndHandler DEF BeforeSwap
<1>12. CASE RefreshLink
  <2>0. /\ Reviewing /\ UNCHANGED <<handler, asked, given, lapsed>> /\ debounce' = TRUE
        /\ panel' = [Loading(panel) EXCEPT !.step = "form"]
      BY <1>12 DEF RefreshLink
  <2>1. SameRow(panel') /\ panel'.step = "form"
    <3>1. PICK p : p = Loading(panel)
        OBVIOUS
    <3>2. SameRow(p)
        BY <1>0, <3>1, SameRowSet
    <3> QED
        BY <2>0, <3>1, <3>2, SameRowSet DEF PanelSteps
  <2>2. AskingOK'
      BY <1>0, <2>0, AskingRests
  <2> QED
      BY <1>0, <1>2, <1>3, <2>0, <2>1, <2>2, ScreenAndHandler
<1> QED
    BY <1>7, <1>8, <1>9, <1>10, <1>11, <1>12

\* A retry of a record or of the fee, and the button that pays the fee.
LEMMA RetryKeeps ==
    ASSUME PanelInv, RetryRecording \/ FeeButton \/ RetryFee
    PROVE  PanelInv'
<1>0. /\ SameRow(panel) /\ AskingOK' /\ UNCHANGED <<pollingVars, backendVars>> /\ UserActs
      /\ panel.step \in BeforeSwap => swapsNow = 0
  <2>1. SameRow(panel) /\ (panel.step \in BeforeSwap => swapsNow = 0) /\ debounce \in BOOLEAN
      BY DEF PanelInv, ScreenOK, SameRow, AskingOK
  <2>2. UNCHANGED <<pollingVars, backendVars, quoteVars>> /\ UserActs
      BY DEF RetryRecording, FeeButton, RetryFee
  <2> QED
      BY <2>1, <2>2, AskingRests DEF quoteVars
<1>1. Grows /\ swapsNow' = swapsNow /\ UNCHANGED <<trade, swaps, fees>>
    BY <1>0, BackendRests DEF backendVars
<1>2. /\ MaxSwaps \in Nat /\ MaxFees \in Nat /\ Shown \in MaybeQuote /\ WithFee \subseteq PanelQuotes
      /\ NoQuote \in MaybeQuote
      /\ panel.pendingHash \in 0..MaxSwaps /\ panel.feePendingHash \in 0..MaxFees
      /\ panel.pendingHash <= Len(swaps) /\ panel.feePendingHash <= Len(fees)
  <2>1. MaxSwaps \in Nat /\ MaxFees \in Nat /\ WithFee \subseteq PanelQuotes /\ NoQuote \in MaybeQuote
      BY PanelAssumption DEF MaybeQuote
  <2> QED
      BY <2>1 DEF PanelInv, ScreenOK, PanelState, Shown
<1>3. CASE RetryRecording
  <2>0. /\ panel' = [panel EXCEPT !.step = "submitted"] /\ panel.pendingHash # 0 /\ Shown # NoQuote
        /\ MayBegin /\ Holding(SpareHandler, "record", Shown, NoQuote, panel.pendingHash)
      BY <1>3 DEF RetryRecording, StartHandler
  <2>1. PICK h \in PanelHandlers, q \in PanelQuotes, n \in 1..Len(swaps) :
          h = SpareHandler /\ q = Shown /\ n = panel.pendingHash
      BY <1>2, <2>0, SpareIsThere DEF MaybeQuote
  <2>2. n \in 0..(MaxSwaps + MaxFees) /\ n \in 1..Len(swaps')
      BY <1>1, <1>2, <2>1
  <2>3. HandlersOK'
      BY <1>0, <1>1, <1>2, <2>0, <2>1, <2>2, Holds DEF HandlerSteps, Signing
  <2>4. SameRow(panel') /\ panel'.step = "submitted"
      BY <1>0, <2>0, StepSet DEF PanelSteps, StatusSteps
  <2>5. panel'.step \notin BeforeSwap
      BY <2>4 DEF BeforeSwap, ReviewSteps
  <2> QED
      BY <1>0, <2>3, <2>4, <2>5, ScreenAndHandler
<1>4. CASE FeeButton
  <2>0. /\ panel' = [panel EXCEPT !.feeSign = "signing"] /\ FeeSection /\ MayBegin
        /\ panel.row.feeHash = 0 /\ panel.of \notin WithConsent
        /\ Holding(SpareHandler, "feeSend", Shown, panel.of, 0)
      BY <1>4 DEF FeeButton, StartHandler
  <2>1. panel.row.status = "CONFIRMED" /\ Shown \in PanelQuotes
      BY <1>2, <2>0 DEF FeeSection
  <2>2. PICK h \in PanelHandlers, q \in PanelQuotes, of \in PanelQuotes :
          h = SpareHandler /\ q = Shown /\ of = panel.of /\ trade[of].status = "CONFIRMED"
      BY <2>0, <2>1, SpareIsThere DEF PanelInv, ScreenOK, Seen
  <2>3. of \in MaybeQuote /\ 0 \in 0..(MaxSwaps + MaxFees) /\ trade'[of].status = "CONFIRMED"
      BY <1>1, <1>2, <2>2 DEF MaybeQuote
  <2>4. HandlersOK'
      BY <1>0, <1>1, <2>0, <2>2, <2>3, Holds DEF HandlerSteps, Trading, Signing
  <2>5. SameRow(panel') /\ panel'.step = panel.step
      BY <1>0, <2>0, SameRowSet
  <2> QED
      BY <1>0, <2>4, <2>5, ScreenAndHandler
<1>5. CASE RetryFee
  <2>0. /\ panel' = panel /\ FeeSection /\ MayBegin /\ panel.feePendingHash # 0
        /\ Holding(SpareHandler, "feeRecord", Shown, panel.of, panel.feePendingHash)
      BY <1>5 DEF RetryFee, StartHandler
  <2>1. panel.of \in PanelQuotes /\ Shown \in PanelQuotes
      BY <1>2, <2>0 DEF FeeSection, PanelInv, ScreenOK, PanelState, MaybeQuote
  <2>2. PICK h \in PanelHandlers, q \in PanelQuotes, of \in PanelQuotes, n \in 1..Len(fees) :
          h = SpareHandler /\ q = Shown /\ of = panel.of /\ n = panel.feePendingHash
      BY <1>2, <2>0, <2>1, SpareIsThere
  <2>3. of \in MaybeQuote /\ n \in 0..(MaxSwaps + MaxFees) /\ n \in 1..Len(fees')
      BY <1>1, <1>2, <2>2 DEF MaybeQuote
  <2>4. HandlersOK'
      BY <1>0, <1>1, <2>0, <2>2, <2>3, Holds DEF HandlerSteps, Trading, Signing
  <2> QED
      BY <1>0, <2>0, <2>4, ScreenAndHandler
<1> QED
    BY <1>3, <1>4, <1>5

\* resetToForm: the panel may sign again, and no handler is under way.
LEMMA ResetKeeps ==
    ASSUME PanelInv, ResetToForm
    PROVE  PanelInv'
<1>1. /\ panel' = [FreshPanel EXCEPT !.approved = panel.approved, !.ack = panel.ack]
      /\ debounce' = FALSE /\ swapsNow' = 0
      /\ UNCHANGED <<handler, asked, given, lapsed, pollingVars, trade, swaps, fees>>
    BY DEF ResetToForm
<1>2. PICK p \in PanelState : /\ p = panel' /\ p.step = "form" /\ p.row = NoRow
                              /\ p.pendingHash = 0 /\ p.feePendingHash = 0
  <2>1. PICK a \in BOOLEAN, b \in BOOLEAN : a = panel.approved /\ b = panel.ack
      BY DEF PanelInv, ScreenOK, PanelState
  <2>2. panel' = [FreshPanel EXCEPT !.approved = a, !.ack = b] /\ FreshPanel \in PanelState
      BY <1>1, <2>1, AtRestOK
  <2>3. /\ panel' \in PanelState /\ panel'.step = FreshPanel.step /\ panel'.row = FreshPanel.row
        /\ panel'.pendingHash = FreshPanel.pendingHash /\ panel'.feePendingHash = FreshPanel.feePendingHash
      BY <2>2 DEF PanelState
  <2> QED
      BY <2>3, AtRestOK
<1>3. Grows
    BY <1>1 DEF Grows, PanelInv, BackendOK, RowOK, FeeOnlyAfterSwap
<1>4. ScreenOK'
  <2>1. Seen(p.of, p.row)'
      BY <1>2, AtRestOK DEF Seen
  <2>2. p.pendingHash <= Len(swaps') /\ p.feePendingHash <= Len(fees')
      BY <1>2, <1>3 DEF Grows, BackendOK
  <2> QED
      BY <1>1, <1>2, <1>3, <2>1, <2>2, ScreenGoes
<1>5. HandlersOK' /\ AnswersOK'
    BY <1>1, <1>3, HandlersRest, AnswersRest DEF pollingVars
<1>6. AskingOK'
    BY <1>1, AskingRests
<1> QED
    BY <1>3, <1>4, <1>5, <1>6 DEF PanelInv, Grows

\* A refusal, a revert or a lost request before the swap is out: back to the review.
LEMMA BackKeeps ==
    ASSUME PanelInv, NEW h \in PanelHandlers, handler[h].pc \in Signing, BackToReview, Returns(h),
           UNCHANGED <<quoteVars, pollingVars, backendVars>>
    PROVE  PanelInv'
<1>1. SameRow(panel) /\ swapsNow = 0 /\ debounce \in BOOLEAN
    BY DEF PanelInv, ScreenOK, SameRow, AskingOK, HandlersOK, HandlerOK
<1>2. SameRow(panel') /\ panel'.step = "review"
    BY <1>1, StepSet DEF BackToReview, PanelSteps, ReviewSteps
<1>3. HandlersOK' /\ AskingOK'
    BY <1>1, BackendRests, HandlerReturns, AskingRests DEF quoteVars
<1> QED
    BY <1>1, <1>2, <1>3, ScreenAndHandler

\* What the wallet answers.
LEMMA WalletKeeps ==
    ASSUME PanelInv, NEW h \in PanelHandlers, NEW ok \in BOOLEAN,
           Approve(h, ok) \/ wouldRevert(h, ok) \/ SendSwap(h, ok) \/ SignConsent(h, ok) \/ SendFee(h, ok)
    PROVE  PanelInv'
<1>0. /\ SameRow(panel) /\ AskingOK' /\ UNCHANGED <<quoteVars, pollingVars>>
      /\ handler[h] \in PanelTask /\ HandlerOK(handler[h])
      /\ panel.step \in BeforeSwap => swapsNow = 0
  <2>1. SameRow(panel) /\ debounce \in BOOLEAN /\ (panel.step \in BeforeSwap => swapsNow = 0)
        /\ handler[h] \in PanelTask /\ HandlerOK(handler[h])
      BY DEF PanelInv, ScreenOK, SameRow, AskingOK, HandlersOK
  <2>2. UNCHANGED <<quoteVars, pollingVars>>
      BY DEF Approve, wouldRevert, SendSwap, SignConsent, SendFee
  <2> QED
      BY <2>1, <2>2, AskingRests DEF quoteVars
<1>1. CASE Approve(h, ok)
  <2>0. handler[h].pc = "approve" /\ UNCHANGED backendVars
      BY <1>1 DEF Approve
  <2>1. PICK q \in PanelQuotes : q = handler[h].quote /\ swapsNow = 0
      BY <1>0, <2>0 DEF HandlerOK, Signing
  <2>2. CASE ok
    <3>1. PICK p : p = [panel EXCEPT !.approved = TRUE]
        OBVIOUS
    <3>2. SameRow(p) /\ p.step = panel.step /\ ConfirmAndSign(h, q, p)
        BY <1>0, <1>1, <2>1, <2>2, <3>1, SameRowSet DEF Approve
    <3> QED
        BY <1>0, <2>0, <2>1, <3>2, ConfirmKeeps DEF Trading, Signing
  <2>3. CASE ~ok
      BY <1>0, <1>1, <2>0, <2>3, BackKeeps DEF Approve, Signing
  <2> QED
      BY <2>2, <2>3
<1>2. ASSUME NEW pc \in {"send", "relay"}, handler[h].pc \in Signing, GoesTo(h, pc), UNCHANGED backendVars
      PROVE  HandlersOK'
  <2>1. PICK n \in PanelTask : n = [handler[h] EXCEPT !.pc = pc]
      BY <1>0 DEF PanelTask
  <2>2. n.pc = pc /\ n.quote = handler[h].quote /\ handler' = [handler EXCEPT ![h] = n]
      BY <1>0, <1>2, <2>1 DEF GoesTo, PanelTask
  <2>3. Grows /\ swapsNow' = swapsNow
      BY <1>2, BackendRests
  <2>4. HandlerOK(n)'
      BY <1>0, <1>2, <2>2, <2>3 DEF HandlerOK, Signing
  <2> QED
      BY <1>2, <2>2, <2>3, <2>4, HandlerGoes DEF Trading
<1>3. CASE wouldRevert(h, ok)
  <2>0. handler[h].pc = "dryRun" /\ UNCHANGED backendVars
      BY <1>3 DEF wouldRevert
  <2>1. CASE ok
      BY <1>0, <1>3, <2>0, <2>1, BackKeeps DEF wouldRevert, Signing
  <2>2. CASE ~ok
    <3>1. GoesTo(h, "send") /\ panel' = panel
        BY <1>3, <2>2 DEF wouldRevert
    <3>2. HandlersOK'
        BY <1>2, <2>0, <3>1 DEF Signing
    <3> QED
        BY <1>0, <2>0, <3>1, <3>2, ScreenAndHandler
  <2> QED
      BY <2>1, <2>2
<1>4. CASE SignConsent(h, ok)
  <2>0. handler[h].pc = "consent" /\ UNCHANGED backendVars
      BY <1>4 DEF SignConsent
  <2>1. CASE ~ok
      BY <1>0, <1>4, <2>0, <2>1, BackKeeps DEF SignConsent, Signing
  <2>2. CASE ok
    <3>1. GoesTo(h, "relay") /\ panel' = [panel EXCEPT !.step = "submitted"]
        BY <1>4, <2>2 DEF SignConsent
    <3>2. HandlersOK'
        BY <1>2, <2>0, <3>1 DEF Signing
    <3>3. SameRow(panel') /\ panel'.step = "submitted"
        BY <1>0, <3>1, StepSet DEF PanelSteps, StatusSteps
    <3>4. panel'.step \notin BeforeSwap
        BY <3>3 DEF BeforeSwap, ReviewSteps
    <3> QED
        BY <1>0, <2>0, <3>2, <3>3, <3>4, ScreenAndHandler
  <2> QED
      BY <2>1, <2>2
<1>5. CASE SendSwap(h, ok)
  <2>0. handler[h].pc = "send" /\ UNCHANGED <<trade, fees>> /\ swapsNow = 0
      BY <1>0, <1>5 DEF SendSwap, HandlerOK, Signing
  <2>1. CASE ~ok
    <3>1. UNCHANGED backendVars /\ BackToReview /\ Returns(h)
        BY <1>5, <2>0, <2>1 DEF SendSwap, backendVars
    <3> QED
        BY <1>0, <2>0, <3>1, BackKeeps DEF Signing
  <2>2. CASE ok
    <3>1. PICK q \in PanelQuotes : q = handler[h].quote
        BY <1>0, <2>0 DEF HandlerOK
    <3>2. /\ Len(swaps) < MaxSwaps /\ swaps' = Append(swaps, q) /\ swapsNow' = 1
          /\ Holding(h, "record", q, NoQuote, Len(swaps')) /\ panel' = [panel EXCEPT !.step = "submitted"]
        BY <1>5, <2>0, <2>2, <3>1 DEF SendSwap
    <3>3. /\ swaps \in Seq(PanelQuotes) /\ swaps' \in Seq(PanelQuotes) /\ Len(swaps) \in Nat
          /\ Len(swaps') = Len(swaps) + 1 /\ \A i \in 1..Len(swaps) : swaps'[i] = swaps[i]
          /\ MaxSwaps \in Nat /\ MaxFees \in Nat
        BY <3>2, PanelAssumption DEF PanelInv, BackendOK
    <3>4. Grows
      <4>1. \A r \in PanelQuotes : RowOK(r)'
          BY <2>0, <3>3 DEF PanelInv, BackendOK, RowOK
      <4>2. FeeOnlyAfterSwap'
          BY <2>0 DEF PanelInv, BackendOK, FeeOnlyAfterSwap
      <4> QED
          BY <2>0, <3>2, <3>3, <4>1, <4>2 DEF Grows, PanelInv, BackendOK
    <3>5. HandlersOK'
      <4>1. PICK n \in 1..Len(swaps') : n = Len(swaps')
          BY <3>3
      <4>2. n \in 0..(MaxSwaps + MaxFees) /\ NoQuote \in MaybeQuote
          BY <3>2, <3>3, <4>1 DEF MaybeQuote
      <4> QED
          BY <2>0, <3>2, <3>4, <4>1, <4>2, Holds DEF HandlerSteps, Trading, Signing
    <3>6. PICK p \in PanelState : p = panel' /\ SameRow(p) /\ p.step = "submitted"
      <4>1. SameRow(panel') /\ panel'.step = "submitted"
          BY <1>0, <3>2, StepSet DEF PanelSteps, StatusSteps
      <4> QED
          BY <4>1 DEF SameRow
    <3>7. ScreenOK'
        BY <3>4, <3>6, ScreenGoes DEF SameRow, BeforeSwap, ReviewSteps
    <3>8. AnswersOK'
        BY <1>0, <3>4, AnswersRest DEF pollingVars
    <3> QED
        BY <1>0, <3>4, <3>5, <3>7, <3>8 DEF PanelInv, Grows
  <2> QED
      BY <2>1, <2>2
<1>6. CASE SendFee(h, ok)
  <2>0. handler[h].pc = "feeSend" /\ UNCHANGED <<trade, swaps, swapsNow>>
      BY <1>6 DEF SendFee
  <2>1. CASE ~ok
    <3>1. UNCHANGED backendVars /\ panel' = [panel EXCEPT !.feeSign = "idle"] /\ Returns(h)
        BY <1>6, <2>0, <2>1 DEF SendFee, backendVars
    <3>2. SameRow(panel') /\ panel'.step = panel.step /\ HandlersOK'
        BY <1>0, <3>1, SameRowSet, HandlerReturns, BackendRests
    <3> QED
        BY <1>0, <3>1, <3>2, ScreenAndHandler
  <2>2. CASE ok
    <3>1. PICK q \in PanelQuotes, of \in PanelQuotes :
            q = handler[h].quote /\ of = handler[h].of /\ trade[of].status = "CONFIRMED"
        BY <1>0, <2>0 DEF HandlerOK
    <3>2. /\ Len(fees) < MaxFees /\ fees' = Append(fees, [for |-> of, quote |-> q])
          /\ Holding(h, "feeRecord", q, of, Len(fees')) /\ panel' = panel
        BY <1>6, <2>0, <2>2, <3>1 DEF SendFee
    <3>3. PICK f \in [for: PanelQuotes, quote: PanelQuotes] : f = [for |-> of, quote |-> q] /\ f.for = of
      <4>1. [for |-> of, quote |-> q] \in [for: PanelQuotes, quote: PanelQuotes]
          OBVIOUS
      <4>2. [for |-> of, quote |-> q].for = of
          OBVIOUS
      <4> QED
          BY <4>1, <4>2
    <3>4. /\ fees \in Seq([for: PanelQuotes, quote: PanelQuotes])
          /\ fees' \in Seq([for: PanelQuotes, quote: PanelQuotes]) /\ Len(fees) \in Nat
          /\ Len(fees') = Len(fees) + 1 /\ \A i \in 1..Len(fees) : fees'[i] = fees[i]
          /\ fees'[Len(fees) + 1] = f
      <4>1. fees \in Seq([for: PanelQuotes, quote: PanelQuotes]) /\ fees' = Append(fees, f)
          BY <3>2, <3>3 DEF PanelInv, BackendOK
      <4> QED
          BY <4>1
    <3>5. MaxSwaps \in Nat /\ MaxFees \in Nat
        BY PanelAssumption
    <3>6. FeeOnlyAfterSwap'
      <4>1. ASSUME NEW i \in DOMAIN fees' PROVE trade[fees'[i].for].status = "CONFIRMED"
        <5>1. i \in 1..Len(fees) \/ i = Len(fees) + 1
            BY <3>4
        <5> QED
            BY <3>1, <3>3, <3>4, <5>1 DEF PanelInv, BackendOK, FeeOnlyAfterSwap
      <4> QED
          BY <2>0, <4>1 DEF FeeOnlyAfterSwap
    <3>7. Grows
      <4>1. \A r \in PanelQuotes : RowOK(r)'
          BY <2>0 DEF PanelInv, BackendOK, RowOK
      <4>2. Len(fees) <= Len(fees') /\ Len(fees') <= MaxFees
          BY <3>2, <3>4, <3>5
      <4> QED
          BY <2>0, <3>4, <3>6, <4>1, <4>2 DEF Grows, PanelInv, BackendOK
    <3>8. HandlersOK'
      <4>1. PICK n \in 1..Len(fees') : n = Len(fees')
          BY <3>4
      <4>2. n \in 0..(MaxSwaps + MaxFees) /\ of \in MaybeQuote
          BY <3>2, <3>4, <3>5, <4>1 DEF MaybeQuote
      <4> QED
          BY <2>0, <3>2, <3>7, <4>1, <4>2, Holds DEF HandlerSteps, Trading, Signing
    <3>9. PICK p \in PanelState : p = panel' /\ SameRow(p) /\ p.step = panel.step
        BY <1>0, <3>2 DEF SameRow
    <3>10. ScreenOK'
        BY <1>0, <2>0, <3>7, <3>9, ScreenGoes DEF SameRow
    <3>11. AnswersOK'
        BY <1>0, <3>7, AnswersRest DEF pollingVars
    <3> QED
        BY <1>0, <3>7, <3>8, <3>10, <3>11 DEF PanelInv, Grows
  <2> QED
      BY <2>1, <2>2
<1> QED
    BY <1>1, <1>3, <1>4, <1>5, <1>6

\* An element of a sequence.
LEMMA ElementOf ==
    ASSUME NEW S, NEW s \in Seq(S), NEW i \in DOMAIN s
    PROVE  s[i] \in S
OBVIOUS

\* The hashes a panel keeps are set within their bounds.
LEMMA HashSet ==
    ASSUME NEW p \in PanelState, NEW s \in PanelSteps, NEW m \in 0..MaxSwaps
    PROVE  [p EXCEPT !.step = s, !.pendingHash = m] \in PanelState
BY DEF PanelState, PanelSteps

\* The same of the fee's.
LEMMA FeeHashSet ==
    ASSUME NEW p \in PanelState, NEW s \in {"idle", "signing", "record-failed"}, NEW n \in 0..MaxFees
    PROVE  [p EXCEPT !.feeSign = s, !.feePendingHash = n] \in PanelState
BY DEF PanelState

\* The row of a swap is found or made, and no other row is touched.
LEMMA InsertOK ==
    ASSUME PanelInv, NEW q \in PanelQuotes, NEW n, NEW s, Len(s) \in Nat, Len(swaps) <= Len(s),
           n \in 1..Len(s), n \in 0..MaxSwaps, \A i \in 1..Len(swaps) : s[i] = swaps[i]
    PROVE  /\ RowOf(q, n) \in PanelQuotes /\ Insert(q, n) \in [PanelQuotes -> Rows]
           /\ \A r \in PanelQuotes :
                \/ Insert(q, n)[r] = trade[r]
                \/ /\ trade[r] = NoRow /\ Insert(q, n)[r].status = "PENDING"
                   /\ Insert(q, n)[r].hash \in 1..Len(s)
<1>0. trade \in [PanelQuotes -> Rows]
    BY DEF PanelInv, BackendOK
<1>1. RowOf(q, n) \in PanelQuotes
    BY DEF RowOf
<1>2. CASE trade[RowOf(q, n)] # NoRow
  <2>1. Insert(q, n) = trade
      BY <1>2 DEF Insert
  <2> QED
      BY <1>0, <1>1, <2>1
<1>3. CASE trade[RowOf(q, n)] = NoRow
  <2>1. trade[q] = NoRow
      BY <1>3 DEF RowOf
  <2>2. PICK w \in Rows : w = [NoRow EXCEPT !.hash = n, !.status = "PENDING"]
      BY AtRestOK DEF Rows, RowStatus
  <2>3. w.status = "PENDING" /\ w.hash = n
      BY <2>2 DEF NoRow
  <2>4. Insert(q, n) = [trade EXCEPT ![q] = w]
      BY <1>3, <2>2 DEF Insert
  <2> QED
      BY <1>0, <1>1, <2>1, <2>3, <2>4
<1> QED
    BY <1>2, <1>3

\* The rows with a new one, and the swaps with one more or not, are in order.
LEMMA InsertGrows ==
    ASSUME PanelInv, NEW q \in PanelQuotes, NEW n \in 1..Len(swaps'), trade' = Insert(q, n),
           swaps' \in Seq(PanelQuotes), Len(swaps) <= Len(swaps'), Len(swaps') <= MaxSwaps,
           \A i \in 1..Len(swaps) : swaps'[i] = swaps[i], UNCHANGED <<fees, swapsNow>>
    PROVE  Grows /\ RowOf(q, n) \in PanelQuotes
<1>0. /\ MaxSwaps \in Nat /\ Len(swaps) \in Nat /\ Len(swaps') \in Nat /\ n \in 0..MaxSwaps
      /\ trade \in [PanelQuotes -> Rows] /\ swapsNow \in {0, 1} /\ swapsNow <= Len(swaps)
      /\ fees \in Seq([for: PanelQuotes, quote: PanelQuotes]) /\ Len(fees) \in Nat /\ Len(fees) <= MaxFees
  <2>1. MaxSwaps \in Nat /\ Len(swaps') \in Nat
      BY PanelAssumption
  <2> QED
      BY <2>1 DEF PanelInv, BackendOK
<1>1. PICK s \in Seq(PanelQuotes) : s = swaps'
    OBVIOUS
<1>2. /\ RowOf(q, n) \in PanelQuotes /\ trade' \in [PanelQuotes -> Rows]
      /\ \A r \in PanelQuotes : \/ trade'[r] = trade[r]
                                \/ /\ trade[r] = NoRow /\ trade'[r].status = "PENDING"
                                   /\ trade'[r].hash \in 1..Len(swaps')
    BY <1>0, <1>1, InsertOK
<1>3. ASSUME NEW r \in PanelQuotes
      PROVE  RowOK(r)' /\ (trade[r].status = "CONFIRMED" => trade'[r].status = "CONFIRMED")
  <2>1. CASE trade'[r] = trade[r]
    <3>1. RowOK(r)
        BY DEF PanelInv, BackendOK
    <3>2. trade[r].hash \in 1..Len(swaps) => (trade[r].hash \in 1..Len(swaps') /\ swaps'[trade[r].hash] = swaps[trade[r].hash])
        BY <1>0
    <3> QED
        BY <2>1, <3>1, <3>2 DEF RowOK
  <2>2. CASE /\ trade[r] = NoRow /\ trade'[r].status = "PENDING"
             /\ trade'[r].hash \in 1..Len(swaps')
      BY <2>2, AtRestOK DEF RowOK
  <2> QED
      BY <1>2, <2>1, <2>2
<1>4. FeeOnlyAfterSwap'
  <2>1. \A i \in DOMAIN fees : fees[i].for \in PanelQuotes /\ trade[fees[i].for].status = "CONFIRMED"
    <3> SUFFICES ASSUME NEW i \in DOMAIN fees
                 PROVE  fees[i].for \in PanelQuotes /\ trade[fees[i].for].status = "CONFIRMED"
        OBVIOUS
    <3>1. fees[i] \in [for: PanelQuotes, quote: PanelQuotes]
        BY <1>0, ElementOf
    <3>2. trade[fees[i].for].status = "CONFIRMED"
        BY DEF PanelInv, BackendOK, FeeOnlyAfterSwap
    <3> QED
        BY <3>1, <3>2
  <2> QED
      BY <1>3, <2>1 DEF FeeOnlyAfterSwap
<1>5. BackendOK'
    BY <1>0, <1>2, <1>3, <1>4 DEF BackendOK
<1> QED
    BY <1>0, <1>2, <1>3, <1>5 DEF Grows

\* setTransaction shows a row as it is.
LEMMA ShowOK ==
    ASSUME PanelInv, Grows, NEW p \in PanelState,
           p.pendingHash \in {0, panel.pendingHash}, p.feePendingHash \in {0, panel.feePendingHash},
           NEW r \in PanelQuotes, NEW q \in PanelQuotes, ShowAndPoll(p, r, q),
           p.step = "confirmed" => panel.step = "confirmed", p.step \in BeforeSwap => swapsNow' = 0
    PROVE  ScreenOK' /\ polling' \in [of: PanelQuotes, quote: PanelQuotes]
<1>1. trade'[r] \in Rows /\ Len(swaps') \in Nat /\ Len(fees') \in Nat
    BY DEF Grows, BackendOK
<1>2. PICK w \in Rows : w = trade'[r]
    BY <1>1
<1>3. PICK z \in PanelState : z = [p EXCEPT !.of = r, !.row = w]
    BY DEF PanelState, MaybeQuote
<1>4. /\ z = panel' /\ z.of = r /\ z.row = w /\ z.step = p.step
      /\ z.pendingHash = p.pendingHash /\ z.feePendingHash = p.feePendingHash
    BY <1>2, <1>3 DEF ShowAndPoll, PanelState
<1>5. Seen(z.of, z.row)'
    BY <1>2, <1>4 DEF Seen
<1>6. /\ z.pendingHash <= Len(swaps') \/ z.pendingHash = panel.pendingHash
      /\ z.feePendingHash <= Len(fees') \/ z.feePendingHash = panel.feePendingHash
    BY <1>1, <1>4
<1>7. ScreenOK'
    BY <1>4, <1>5, <1>6, ScreenGoes
<1> QED
    BY <1>7 DEF ShowAndPoll

\* recordSubmittedTransaction: its row is there or made; when that is not known the hash is kept.
LEMMA RecordKeeps ==
    ASSUME PanelInv, NEW h \in PanelHandlers, NEW ok \in Outcomes, RecordSwap(h, ok)
    PROVE  PanelInv'
<1>0. /\ handler[h].pc = "record" /\ Returns(h) /\ UNCHANGED <<quoteVars, answers, swaps, fees, swapsNow>>
      /\ panel \in PanelState
    BY DEF RecordSwap, PanelInv, ScreenOK
<1>1. PICK q \in PanelQuotes, n \in 1..Len(swaps) : q = handler[h].quote /\ n = handler[h].hash
    BY <1>0 DEF PanelInv, HandlersOK, HandlerOK
<1>2. /\ swaps \in Seq(PanelQuotes) /\ Len(swaps) \in Nat /\ Len(swaps) <= MaxSwaps /\ MaxSwaps \in Nat
      /\ n \in 1..Len(swaps') /\ debounce \in BOOLEAN /\ feeAsked \in BOOLEAN
    BY <1>0, <1>1, PanelAssumption DEF PanelInv, BackendOK, AskingOK
<1>3. Grows /\ (ok # "no" => RowOf(q, n) \in PanelQuotes)
  <2>1. CASE ok = "no"
    <3>1. UNCHANGED backendVars
        BY <1>0, <2>1 DEF RecordSwap, backendVars
    <3> QED
        BY <2>1, <3>1, BackendRests
  <2>2. CASE ok # "no"
    <3>1. trade' = Insert(q, n)
        BY <1>1, <2>2 DEF RecordSwap
    <3> QED
        BY <1>0, <1>2, <3>1, InsertGrows
  <2> QED
      BY <2>1, <2>2
<1>4. HandlersOK' /\ AnswersOK'
    BY <1>0, <1>3, HandlerReturns, AnswersRest
<1>5. ScreenOK' /\ AskingOK'
  <2>1. CASE ok = "answered"
    <3>1. PICK r \in PanelQuotes : r = RowOf(q, n)
        BY <1>3, <2>1
    <3>2. PICK p \in PanelState : p = [panel EXCEPT !.step = "pending", !.pendingHash = 0]
      <4>1. 0 \in 0..MaxSwaps /\ "pending" \in PanelSteps
          BY <1>2 DEF PanelSteps, StatusSteps
      <4> QED
          BY <1>0, <4>1, HashSet
    <3>3. p.step = "pending" /\ p.pendingHash = 0 /\ p.feePendingHash = panel.feePendingHash
        BY <1>0, <3>2 DEF PanelState
    <3>4. ShowAndPoll(p, r, q) /\ feeAsked' = FALSE
        BY <1>1, <2>1, <3>1, <3>2 DEF RecordSwap
    <3>5. ScreenOK' /\ polling' \in [of: PanelQuotes, quote: PanelQuotes]
        BY <1>3, <3>3, <3>4, ShowOK DEF BeforeSwap, ReviewSteps
    <3> QED
        BY <1>0, <3>4, <3>5 DEF PanelInv, AskingOK, quoteVars
  <2>2. CASE ok # "answered"
    <3>1. panel' = [panel EXCEPT !.step = "record-failed", !.pendingHash = n] /\ UNCHANGED <<polling, feeAsked>>
        BY <1>1, <2>2 DEF RecordSwap, NotRecorded
    <3>2. PICK p \in PanelState : /\ p = panel' /\ p.step = "record-failed" /\ p.pendingHash = n
                                  /\ p.of = panel.of /\ p.row = panel.row
                                  /\ p.feePendingHash = panel.feePendingHash
      <4>1. n \in 0..MaxSwaps /\ "record-failed" \in PanelSteps
          BY <1>2 DEF PanelSteps
      <4>2. panel' \in PanelState
          BY <1>0, <3>1, <4>1, HashSet
      <4> QED
          BY <1>0, <3>1, <4>2 DEF PanelState
    <3>3. ScreenOK'
      <4>1. p.pendingHash <= Len(swaps')
          BY <1>2, <3>2
      <4> QED
          BY <1>3, <3>2, <4>1, ScreenGoes DEF BeforeSwap, ReviewSteps
    <3>4. AskingOK'
        BY <1>0, <1>2, <3>1, AskingRests DEF quoteVars, pollingVars
    <3> QED
        BY <3>3, <3>4
  <2> QED
      BY <2>1, <2>2
<1> QED
    BY <1>3, <1>4, <1>5 DEF PanelInv, Grows

\* POST /trade/relay broadcasts once for a quote; its answer may be lost.
LEMMA RelayKeeps ==
    ASSUME PanelInv, NEW h \in PanelHandlers, NEW ok \in Outcomes, RelaySwap(h, ok)
    PROVE  PanelInv'
<1>0. /\ handler[h].pc = "relay" /\ Returns(h) /\ UNCHANGED <<quoteVars, feeAsked, answers, fees, swapsNow>>
      /\ panel \in PanelState /\ SameRow(panel)
    BY DEF RelaySwap, PanelInv, ScreenOK, SameRow
<1>1. PICK q \in PanelQuotes : q = handler[h].quote /\ swapsNow = 0
    BY <1>0 DEF PanelInv, HandlersOK, HandlerOK, Signing
<1>2. /\ swaps \in Seq(PanelQuotes) /\ Len(swaps) \in Nat /\ MaxSwaps \in Nat
      /\ debounce \in BOOLEAN /\ feeAsked \in BOOLEAN /\ NoQuote \in MaybeQuote
    BY <1>0, PanelAssumption DEF PanelInv, BackendOK, AskingOK, MaybeQuote
<1>3. Grows
  <2>1. CASE ok = "no" \/ trade[q] # NoRow
    <3>1. UNCHANGED backendVars
        BY <1>0, <1>1, <2>1 DEF RelaySwap, backendVars
    <3> QED
        BY <3>1, BackendRests
  <2>2. CASE ~(ok = "no" \/ trade[q] # NoRow)
    <3>1. Len(swaps) < MaxSwaps /\ swaps' = Append(swaps, q) /\ trade' = Insert(q, Len(swaps'))
        BY <1>1, <2>2 DEF RelaySwap
    <3>2. /\ swaps' \in Seq(PanelQuotes) /\ Len(swaps') = Len(swaps) + 1
          /\ \A i \in 1..Len(swaps) : swaps'[i] = swaps[i]
        BY <1>2, <3>1
    <3>3. PICK n \in 1..Len(swaps') : n = Len(swaps')
        BY <1>2, <3>2
    <3> QED
        BY <1>0, <1>2, <3>1, <3>2, <3>3, InsertGrows
  <2> QED
      BY <2>1, <2>2
<1>4. HandlersOK' /\ AnswersOK'
    BY <1>0, <1>3, HandlerReturns, AnswersRest
<1>5. ScreenOK' /\ AskingOK'
  <2>1. CASE ok = "answered"
    <3>1. PICK p \in PanelState : p = [panel EXCEPT !.step = "pending"]
        BY <1>0 DEF PanelState, StatusSteps
    <3>2. p.step = "pending" /\ p.pendingHash = panel.pendingHash /\ p.feePendingHash = panel.feePendingHash
        BY <1>0, <3>1 DEF PanelState
    <3>3. ShowAndPoll(p, q, q)
        BY <1>1, <2>1, <3>1 DEF RelaySwap
    <3>4. ScreenOK' /\ polling' \in [of: PanelQuotes, quote: PanelQuotes]
        BY <1>3, <3>2, <3>3, ShowOK DEF BeforeSwap, ReviewSteps
    <3> QED
        BY <1>0, <3>4 DEF PanelInv, AskingOK, quoteVars
  <2>2. CASE ok # "answered"
    <3>1. BackToReview /\ UNCHANGED polling
        BY <2>2 DEF RelaySwap
    <3>2. SameRow(panel') /\ panel'.step = "review"
        BY <1>0, <3>1, StepSet DEF BackToReview, PanelSteps, ReviewSteps
    <3>3. PICK p \in PanelState : p = panel'
        BY <3>2 DEF SameRow
    <3>4. ScreenOK'
        BY <1>0, <1>1, <1>3, <3>2, <3>3, ScreenGoes DEF SameRow
    <3>5. AskingOK'
        BY <1>0, <1>2, <3>1, AskingRests DEF quoteVars, pollingVars
    <3> QED
        BY <3>4, <3>5
  <2> QED
      BY <2>1, <2>2
<1> QED
    BY <1>3, <1>4, <1>5 DEF PanelInv, Grows

\* A row changes, but neither its hash nor a status that is CONFIRMED.
LEMMA RowChanges ==
    ASSUME PanelInv, NEW q \in PanelQuotes, NEW w \in Rows, trade' = [trade EXCEPT ![q] = w],
           w.hash = trade[q].hash, trade[q].status = "CONFIRMED" => w.status = "CONFIRMED",
           trade[q].status = "none" => w.status = "none",
           w.status = "CONFIRMED" => trade[q].status = "CONFIRMED" \/ swaps[w.hash] = q,
           UNCHANGED <<swaps, fees, swapsNow>>
    PROVE  Grows
<1>0. trade \in [PanelQuotes -> Rows] /\ \A r \in PanelQuotes : trade'[r] = IF r = q THEN w ELSE trade[r]
    BY DEF PanelInv, BackendOK
<1>1. \A r \in PanelQuotes : trade[r].status = "CONFIRMED" => trade'[r].status = "CONFIRMED"
    BY <1>0
<1>2. \A r \in PanelQuotes : RowOK(r)'
    BY <1>0 DEF PanelInv, BackendOK, RowOK
<1>3. FeeOnlyAfterSwap'
  <2>1. ASSUME NEW i \in DOMAIN fees PROVE fees[i].for \in PanelQuotes /\ trade[fees[i].for].status = "CONFIRMED"
    <3>1. fees[i] \in [for: PanelQuotes, quote: PanelQuotes]
        BY ElementOf DEF PanelInv, BackendOK
    <3>2. trade[fees[i].for].status = "CONFIRMED"
        BY DEF PanelInv, BackendOK, FeeOnlyAfterSwap
    <3> QED
        BY <3>1, <3>2
  <2> QED
      BY <1>1, <2>1 DEF FeeOnlyAfterSwap
<1>4. trade' \in [PanelQuotes -> Rows]
    BY <1>0
<1> QED
    BY <1>1, <1>2, <1>3, <1>4 DEF Grows, PanelInv, BackendOK

\* recordFeeTransaction.
LEMMA RecordFeeKeeps ==
    ASSUME PanelInv, NEW h \in PanelHandlers, NEW ok \in Outcomes, RecordFee(h, ok)
    PROVE  PanelInv'
<1>0. /\ handler[h].pc = "feeRecord" /\ Returns(h)
      /\ UNCHANGED <<quoteVars, feeAsked, answers, swaps, fees, swapsNow>>
      /\ panel \in PanelState /\ trade \in [PanelQuotes -> Rows]
    BY DEF RecordFee, PanelInv, ScreenOK, BackendOK
<1>1. PICK q \in PanelQuotes, k \in PanelQuotes, n \in 1..Len(fees) :
        q = handler[h].of /\ k = handler[h].quote /\ n = handler[h].hash
    BY <1>0 DEF PanelInv, HandlersOK, HandlerOK
<1>2. /\ Len(fees) \in Nat /\ Len(fees) <= MaxFees /\ MaxFees \in Nat /\ n \in 0..MaxFees
      /\ debounce \in BOOLEAN /\ feeAsked \in BOOLEAN
    BY <1>0, <1>1, PanelAssumption DEF PanelInv, BackendOK, AskingOK
<1>3. Grows
  <2>1. CASE ok # "no" /\ trade[q].feeHash = 0
    <3>1. trade[q] \in Rows
        BY <1>0
    <3>2. PICK w \in Rows : w = [trade[q] EXCEPT !.feeHash = n, !.fee = "PENDING"]
        BY <1>2, <3>1 DEF Rows, RowStatus
    <3>3. w.hash = trade[q].hash /\ w.status = trade[q].status
        BY <3>1, <3>2 DEF Rows
    <3>4. trade' = [trade EXCEPT ![q] = w]
        BY <1>0, <1>1, <2>1, <3>2 DEF RecordFee
    <3> QED
        BY <1>0, <3>3, <3>4, RowChanges
  <2>2. CASE ~(ok # "no" /\ trade[q].feeHash = 0)
    <3>1. UNCHANGED backendVars
        BY <1>0, <1>1, <2>2 DEF RecordFee, backendVars
    <3> QED
        BY <3>1, BackendRests
  <2> QED
      BY <2>1, <2>2
<1>4. HandlersOK' /\ AnswersOK'
    BY <1>0, <1>3, HandlerReturns, AnswersRest
<1>5. ScreenOK' /\ AskingOK'
  <2>1. CASE ok = "answered"
    <3>1. PICK p \in PanelState : p = [panel EXCEPT !.feeSign = "idle", !.feePendingHash = 0]
      <4>1. 0 \in 0..MaxFees
          BY <1>2
      <4> QED
          BY <1>0, <4>1, FeeHashSet
    <3>2. p.step = panel.step /\ p.pendingHash = panel.pendingHash /\ p.feePendingHash = 0
        BY <1>0, <3>1 DEF PanelState
    <3>3. ShowAndPoll(p, q, k)
        BY <1>1, <2>1, <3>1 DEF RecordFee
    <3>4. p.step \in BeforeSwap => swapsNow' = 0
        BY <1>0, <3>2 DEF PanelInv, ScreenOK
    <3>5. ScreenOK' /\ polling' \in [of: PanelQuotes, quote: PanelQuotes]
        BY <1>3, <3>2, <3>3, <3>4, ShowOK
    <3> QED
        BY <1>0, <3>5 DEF PanelInv, AskingOK, quoteVars
  <2>2. CASE ok # "answered"
    <3>1. panel' = [panel EXCEPT !.feeSign = "record-failed", !.feePendingHash = n] /\ UNCHANGED polling
        BY <1>1, <2>2 DEF RecordFee
    <3>2. PICK p \in PanelState : /\ p = panel' /\ p.step = panel.step /\ p.feePendingHash = n
                                  /\ p.of = panel.of /\ p.row = panel.row
                                  /\ p.pendingHash = panel.pendingHash
      <4>1. panel' \in PanelState
          BY <1>0, <1>2, <3>1, FeeHashSet
      <4> QED
          BY <1>0, <3>1, <4>1 DEF PanelState
    <3>3. ScreenOK'
      <4>1. p.feePendingHash <= Len(fees') /\ (p.step \in BeforeSwap => swapsNow' = 0)
          BY <1>0, <1>2, <3>2 DEF PanelInv, ScreenOK
      <4> QED
          BY <1>3, <3>2, <4>1, ScreenGoes
    <3>4. AskingOK'
        BY <1>0, <1>2, <3>1, AskingRests DEF quoteVars, pollingVars
    <3> QED
        BY <3>3, <3>4
  <2> QED
      BY <2>1, <2>2
<1> QED
    BY <1>3, <1>4, <1>5 DEF PanelInv, Grows

\* The API settles a swap or a fee: the panel learns of it later.
LEMMA SettleKeeps ==
    ASSUME PanelInv, NEW q \in PanelQuotes, NEW status \in Settled, SettleSwap(q, status) \/ SettleFee(q, status)
    PROVE  PanelInv'
<1>0. /\ UNCHANGED <<panel, handler, quoteVars, pollingVars, swaps, fees, swapsNow>>
      /\ trade[q] \in Rows /\ trade \in [PanelQuotes -> Rows] /\ status \in RowStatus
    BY DEF SettleSwap, SettleFee, PanelInv, BackendOK, RowStatus
<1>1. Grows
  <2>1. CASE SettleSwap(q, status)
    <3>1. PICK w \in Rows : w = [trade[q] EXCEPT !.status = status]
        BY <1>0 DEF Rows
    <3>2. w.hash = trade[q].hash /\ w.status = status /\ trade' = [trade EXCEPT ![q] = w]
        BY <1>0, <2>1, <3>1 DEF Rows, SettleSwap
    <3> QED
        BY <1>0, <2>1, <3>2, RowChanges DEF SettleSwap
  <2>2. CASE SettleFee(q, status)
    <3>1. PICK w \in Rows : w = [trade[q] EXCEPT !.fee = status]
        BY <1>0 DEF Rows
    <3>2. w.hash = trade[q].hash /\ w.status = trade[q].status /\ trade' = [trade EXCEPT ![q] = w]
        BY <1>0, <2>2, <3>1 DEF Rows, SettleFee
    <3> QED
        BY <1>0, <3>2, RowChanges
  <2> QED
      BY <2>1, <2>2
<1>2. HandlersOK' /\ AnswersOK'
    BY <1>0, <1>1, HandlersRest, AnswersRest DEF pollingVars
<1>3. ScreenOK'
  <2>1. PICK p \in PanelState : p = panel /\ p = panel'
      BY <1>0 DEF PanelInv, ScreenOK
  <2>2. p.step \in BeforeSwap => swapsNow' = 0
      BY <1>0, <2>1 DEF PanelInv, ScreenOK
  <2> QED
      BY <1>1, <2>1, <2>2, ScreenGoes
<1>4. AskingOK'
    BY <1>0, AskingRests DEF quoteVars, PanelInv, AskingOK
<1> QED
    BY <1>1, <1>2, <1>3, <1>4 DEF PanelInv, Grows

\* An interval reads what the API knows now.
LEMMA TickKeeps ==
    ASSUME PanelInv, PollTick
    PROVE  PanelInv'
<1>0. /\ polling # NotPolling /\ UNCHANGED <<panel, handler, polling, feeAsked, quoteVars, backendVars>>
      /\ answers \in [1..MaxAnswers -> PanelAnswer] /\ panel \in PanelState
    BY DEF PollTick, PanelInv, AnswersOK, ScreenOK
<1>1. polling.of \in PanelQuotes /\ polling.quote \in PanelQuotes /\ trade[polling.of] \in Rows
    BY <1>0 DEF PanelInv, AskingOK, BackendOK
<1>2. PICK a \in PanelAnswer : a = [of |-> polling.of, quote |-> polling.quote, row |-> trade[polling.of]]
    BY <1>1 DEF PanelAnswer, MaybeQuote
<1>3. a.of = polling.of /\ a.row = trade[a.of] /\ a.of \in PanelQuotes
    BY <1>1, <1>2
<1>4. PICK i \in 1..MaxAnswers : answers' = [answers EXCEPT ![i] = a]
    BY <1>2 DEF PollTick
<1>5. Grows /\ swapsNow' = swapsNow /\ trade' = trade
    BY <1>0, BackendRests DEF backendVars
<1>6. AnswersOK'
  <2>1. ASSUME NEW j \in 1..MaxAnswers PROVE Seen(answers[j].of, answers[j].row)'
    <3>1. CASE j = i
      <4>1. answers'[j] = a
          BY <1>0, <1>4, <3>1
      <4> QED
          BY <1>3, <1>5, <4>1 DEF Seen
    <3>2. CASE j # i
      <4>1. answers'[j] = answers[j] /\ Seen(answers[j].of, answers[j].row)
          BY <1>0, <1>4, <3>2 DEF PanelInv, AnswersOK
      <4> QED
          BY <1>5, <4>1 DEF Seen
    <3> QED
        BY <3>1, <3>2
  <2>2. answers' \in [1..MaxAnswers -> PanelAnswer]
      BY <1>0, <1>4
  <2> QED
      BY <2>1, <2>2 DEF AnswersOK
<1>7. HandlersOK'
    BY <1>0, <1>5, HandlersRest
<1>8. ScreenOK'
  <2>1. PICK p \in PanelState : p = panel /\ p = panel'
      BY <1>0
  <2>2. p.step \in BeforeSwap => swapsNow' = 0
      BY <1>5, <2>1 DEF PanelInv, ScreenOK
  <2> QED
      BY <1>5, <2>1, <2>2, ScreenGoes
<1>9. AskingOK'
    BY <1>0 DEF PanelInv, AskingOK, quoteVars
<1> QED
    BY <1>5, <1>6, <1>7, <1>8, <1>9 DEF PanelInv, Grows

\* An answer, whichever trade it is about by now, says confirmed only of one that is, and
\* leads to no button that signs a swap.
LEMMA AnswerKeeps ==
    ASSUME PanelInv, NEW i \in 1..MaxAnswers, AnswerArrives(i)
    PROVE  PanelInv'
<1>0. /\ answers \in [1..MaxAnswers -> PanelAnswer] /\ panel \in PanelState
      /\ UNCHANGED <<quoteVars, backendVars>> /\ answers' = [answers EXCEPT ![i] = NoAnswer]
    BY DEF AnswerArrives, PanelInv, AnswersOK, ScreenOK
<1>1. PICK a \in PanelAnswer : a = answers[i] /\ Seen(a.of, a.row)
    BY <1>0 DEF PanelInv, AnswersOK
<1>2. PICK s \in PanelSteps : s = StepOf(a.row.status, panel.step)
  <2>1. panel.step \in PanelSteps
      BY <1>0 DEF PanelState, PanelSteps
  <2>2. StepOf(a.row.status, panel.step) \in {panel.step, "confirmed", "failed"}
      BY DEF StepOf
  <2> QED
      BY <2>1, <2>2 DEF PanelSteps, StatusSteps
<1>3. /\ s = "confirmed" => panel.step = "confirmed" \/ a.row.status = "CONFIRMED"
      /\ s \in BeforeSwap => s = panel.step
    BY <1>2 DEF StepOf, BeforeSwap, ReviewSteps
<1>4. PICK p \in PanelState : p = [panel EXCEPT !.of = a.of, !.row = a.row, !.step = s]
    BY <1>0, <1>1 DEF PanelState, PanelSteps, PanelAnswer
<1>5. /\ p.of = a.of /\ p.row = a.row /\ p.step = s /\ p.pendingHash = panel.pendingHash
      /\ p.feePendingHash = panel.feePendingHash
    BY <1>0, <1>4 DEF PanelState
<1>6. Grows /\ swapsNow' = swapsNow /\ trade' = trade
    BY <1>0, BackendRests DEF backendVars
<1>7. /\ IF FeeDue(a) THEN /\ panel' = [p EXCEPT !.feeSign = "signing"] /\ feeAsked' = TRUE
                           /\ StartHandler("feeSend", a.quote, a.of, 0)
         ELSE panel' = p /\ UNCHANGED <<feeAsked, handler>>
      /\ polling' \in {polling, NotPolling}
    BY <1>1, <1>2, <1>4 DEF AnswerArrives
<1>8. ScreenOK'
  <2>1. PICK z \in PanelState : /\ z = panel' /\ z.of = a.of /\ z.row = a.row /\ z.step = s
                                /\ z.pendingHash = panel.pendingHash /\ z.feePendingHash = panel.feePendingHash
    <3>1. CASE FeeDue(a)
      <4>1. panel' = [p EXCEPT !.feeSign = "signing"]
          BY <1>7, <3>1
      <4> QED
          BY <1>5, <4>1 DEF PanelState
    <3>2. CASE ~FeeDue(a)
        BY <1>5, <1>7, <3>2
    <3> QED
        BY <3>1, <3>2
  <2>2. Seen(z.of, z.row) /\ Seen(z.of, z.row)'
      BY <1>1, <1>6, <2>1 DEF Seen
  <2>3. z.step \in BeforeSwap => swapsNow' = 0
      BY <1>3, <1>6, <2>1 DEF PanelInv, ScreenOK
  <2>4. z.step = "confirmed" => (panel.step = "confirmed" \/ (Seen(z.of, z.row) /\ z.row.status = "CONFIRMED"))
      BY <1>3, <2>1, <2>2
  <2> QED
      BY <1>6, <2>1, <2>2, <2>3, <2>4, ScreenGoes
<1>9. HandlersOK'
  <2>1. CASE FeeDue(a)
    <3>1. /\ a.quote \in PanelQuotes /\ a.of \in PanelQuotes /\ trade'[a.of].status = "CONFIRMED"
          /\ a.of \in MaybeQuote /\ 0 \in 0..(MaxSwaps + MaxFees)
      <4>1. a.quote \in PanelQuotes /\ MaxSwaps \in Nat /\ MaxFees \in Nat
          BY <2>1, PanelAssumption DEF FeeDue
      <4> QED
          BY <1>1, <1>6, <2>1, <4>1 DEF FeeDue, Seen, MaybeQuote
    <3>2. PICK h \in PanelHandlers : h = SpareHandler /\ Holding(h, "feeSend", a.quote, a.of, 0)
        BY <1>7, <2>1, SpareIsThere DEF StartHandler
    <3> QED
        BY <1>6, <3>1, <3>2, Holds DEF HandlerSteps, Trading, Signing
  <2>2. CASE ~FeeDue(a)
      BY <1>6, <1>7, <2>2, HandlersRest
  <2> QED
      BY <2>1, <2>2
<1>10. AnswersOK'
  <2>1. \A j \in 1..MaxAnswers : answers'[j] = IF j = i THEN NoAnswer ELSE answers[j]
      BY <1>0
  <2>2. answers' \in [1..MaxAnswers -> PanelAnswer]
      BY <1>0, AtRestOK
  <2>3. ASSUME NEW j \in 1..MaxAnswers PROVE Seen(answers[j].of, answers[j].row)'
      BY <1>6, <2>1, AtRestOK DEF PanelInv, AnswersOK, Seen
  <2> QED
      BY <2>2, <2>3 DEF AnswersOK
<1>11. AskingOK'
  <2>1. feeAsked' \in BOOLEAN
      BY <1>7 DEF PanelInv, AskingOK
  <2> QED
      BY <1>0, <1>7, <2>1 DEF PanelInv, AskingOK, quoteVars
<1> QED
    BY <1>6, <1>8, <1>9, <1>10, <1>11 DEF PanelInv, Grows

\* Every step of the user, the wallet, the intervals and the API keeps the invariant.
LEMMA PanelInvStep == PanelInv /\ [PanelNext]_panelVars => PanelInv'
<1> SUFFICES ASSUME PanelInv, [PanelNext]_panelVars PROVE PanelInv'
    OBVIOUS
<1>1. ASSUME UserStep PROVE PanelInv'
    BY <1>1, TapKeeps, RetryKeeps, ResetKeeps DEF UserStep
<1>2. ASSUME NEW h \in PanelHandlers, WalletStep(h) PROVE PanelInv'
    BY <1>2, WalletKeeps DEF WalletStep
<1>3. ASSUME NEW h \in PanelHandlers, RequestStep(h) PROVE PanelInv'
    BY <1>3, RecordKeeps, RelayKeeps, RecordFeeKeeps DEF RequestStep
<1>4. ASSUME NEW q \in PanelQuotes, ApiStep(q) PROVE PanelInv'
    BY <1>4, SettleKeeps DEF ApiStep
<1>5. ASSUME UNCHANGED panelVars PROVE PanelInv'
  <2>1. UNCHANGED <<panel, handler, quoteVars, pollingVars, backendVars>>
      BY <1>5 DEF panelVars
  <2>2. SameRow(panel') /\ AskingOK' /\ HandlersOK'
    <3>1. AskingOK'
        BY <2>1, AskingRests DEF PanelInv, AskingOK, quoteVars
    <3>2. HandlersOK'
        BY <2>1, BackendRests, HandlersRest
    <3> QED
        BY <2>1, <3>1, <3>2 DEF SameRow, PanelInv, ScreenOK
  <2>3. panel'.step \in BeforeSwap => swapsNow = 0
      BY <2>1 DEF PanelInv, ScreenOK
  <2> QED
      BY <2>1, <2>2, <2>3, ScreenAndHandler
<1> QED
    BY <1>1, <1>2, <1>3, <1>4, <1>5, QuoteKeeps, TickKeeps, AnswerKeeps DEF PanelNext

\* Whatever answers come late and whatever is retried, the panel signs one swap between two
\* resets, pays a fee only for a swap that landed, and shows success only when some trade
\* was confirmed by its own swap (TradePanel.tsx, pollTransactionStatus and resetToForm).
THEOREM PanelSafetyHolds == PanelSpec => [](PanelTypeOK /\ PanelSafety)
BY PanelInvInit, PanelInvStep, PanelInvSafe, PTL DEF PanelSpec

-----------------------------------------------------------------------------
(* The social services and the panel together *)

SocialServices == {"calls", "live", "tips", "polls", "generator", "panel", "messages"}

\* A step of the composition is a step of one component, and the service in play stays.
LEMMA StepOfSocial ==
    ASSUME [SocialNext]_socialVars
    PROVE  /\ [CallsNext]_callVars /\ [LiveNext]_liveVars /\ [TipsNext]_tipVars /\ [PollNext]_pollVars
           /\ [GenNext]_genVars /\ [PanelNext]_panelVars /\ [DmNext]_dmVars /\ service' = service
BY DEF SocialNext, socialVars

\* The components side by side keep what each of them keeps alone.
THEOREM SocialSafetyHolds ==
    ~SlowWrites =>
      (SocialSpec => [](/\ SocialTypeOK /\ CallSafety /\ LiveSafety /\ TipSafety
                        /\ TallyAgrees /\ GeneratorSafety /\ PanelSafety /\ DmSafety))
<1> SUFFICES ASSUME ~SlowWrites
             PROVE  SocialSpec => [](/\ SocialTypeOK /\ CallSafety /\ LiveSafety /\ TipSafety
                                     /\ TallyAgrees /\ GeneratorSafety /\ PanelSafety /\ DmSafety)
    OBVIOUS
<1>1. SocialSpec => CallsSpec /\ LiveSpec /\ TipsSpec /\ PollSpec /\ GenSpec /\ PanelSpec /\ DmSpec
    BY StepOfSocial, PTL
    DEF SocialSpec, SocialInit, CallsSpec, LiveSpec, TipsSpec, PollSpec, GenSpec, PanelSpec, DmSpec
<1>2. SocialInit => service \in SocialServices
    BY DEF SocialInit, SocialServices
<1>3. service \in SocialServices /\ [SocialNext]_socialVars => (service \in SocialServices)'
    BY StepOfSocial
<1>4. /\ service \in SocialServices /\ CallsTypeOK /\ LiveTypeOK /\ TipsTypeOK /\ PollTypeOK
      /\ GenTypeOK /\ PanelTypeOK /\ DmTypeOK
      => SocialTypeOK
    BY DEF SocialServices, SocialTypeOK
<1>5. SocialSpec => [](service \in SocialServices)
    BY <1>2, <1>3, PTL DEF SocialSpec
<1> QED
    BY <1>1, <1>4, <1>5, CallSafetyHolds, LiveSafetyHolds, TipSafetyHolds, TallyAgreesHolds,
       GeneratorSafetyHolds, PanelSafetyHolds, DmSafetyHolds, PTL

\* In the composition, too, the outcome of a poll is final while no resolver outlives its lock.
THEOREM SocialOutcomeIsFinal == ~SlowResolvers => (SocialSpec => OutcomeIsFinal)
<1>1. SocialSpec => PollSpec
    BY StepOfSocial, PTL DEF SocialSpec, SocialInit, PollSpec
<1> QED
    BY <1>1, OutcomeIsFinalHolds, PTL
=============================================================================
