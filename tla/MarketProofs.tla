---------------------------- MODULE MarketProofs ----------------------------
(***************************************************************************)
(* Proofs about what the API and the worker read from others: the pacing   *)
(* of Jupiter, the circuit breakers, swap ingestion and pool discovery,    *)
(* for any number of calls, blocks and pools; and, at the end, that the    *)
(* composition of the services keeps what its components keep.             *)
(***************************************************************************)
EXTENDS MCServices, FiniteSetTheorems, SequenceTheorems, WellFoundedInduction, TLAPS

-----------------------------------------------------------------------------
(* JupiterPacing *)

\* Calls that have a slot and whose first fetch is still to come.
WaitingCalls == {c \in JupCalls : jup[c].pc = "waiting"}

\* The slots handed out end before the next one, nobody who waits is late, and every fetch,
\* past or promised, has a spacing of its own before the next slot.
PacingInv ==
  /\ PacingTypeOK
  /\ CallsSpaced /\ OnTime
  /\ \A c \in JupCalls : Going(c) => jup[c].slot + Spacing <= nextSlotAt
  /\ \A c \in JupCalls : jup[c].pc = "waiting" => clock <= jup[c].slot
  /\ \A c \in JupCalls : jup[c].pc = "backoff" => jup[c].attempt < MaxRetries
  /\ IsFiniteSet(WaitingCalls)
  /\ (fetches + Cardinality(WaitingCalls)) * Spacing <= nextSlotAt

\* Before the first call no slot is taken and nothing was fetched.
LEMMA PacingInvInit == PacingInit => PacingInv
<1> SUFFICES ASSUME PacingInit PROVE PacingInv
    OBVIOUS
<1>1. WaitingCalls = {}
    BY DEF PacingInit, WaitingCalls
<1>2. IsFiniteSet(WaitingCalls) /\ Cardinality(WaitingCalls) = 0
    BY <1>1, FS_EmptySet
<1> QED
    BY <1>2, PacingAssumption
    DEF PacingInit, PacingInv, PacingTypeOK, JupTask, CallsSpaced, OnTime, Going

\* One fetch more, or one promised, takes one spacing more.
LEMMA OneSpacingMore ==
    ASSUME NEW n \in Nat, NEW next \in Nat, n * Spacing <= next
    PROVE  (n + 1) * Spacing <= next + Spacing
BY PacingAssumption

\* The slot `take` hands out is neither past nor before the next free one.
LEMMA SlotIsNext ==
    ASSUME PacingTypeOK
    PROVE  Slot \in Nat /\ clock <= Slot /\ nextSlotAt <= Slot
BY DEF PacingTypeOK, Slot

\* Taking a slot, fetching, retrying and the clock keep PacingInv.
LEMMA PacingInvStep == PacingInv /\ [PacingNext]_pacingVars => PacingInv'
<1> SUFFICES ASSUME PacingInv, [PacingNext]_pacingVars PROVE PacingInv'
    OBVIOUS
<1> DEFINE n == Cardinality(WaitingCalls)
<1>0. n \in Nat /\ Slot \in Nat /\ clock <= Slot /\ nextSlotAt <= Slot /\ fetches + n \in Nat
    BY FS_CardinalityType, SlotIsNext DEF PacingInv, PacingTypeOK
<1>1. ASSUME NEW c \in JupCalls, take(c), Slot - clock > MaxWait PROVE PacingInv'
  <2>1. jup' = [jup EXCEPT ![c].pc = "busy"] /\ UNCHANGED <<nextSlotAt, clock, fetches>>
      BY <1>1 DEF take
  <2>2. WaitingCalls' = WaitingCalls
      BY <1>1, <2>1 DEF take, WaitingCalls, PacingInv, PacingTypeOK, JupTask
  <2> QED
      BY <2>1, <2>2 DEF PacingInv, PacingTypeOK, JupTask, CallsSpaced, OnTime, Going
<1>2. ASSUME NEW c \in JupCalls, take(c), ~(Slot - clock > MaxWait) PROVE PacingInv'
  <2>1. /\ jup' = [jup EXCEPT ![c].pc = "waiting", ![c].slot = Slot]
        /\ nextSlotAt' = Slot + Spacing /\ UNCHANGED <<clock, fetches>>
      BY <1>2 DEF take
  <2>2. WaitingCalls' = WaitingCalls \cup {c} /\ c \notin WaitingCalls
      BY <1>2, <2>1 DEF take, WaitingCalls, PacingInv, PacingTypeOK, JupTask
  <2>3. IsFiniteSet(WaitingCalls)' /\ Cardinality(WaitingCalls)' = n + 1
      BY <2>2, FS_AddElement DEF PacingInv
  <2>4. (fetches + n + 1) * Spacing <= nextSlotAt + Spacing
      BY <1>0, OneSpacingMore DEF PacingInv, PacingTypeOK
  <2>5. (fetches + Cardinality(WaitingCalls))' * Spacing <= nextSlotAt'
      BY <1>0, <2>1, <2>3, <2>4, PacingAssumption DEF PacingInv, PacingTypeOK
  <2>6. PacingTypeOK'
    <3>1. jup[c] \in JupTask /\ Slot + Spacing \in Nat
        BY <1>0, PacingAssumption DEF PacingInv, PacingTypeOK
    <3>2. [jup[c] EXCEPT !.pc = "waiting", !.slot = Slot] \in JupTask
        BY <1>0, <3>1 DEF JupTask
    <3>3. jup' = [jup EXCEPT ![c] = [jup[c] EXCEPT !.pc = "waiting", !.slot = Slot]]
        BY <2>1
    <3> QED
        BY <2>1, <3>1, <3>2, <3>3 DEF PacingInv, PacingTypeOK
  <2>7. CallsSpaced'
      BY <1>0, <1>2, <2>1, PacingAssumption DEF take, PacingInv, PacingTypeOK, JupTask, CallsSpaced, Going
  <2>8. OnTime'
      BY <2>1 DEF PacingInv, PacingTypeOK, JupTask, OnTime
  <2>9. /\ \A d \in JupCalls : (Going(d) => jup[d].slot + Spacing <= nextSlotAt)'
        /\ \A d \in JupCalls : (jup[d].pc = "waiting" => clock <= jup[d].slot)'
        /\ \A d \in JupCalls : (jup[d].pc = "backoff" => jup[d].attempt < MaxRetries)'
      BY <1>0, <1>2, <2>1, PacingAssumption DEF take, PacingInv, PacingTypeOK, JupTask, Going
  <2> QED
      BY <2>3, <2>5, <2>6, <2>7, <2>8, <2>9 DEF PacingInv
<1>3. ASSUME NEW c \in JupCalls, SendFirst(c) PROVE PacingInv'
  <2>1. WaitingCalls' = WaitingCalls \ {c} /\ c \in WaitingCalls
      BY <1>3 DEF SendFirst, WaitingCalls, PacingInv, PacingTypeOK, JupTask
  <2>2. IsFiniteSet(WaitingCalls)' /\ Cardinality(WaitingCalls)' = n - 1
      BY <2>1, FS_RemoveElement DEF PacingInv
  <2>3. (fetches + Cardinality(WaitingCalls))' = fetches + n
      BY <1>0, <1>3, <2>2 DEF SendFirst, PacingInv, PacingTypeOK
  <2>4. PacingTypeOK'
    <3>1. jup[c] \in JupTask /\ clock \in Nat
        BY DEF PacingInv, PacingTypeOK
    <3>2. [jup[c] EXCEPT !.pc = "out", !.last = clock] \in JupTask
        BY <3>1 DEF JupTask
    <3>3. jup' = [jup EXCEPT ![c] = [jup[c] EXCEPT !.pc = "out", !.last = clock]]
        BY <1>3 DEF SendFirst
    <3> QED
        BY <1>3, <3>2, <3>3 DEF SendFirst, PacingInv, PacingTypeOK
  <2>7. OnTime'
      BY <1>3 DEF SendFirst, PacingInv, PacingTypeOK, JupTask, OnTime
  <2>5. CallsSpaced'
      BY <1>3 DEF SendFirst, PacingInv, PacingTypeOK, JupTask, CallsSpaced, Going
  <2>6. /\ \A d \in JupCalls : (Going(d) => jup[d].slot + Spacing <= nextSlotAt)'
        /\ \A d \in JupCalls : (jup[d].pc = "waiting" => clock <= jup[d].slot)'
        /\ \A d \in JupCalls : (jup[d].pc = "backoff" => jup[d].attempt < MaxRetries)'
      BY <1>3 DEF SendFirst, PacingInv, PacingTypeOK, JupTask, Going
  <2> QED
      BY <1>3, <2>2, <2>3, <2>4, <2>5, <2>6, <2>7 DEF PacingInv, SendFirst
<1>4. ASSUME NEW c \in JupCalls, NEW limited \in BOOLEAN, JupiterAnswers(c, limited) PROVE PacingInv'
  <2>1. WaitingCalls' = WaitingCalls
      BY <1>4 DEF JupiterAnswers, WaitingCalls, PacingInv, PacingTypeOK, JupTask
  <2> QED
      BY <1>4, <2>1
      DEF JupiterAnswers, PacingInv, PacingTypeOK, JupTask, CallsSpaced, OnTime, Going
<1>5. ASSUME NEW c \in JupCalls, SendAgain(c) PROVE PacingInv'
  <2>1. WaitingCalls' = WaitingCalls
      BY <1>5 DEF SendAgain, WaitingCalls, PacingInv, PacingTypeOK, JupTask
  <2>2. (fetches + n + 1) * Spacing <= nextSlotAt + Spacing
      BY <1>0, OneSpacingMore DEF PacingInv, PacingTypeOK
  <2>3. nextSlotAt' = Slot + Spacing /\ fetches' = fetches + 1
      BY <1>5 DEF SendAgain, note
  <2>4. (fetches + Cardinality(WaitingCalls))' * Spacing <= nextSlotAt'
    <3>1. (fetches + Cardinality(WaitingCalls))' = fetches + n + 1
        BY <1>0, <2>1, <2>3 DEF PacingInv, PacingTypeOK
    <3> QED
        BY <1>0, <2>2, <2>3, <3>1, PacingAssumption DEF PacingInv, PacingTypeOK
  <2>5. PacingTypeOK'
    <3>1. jup[c] \in JupTask /\ clock \in Nat /\ Slot + Spacing \in Nat
        BY <1>0, PacingAssumption DEF PacingInv, PacingTypeOK
    <3>2. jup[c].attempt + 1 \in 0..MaxRetries
        BY <1>5, <3>1, PacingAssumption DEF SendAgain, PacingInv, JupTask
    <3>3. [jup[c] EXCEPT !.pc = "out", !.attempt = jup[c].attempt + 1, !.last = clock] \in JupTask
        BY <3>1, <3>2 DEF JupTask
    <3>4. jup' = [jup EXCEPT ![c] = [jup[c] EXCEPT !.pc = "out", !.attempt = jup[c].attempt + 1,
                                                   !.last = clock]]
        BY <1>5 DEF SendAgain
    <3> QED
        BY <1>5, <2>3, <3>1, <3>3, <3>4 DEF SendAgain, PacingInv, PacingTypeOK
  <2>6. CallsSpaced'
      BY <1>5 DEF SendAgain, PacingInv, PacingTypeOK, JupTask, CallsSpaced, Going
  <2>7. OnTime'
      BY <1>5 DEF SendAgain, PacingInv, PacingTypeOK, JupTask, OnTime
  <2>8. /\ \A d \in JupCalls : (Going(d) => jup[d].slot + Spacing <= nextSlotAt)'
        /\ \A d \in JupCalls : (jup[d].pc = "waiting" => clock <= jup[d].slot)'
        /\ \A d \in JupCalls : (jup[d].pc = "backoff" => jup[d].attempt < MaxRetries)'
      BY <1>0, <1>5, <2>3, PacingAssumption DEF SendAgain, PacingInv, PacingTypeOK, JupTask, Going
  <2> QED
      BY <2>1, <2>4, <2>5, <2>6, <2>7, <2>8 DEF PacingInv
<1>6. CASE Tick
  <2>1. WaitingCalls' = WaitingCalls
      BY <1>6 DEF Tick, WaitingCalls
  <2> QED
      BY <1>6, <2>1 DEF Tick, PacingInv, PacingTypeOK, JupTask, CallsSpaced, OnTime, Going
<1>7. CASE UNCHANGED pacingVars
    BY <1>7 DEF pacingVars, PacingInv, PacingTypeOK, CallsSpaced, OnTime, Going, WaitingCalls
<1> QED
    BY <1>1, <1>2, <1>3, <1>4, <1>5, <1>6, <1>7 DEF PacingNext, JupStep

\* PacingInv holds in every reachable state of the limiter.
LEMMA PacingInvHolds == PacingSpec => []PacingInv
BY PacingInvInit, PacingInvStep, PTL DEF PacingSpec

\* Waiting calls only lower the rate the invariant bounds.
LEMMA PacingSafetyFollows == PacingInv => PacingSafety
<1> SUFFICES ASSUME PacingInv PROVE RateHolds
    BY DEF PacingInv, PacingSafety
<1>1. Cardinality(WaitingCalls) \in Nat /\ fetches \in Nat /\ nextSlotAt \in Nat
    BY FS_CardinalityType DEF PacingInv, PacingTypeOK
<1> QED
    BY <1>1, PacingAssumption DEF PacingInv, RateHolds

\* First fetches are a spacing apart and on time, and no more fetches go out than slots have
\* passed, for any number of calls, retries and any spacing (jupiter-rate-limiter.ts).
THEOREM PacingSafetyHolds == PacingSpec => []PacingSafety
BY PacingInvHolds, PacingSafetyFollows, PTL

-----------------------------------------------------------------------------
(* RpcFailover *)

\* The breaker's count is the streak of failures, whichever calls moved it.
RpcInv ==
  /\ RpcTypeOK
  /\ \A e \in Endpoints : breaker[e].failures = streak[e]
  /\ BreakerFollowsStreak

\* Every breaker starts closed with no failure counted.
LEMMA RpcInvInit == RpcInit => RpcInv
BY RpcAssumption
DEF RpcInit, RpcInv, RpcTypeOK, BreakerFollowsStreak, Endpoints, Failures, IdleRpc

\* Counting on stays within the threshold and is never nothing.
LEMMA MoreCounts ==
    \A n \in Failures : More(n) \in Failures /\ More(n) > 0
BY RpcAssumption DEF More, Failures

\* What a call turns to after a failed attempt is a call.
LEMMA NextEndpointIsCall ==
    ASSUME RpcTypeOK, NEW c \in RpcCalls
    PROVE  [rpcCall EXCEPT ![c] = NextEndpoint(c)] \in
             [RpcCalls -> [pc: {"idle", "start", "running"}, at: Endpoints, second: BOOLEAN]]
BY DEF RpcTypeOK, NextEndpoint, IdleRpc, Other, Endpoints

\* Answers keep RpcInv in whatever order they arrive.
LEMMA RpcInvStep == RpcInv /\ [RpcNext]_rpcVars => RpcInv'
<1> SUFFICES ASSUME RpcInv, [RpcNext]_rpcVars PROVE RpcInv'
    OBVIOUS
<1>1. ASSUME NEW c \in RpcCalls, NEW first \in Endpoints, BeginRpc(c, first) PROVE RpcInv'
    BY <1>1 DEF BeginRpc, RpcInv, RpcTypeOK, BreakerFollowsStreak
<1>2. ASSUME NEW c \in RpcCalls, Refuse(c) PROVE RpcInv'
    BY <1>2, NextEndpointIsCall DEF Refuse, RpcInv, RpcTypeOK, BreakerFollowsStreak
<1>3. ASSUME NEW c \in RpcCalls, execute(c) PROVE RpcInv'
  <2> DEFINE at == rpcCall[c].at
  <2>1. /\ at \in Endpoints
        /\ breaker' = [breaker EXCEPT ![at].state = getState(at)]
        /\ getState(at) \in {"CLOSED", "HALF_OPEN"}
        /\ getState(at) = "CLOSED" => breaker[at].state = "CLOSED"
      BY <1>3 DEF execute, getState, RpcInv, RpcTypeOK
  <2>2. rpcCall' \in [RpcCalls -> [pc: {"idle", "start", "running"}, at: Endpoints, second: BOOLEAN]]
      BY <1>3 DEF execute, RpcInv, RpcTypeOK
  <2> QED
      BY <1>3, <2>1, <2>2 DEF execute, RpcInv, RpcTypeOK, BreakerFollowsStreak
<1>4. ASSUME NEW c \in RpcCalls, Answered(c) PROVE RpcInv'
    BY <1>4, RpcAssumption
    DEF Answered, onSuccess, RpcInv, RpcTypeOK, BreakerFollowsStreak, Failures, IdleRpc, Endpoints
<1>5. ASSUME NEW c \in RpcCalls, Failed(c) PROVE RpcInv'
  <2> DEFINE at == rpcCall[c].at
             row == [state |-> IF OpensNow(at) THEN "OPEN" ELSE breaker[at].state,
                     failures |-> More(breaker[at].failures)]
  <2>1. at \in Endpoints /\ breaker[at].failures = streak[at] /\ streak[at] \in Failures
      BY DEF RpcInv, RpcTypeOK
  <2>2. More(streak[at]) \in Failures /\ More(streak[at]) > 0
      BY <2>1, MoreCounts
  <2>3. breaker' = [breaker EXCEPT ![at] = row] /\ streak' = [streak EXCEPT ![at] = More(streak[at])]
      BY <1>5, <2>1 DEF Failed, onFailure, RpcInv, RpcTypeOK
  <2>4. row \in [state: {"CLOSED", "OPEN", "HALF_OPEN"}, failures: Failures]
      BY <2>1, <2>2 DEF RpcInv, RpcTypeOK
  <2>5. row.state = "CLOSED" => More(streak[at]) < FailureThreshold
      BY <2>1, <2>2, RpcAssumption DEF OpensNow, Failures
  <2>6. row.failures = More(streak[at])
      BY <2>1
  <2> HIDE DEF row, at
  <2>7. RpcTypeOK'
      BY <1>5, <2>1, <2>2, <2>3, <2>4, NextEndpointIsCall DEF Failed, onFailure, RpcInv, RpcTypeOK
  <2>8. \A e \in Endpoints : (breaker[e].failures = streak[e])'
      BY <2>1, <2>3, <2>6 DEF RpcInv, RpcTypeOK
  <2>9. BreakerFollowsStreak'
      BY <2>1, <2>2, <2>3, <2>5 DEF RpcInv, RpcTypeOK, BreakerFollowsStreak
  <2> QED
      BY <2>7, <2>8, <2>9 DEF RpcInv
<1>6. ASSUME NEW e \in Endpoints, ResetTimeout(e) \/ GoesDown(e) \/ ComesUp(e) PROVE RpcInv'
    BY <1>6 DEF ResetTimeout, GoesDown, ComesUp, RpcInv, RpcTypeOK, BreakerFollowsStreak
<1>7. CASE UNCHANGED rpcVars
    BY <1>7 DEF rpcVars, RpcInv, RpcTypeOK, BreakerFollowsStreak
<1> QED
    BY <1>1, <1>2, <1>3, <1>4, <1>5, <1>6, <1>7 DEF RpcNext, RpcStep

\* In whatever order concurrent calls end, a breaker is open only after a failure and closed
\* only below the threshold (circuit-breaker.ts).
THEOREM BreakerHolds == RpcSpec => []BreakerFollowsStreak
<1>1. RpcInv => BreakerFollowsStreak
    BY DEF RpcInv
<1> QED
    BY <1>1, RpcInvInit, RpcInvStep, PTL DEF RpcSpec

-----------------------------------------------------------------------------
(* PoolDiscovery *)

DiscTask == [pc: {"idle", "queue", "gecko", "check", "pool", "cursor", "promoted"},
             events: Seq(Pools), to: Nat, batch: SUBSET Pools, at: SUBSET Pools]

\* Every pool up to the block the tick has read to is handled or still to be queued, so that
\* the cursor may be saved when nothing is left to queue.
DiscInv ==
  /\ factoryLog \in Seq(Pools) /\ discCursor \in 0..Len(factoryLog)
  /\ disc \in DiscTask /\ pendingPool \subseteq Pools
  /\ disc.pc = "queue" =>
       /\ disc.to <= Len(factoryLog)
       /\ \A j \in 1..disc.to :
            factoryLog[j] \in handled \/ \E i \in 1..Len(disc.events) : disc.events[i] = factoryLog[j]
  /\ NoPoolOverlooked

\* Before the first tick the cursor has passed no pool.
LEMMA DiscInvInit == DiscInit => DiscInv
<1> SUFFICES ASSUME DiscInit PROVE DiscInv
    OBVIOUS
<1>1. IdleDisc \in DiscTask /\ IdleDisc.pc = "idle"
    BY DEF IdleDisc, DiscTask
<1>2. factoryLog \in Seq(Pools) /\ Len(factoryLog) = 0
    BY DEF DiscInit
<1> QED
    BY <1>1, <1>2 DEF DiscInit, DiscInv, NoPoolOverlooked

\* A step that changes neither the log nor the cursor nor forgets what was handled, and does
\* not end up queueing, keeps the invariant.
LEMMA DiscQuietStep ==
    ASSUME DiscInv, UNCHANGED <<factoryLog, discCursor>>, handled \subseteq handled',
           disc' \in DiscTask, disc'.pc # "queue", pendingPool' \subseteq Pools
    PROVE  DiscInv'
BY DEF DiscInv, NoPoolOverlooked

\* Every step of a discovery tick, and its failure, keeps DiscInv.
LEMMA DiscInvStep == DiscInv /\ [DiscNext]_discVars => DiscInv'
<1> SUFFICES ASSUME DiscInv, [DiscNext]_discVars PROVE DiscInv'
    OBVIOUS
<1>0. IdleDisc \in DiscTask /\ IdleDisc.pc = "idle" /\ disc \in DiscTask
    BY DEF IdleDisc, DiscTask, DiscInv
<1>1. ASSUME NEW to \in 0..Len(factoryLog), ReadFactory(to) PROVE DiscInv'
  <2> DEFINE new == SubSeq(factoryLog, discCursor + 1, to)
  <2>1. factoryLog \in Seq(Pools) /\ discCursor \in Nat /\ to \in Nat /\ discCursor <= to
        /\ to <= Len(factoryLog)
      BY <1>1 DEF DiscInv, ReadFactory
  <2>2. new \in Seq(Pools) /\ Len(new) = to - discCursor
        /\ \A i \in 1..(to - discCursor) : new[i] = factoryLog[discCursor + i]
      BY <2>1
  <2>3. disc' = [IdleDisc EXCEPT !.pc = "queue", !.to = to, !.events = new]
      BY <1>1 DEF ReadFactory
  <2> HIDE DEF new
  <2>4. disc' \in DiscTask /\ disc'.pc = "queue" /\ disc'.to = to /\ disc'.events = new
      BY <1>0, <2>1, <2>2, <2>3 DEF DiscTask, IdleDisc
  <2>5. ASSUME NEW j \in 1..to
        PROVE  factoryLog[j] \in handled \/ \E i \in 1..Len(new) : new[i] = factoryLog[j]
    <3>1. CASE j <= discCursor
        BY <2>1, <3>1 DEF DiscInv, NoPoolOverlooked
    <3>2. CASE j > discCursor
      <4>1. j - discCursor \in 1..(to - discCursor) /\ discCursor + (j - discCursor) = j
          BY <2>1, <3>2
      <4> QED
          BY <2>2, <4>1
    <3> QED
        BY <2>1, <3>1, <3>2
  <2>6. UNCHANGED <<factoryLog, discCursor, handled, pendingPool>>
      BY <1>1 DEF ReadFactory, queueVars
  <2>7. NoPoolOverlooked'
      BY <2>6 DEF DiscInv, NoPoolOverlooked
  <2>8. /\ disc'.to <= Len(factoryLog')
        /\ \A j \in 1..disc'.to : factoryLog'[j] \in handled'
                                 \/ \E i \in 1..Len(disc'.events) : disc'.events[i] = factoryLog'[j]
      BY <2>1, <2>4, <2>5, <2>6
  <2>9. /\ factoryLog' \in Seq(Pools) /\ discCursor' \in 0..Len(factoryLog')
        /\ pendingPool' \subseteq Pools
      BY <2>6 DEF DiscInv
  <2> QED
      BY <2>4, <2>7, <2>8, <2>9 DEF DiscInv
<1>2. CASE QueueEvent
  <2> DEFINE p == Head(disc.events)
  <2>1. /\ disc.events \in Seq(Pools) /\ disc.events # <<>> /\ disc.pc = "queue"
        /\ disc.to \in Nat
      BY <1>0, <1>2 DEF QueueEvent, DiscTask
  <2>2. /\ p = disc.events[1] /\ p \in Pools /\ Tail(disc.events) \in Seq(Pools)
        /\ Len(Tail(disc.events)) = Len(disc.events) - 1 /\ Len(disc.events) \in Nat
        /\ \A i \in 1..(Len(disc.events) - 1) : Tail(disc.events)[i] = disc.events[i + 1]
      BY <2>1
  <2>3. disc' = [disc EXCEPT !.events = Tail(disc.events)] /\ handled' = handled \cup {p}
      BY <1>2 DEF QueueEvent
  <2>4. /\ disc' \in DiscTask /\ disc'.pc = "queue" /\ disc'.to = disc.to
        /\ disc'.events = Tail(disc.events)
      BY <1>0, <2>1, <2>2, <2>3 DEF DiscTask
  <2>5. ASSUME NEW j \in 1..disc.to
        PROVE  factoryLog[j] \in handled' \/ \E i \in 1..Len(disc'.events) : disc'.events[i] = factoryLog[j]
    <3>1. CASE factoryLog[j] \in handled
        BY <2>3, <3>1
    <3>2. ASSUME NEW i \in 1..Len(disc.events), disc.events[i] = factoryLog[j]
          PROVE  factoryLog[j] \in handled' \/ \E k \in 1..Len(disc'.events) : disc'.events[k] = factoryLog[j]
      <4>1. CASE i = 1
          BY <2>2, <2>3, <3>2, <4>1
      <4>2. CASE i # 1
        <5>1. i - 1 \in 1..(Len(disc.events) - 1) /\ (i - 1) + 1 = i
            BY <2>2, <4>2
        <5>2. Tail(disc.events)[i - 1] = factoryLog[j]
            BY <2>2, <3>2, <5>1
        <5> QED
            BY <2>2, <2>4, <5>1, <5>2
      <4> QED
          BY <4>1, <4>2
    <3> QED
        BY <2>1, <3>1, <3>2 DEF DiscInv
  <2>6. pendingPool' \subseteq Pools
      BY <1>2, <2>2 DEF QueueEvent, DiscInv
  <2> QED
      BY <1>2, <2>1, <2>3, <2>4, <2>5, <2>6 DEF DiscInv, QueueEvent, NoPoolOverlooked
<1>3. CASE SaveCursor
  <2>1. disc.events = <<>> /\ disc.pc = "queue" /\ disc.to \in Nat /\ disc.to <= Len(factoryLog)
      BY <1>0, <1>3 DEF SaveCursor, DiscTask, DiscInv
  <2>2. \A j \in 1..disc.to : factoryLog[j] \in handled
      BY <2>1 DEF DiscInv
  <2>3. disc' \in DiscTask /\ disc'.pc = "gecko"
      BY <1>0, <1>3 DEF SaveCursor, DiscTask, IdleDisc
  <2> QED
      BY <1>3, <2>1, <2>2, <2>3 DEF SaveCursor, DiscInv, NoPoolOverlooked, queueVars
<1>4. ASSUME NEW p \in Pools, QueueCandidate(p) PROVE DiscInv'
    BY <1>0, <1>4, DiscQuietStep DEF QueueCandidate, DiscInv
<1>5. ASSUME NEW batch \in SUBSET pendingPool, PickBatch(batch) PROVE DiscInv'
  <2>1. disc' \in DiscTask /\ disc'.pc = "check"
      BY <1>0, <1>5 DEF PickBatch, DiscTask, IdleDisc, DiscInv
  <2> QED
      BY <1>5, <2>1, DiscQuietStep DEF PickBatch, DiscInv, queueVars
<1>6. ASSUME NEW p \in Pools, NextPending(p) PROVE DiscInv'
  <2>1. disc' \in DiscTask /\ disc'.pc # "queue"
      BY <1>0, <1>6 DEF NextPending, DiscTask
  <2> QED
      BY <1>6, <2>1, DiscQuietStep DEF NextPending, Forget, DiscInv, queueVars
<1>7. CASE NotReady \/ UpsertMarket \/ UpsertCursor \/ Promoted \/ CheckThrows
  <2>1. disc' \in DiscTask /\ disc'.pc # "queue"
      BY <1>0, <1>7 DEF NotReady, UpsertMarket, UpsertCursor, Promoted, CheckThrows, DiscTask
  <2>2. UNCHANGED <<factoryLog, discCursor, handled>> /\ pendingPool' \subseteq pendingPool
      BY <1>7 DEF NotReady, UpsertMarket, UpsertCursor, Promoted, CheckThrows, Forget, queueVars
  <2> QED
      BY <2>1, <2>2, DiscQuietStep DEF DiscInv
<1>8. CASE TickEnds \/ DiscDies
    BY <1>0, <1>8, DiscQuietStep DEF TickEnds, DiscDies, DiscInv, queueVars
<1>9. ASSUME NEW p \in Pools, PoolCreated(p) PROVE DiscInv'
  <2>1. factoryLog \in Seq(Pools) /\ factoryLog' = Append(factoryLog, p)
      BY <1>9 DEF PoolCreated, DiscInv
  <2>2. factoryLog' \in Seq(Pools) /\ Len(factoryLog') = Len(factoryLog) + 1
        /\ \A i \in 1..Len(factoryLog) : factoryLog'[i] = factoryLog[i]
        /\ Len(factoryLog) \in Nat
      BY <2>1
  <2>3. UNCHANGED <<disc, discCursor, handled, pendingPool>>
      BY <1>9 DEF PoolCreated, queueVars
  <2>4. disc.to \in Nat /\ discCursor \in 0..Len(factoryLog)
      BY <1>0 DEF DiscTask, DiscInv
  <2>5. NoPoolOverlooked'
    <3>1. \A i \in 1..discCursor : factoryLog[i] \in handled
        BY DEF DiscInv, NoPoolOverlooked
    <3> QED
        BY <2>2, <2>3, <2>4, <3>1 DEF NoPoolOverlooked
  <2>6. ASSUME disc.pc = "queue"
        PROVE  /\ disc.to <= Len(factoryLog')
               /\ \A j \in 1..disc.to : factoryLog'[j] \in handled
                    \/ \E i \in 1..Len(disc.events) : disc.events[i] = factoryLog'[j]
    <3>1. disc.to <= Len(factoryLog)
        BY <2>6 DEF DiscInv
    <3>2. \A j \in 1..disc.to : factoryLog'[j] = factoryLog[j]
        BY <2>2, <2>4, <3>1
    <3>3. \A j \in 1..disc.to : factoryLog[j] \in handled
               \/ \E i \in 1..Len(disc.events) : disc.events[i] = factoryLog[j]
        BY <2>6 DEF DiscInv
    <3>4. disc.to <= Len(factoryLog')
        BY <2>2, <2>4, <3>1
    <3> QED
        BY <3>2, <3>3, <3>4
  <2>7. discCursor' \in 0..Len(factoryLog')
      BY <2>2, <2>3, <2>4
  <2> QED
      BY <1>0, <2>2, <2>3, <2>5, <2>6, <2>7 DEF DiscInv
<1>10. ASSUME NEW p \in Pools, PoolAges(p) \/ RefreshPrice(p) PROVE DiscInv'
    BY <1>10 DEF PoolAges, RefreshPrice, DiscInv, NoPoolOverlooked, queueVars
<1>11. CASE UNCHANGED discVars
    BY <1>11 DEF discVars, DiscInv, NoPoolOverlooked
<1> QED
    BY <1>1, <1>2, <1>3, <1>4, <1>5, <1>6, <1>7, <1>8, <1>9, <1>10, <1>11 DEF DiscNext, DiscStep

\* The least of a set of numbers is one of them.
LEMMA MinIsMember ==
    ASSUME NEW S \in SUBSET Nat, S # {}
    PROVE  Min(S) \in S /\ \A y \in S : Min(S) <= y
<1>1. PICK x \in S : \A y \in S : ~(<<y, x>> \in OpToRel(<, Nat))
    BY NatLessThanWellFounded, WFMin, Zenon
<1>2. \A y \in S : ~(y < x)
    BY <1>1, Zenon DEF OpToRel
<1>3. \A y \in S : x <= y
    BY <1>2
<1> QED
    BY <1>3 DEF Min

\* Taking an element out at a place: what comes after it moves up.
LEMMA RemoveAtIs ==
    ASSUME NEW S, NEW s \in Seq(S), NEW k \in 1..Len(s)
    PROVE  /\ RemoveAt(s, k) \in Seq(S) /\ Len(RemoveAt(s, k)) = Len(s) - 1
           /\ \A i \in 1..(Len(s) - 1) : RemoveAt(s, k)[i] = s[IF i < k THEN i ELSE i + 1]
<1> DEFINE a == SubSeq(s, 1, k - 1)
           b == SubSeq(s, k + 1, Len(s))
<1>1. Len(s) \in Nat /\ k \in Nat /\ 1 <= k /\ k <= Len(s)
    OBVIOUS
<1>2. a \in Seq(S) /\ Len(a) = k - 1 /\ \A i \in 1..(k - 1) : a[i] = s[i]
    BY <1>1
<1>3. b \in Seq(S) /\ Len(b) = Len(s) - k /\ \A i \in 1..(Len(s) - k) : b[i] = s[k + i]
    BY <1>1
<1> HIDE DEF a, b
<1>4. /\ a \o b \in Seq(S) /\ Len(a \o b) = Len(a) + Len(b)
      /\ \A i \in 1..Len(a) + Len(b) : (a \o b)[i] = IF i <= Len(a) THEN a[i] ELSE b[i - Len(a)]
    BY <1>2, <1>3, ConcatProperties
<1>5. ASSUME NEW i \in 1..(Len(s) - 1) PROVE (a \o b)[i] = s[IF i < k THEN i ELSE i + 1]
  <2>1. CASE i < k
      BY <1>1, <1>2, <1>4, <2>1
  <2>2. CASE ~(i < k)
    <3>1. i - Len(a) \in 1..(Len(s) - k) /\ k + (i - Len(a)) = i + 1
          /\ i \in 1..Len(a) + Len(b) /\ ~(i <= Len(a))
        BY <1>1, <1>2, <1>3, <2>2
    <3>2. (a \o b)[i] = b[i - Len(a)]
        BY <1>4, <3>1
    <3>3. b[i - Len(a)] = s[i + 1]
        BY <1>3, <3>1
    <3> QED
        BY <2>2, <3>2, <3>3
  <2> QED
      BY <2>1, <2>2
<1>6. Len(a \o b) = Len(s) - 1
    BY <1>1, <1>2, <1>3, <1>4
<1>7. RemoveAt(s, k) = a \o b
    BY DEF RemoveAt, a, b
<1> QED
    BY <1>4, <1>5, <1>6, <1>7

\* Without its one occurrence of e, a sequence that repeats nothing is one of the others.
LEMMA RemoveFirstIs ==
    ASSUME NEW S, NEW s \in Seq(S), IsInjective(s), NEW e
    PROVE  RemoveFirst(s, e) \in Seq(S \ {e}) /\ IsInjective(RemoveFirst(s, e))
<1>1. CASE ~\E i \in 1..Len(s) : s[i] = e
  <2>1. RemoveFirst(s, e) = s
      BY <1>1 DEF RemoveFirst
  <2>2. s \in Seq(S \ {e})
      BY <1>1
  <2> QED
      BY <2>1, <2>2
<1>2. CASE \E i \in 1..Len(s) : s[i] = e
  <2> DEFINE I == {i \in 1..Len(s) : s[i] = e}
             k == Min(I)
             r == RemoveAt(s, k)
  <2>1. RemoveFirst(s, e) = r
      BY <1>2 DEF RemoveFirst, SelectInSeq
  <2>2. I \in SUBSET Nat /\ I # {}
      BY <1>2
  <2>3. k \in 1..Len(s) /\ s[k] = e
      BY <2>2, MinIsMember
  <2> HIDE DEF I, k
  <2>4. /\ r \in Seq(S) /\ Len(r) = Len(s) - 1
        /\ \A i \in 1..(Len(s) - 1) : r[i] = s[IF i < k THEN i ELSE i + 1]
      BY <2>3, RemoveAtIs
  <2> HIDE DEF r
  <2>5. \A i, j \in 1..Len(s) : s[i] = s[j] => i = j
      BY DEF IsInjective
  <2>6. ASSUME NEW i \in 1..Len(r) PROVE r[i] \in S \ {e}
    <3>1. (IF i < k THEN i ELSE i + 1) \in 1..Len(s) /\ (IF i < k THEN i ELSE i + 1) # k
        BY <2>3, <2>4
    <3> QED
        BY <2>3, <2>4, <2>5, <3>1
  <2>7. r \in Seq(S \ {e})
      BY <2>4, <2>6
  <2>8. ASSUME NEW i \in 1..Len(r), NEW j \in 1..Len(r), r[i] = r[j] PROVE i = j
    <3>1. /\ (IF i < k THEN i ELSE i + 1) \in 1..Len(s) /\ (IF j < k THEN j ELSE j + 1) \in 1..Len(s)
        BY <2>3, <2>4
    <3>2. (IF i < k THEN i ELSE i + 1) = (IF j < k THEN j ELSE j + 1)
        BY <2>4, <2>5, <2>8, <3>1
    <3> QED
        BY <2>3, <2>4, <3>2
  <2> QED
      BY <2>1, <2>4, <2>7, <2>8 DEF IsInjective
<1> QED
    BY <1>1, <1>2

\* What a tick has in hand is pending, its batch and the one pool it is at, and that pool has
\* a market once its cursor is written.
AtHand ==
  /\ disc.at \cap disc.batch = {}
  /\ disc.pc \in {"pool", "cursor", "promoted"} => \E p \in Pools : disc.at = {p}
  /\ disc.pc \notin {"pool", "cursor", "promoted"} => disc.at = {}
  /\ disc.pc \in {"cursor", "promoted"} => disc.at \subseteq marketRow

QueueInv == DiscTypeOK /\ AtHand /\ IsFiniteSet(Cursorless) /\ CursorPerMarket

\* Nothing is queued, checked or made at the start.
LEMMA QueueInvInit == DiscInit => QueueInv
<1> SUFFICES ASSUME DiscInit PROVE QueueInv
    OBVIOUS
<1>1. Cursorless = {} /\ disc = IdleDisc
    BY DEF DiscInit, Cursorless
<1>2. IsFiniteSet(Cursorless) /\ Cardinality(Cursorless) = 0
    BY <1>1, FS_EmptySet
<1> QED
    BY <1>1, <1>2, DiscoveryAssumption
    DEF DiscInit, QueueInv, DiscTypeOK, AtHand, IdleDisc, CursorPerMarket, IsInjective

\* The markets without a cursor are no more than before, unless there was a failure.
LEMMA CursorlessKeeps ==
    ASSUME QueueInv, Cursorless' \subseteq Cursorless, discFailures' = discFailures
    PROVE  IsFiniteSet(Cursorless') /\ CursorPerMarket'
<1>1. IsFiniteSet(Cursorless') /\ Cardinality(Cursorless') <= Cardinality(Cursorless)
    BY FS_Subset DEF QueueInv
<1>2. Cardinality(Cursorless) \in Nat /\ Cardinality(Cursorless') \in Nat /\ discFailures \in Nat
    BY <1>1, FS_CardinalityType DEF QueueInv, DiscTypeOK
<1> QED
    BY <1>1, <1>2 DEF QueueInv, CursorPerMarket

\* A failure leaves at most the market in hand without one.
LEMMA CursorlessFails ==
    ASSUME QueueInv, Cursorless' \subseteq Cursorless \cup disc.at, discFailures' = discFailures + 1
    PROVE  IsFiniteSet(Cursorless') /\ CursorPerMarket'
<1>1. disc.at = {} \/ \E p \in Pools : disc.at = {p}
    BY DEF QueueInv, AtHand
<1>2. /\ IsFiniteSet(Cursorless \cup disc.at)
      /\ Cardinality(Cursorless \cup disc.at) <= Cardinality(Cursorless) + 1
  <2>0. IsFiniteSet(Cursorless) /\ Cardinality(Cursorless) \in Nat
      BY FS_CardinalityType DEF QueueInv
  <2>1. CASE disc.at = {}
      BY <2>0, <2>1
  <2>2. ASSUME NEW p \in Pools, disc.at = {p}
        PROVE  /\ IsFiniteSet(Cursorless \cup disc.at)
               /\ Cardinality(Cursorless \cup disc.at) <= Cardinality(Cursorless) + 1
    <3> DEFINE C == Cursorless
    <3>1. IsFiniteSet(C) /\ Cardinality(C) \in Nat
        BY <2>0
    <3> HIDE DEF C
    <3>2. /\ IsFiniteSet(C \cup {p})
          /\ Cardinality(C \cup {p}) = IF p \in C THEN Cardinality(C) ELSE Cardinality(C) + 1
        BY <3>1, FS_AddElement, Zenon
    <3>3. Cardinality(C \cup {p}) <= Cardinality(C) + 1
        BY <3>1, <3>2
    <3> QED
        BY <2>2, <3>2, <3>3 DEF C
  <2> QED
      BY <1>1, <2>1, <2>2
<1>3. IsFiniteSet(Cursorless') /\ Cardinality(Cursorless') <= Cardinality(Cursorless \cup disc.at)
    BY <1>2, FS_Subset
<1>4. /\ Cardinality(Cursorless) \in Nat /\ Cardinality(Cursorless') \in Nat /\ discFailures \in Nat
      /\ Cardinality(Cursorless \cup disc.at) \in Nat
    BY <1>2, <1>3, FS_CardinalityType DEF QueueInv, DiscTypeOK
<1> QED
    BY <1>2, <1>3, <1>4 DEF QueueInv, CursorPerMarket

\* What is pending may grow and shrink as long as the list of checked pools follows.
LEMMA SeqGrows ==
    ASSUME NEW S, NEW T, S \subseteq T, NEW s \in Seq(S)
    PROVE  s \in Seq(T)
OBVIOUS

\* Forgetting a pool that nobody is at leaves the queue's parts with what is still pending.
LEMMA ForgetKeeps ==
    ASSUME DiscTypeOK, NEW p, Forget(p)
    PROVE  /\ pendingPool' \subseteq Pools
           /\ viaGecko' \subseteq pendingPool' /\ stalePool' \subseteq pendingPool'
           /\ checkedPool' \in Seq(pendingPool') /\ IsInjective(checkedPool')
<1>1. RemoveFirst(checkedPool, p) \in Seq(pendingPool \ {p}) /\ IsInjective(RemoveFirst(checkedPool, p))
    BY RemoveFirstIs DEF DiscTypeOK
<1> QED
    BY <1>1 DEF Forget, DiscTypeOK

\* A step on a pool in hand: pending only shrinks by what is in hand no more.
LEMMA QueueInvStep == DiscInv /\ QueueInv /\ [DiscNext]_discVars => QueueInv'
<1> SUFFICES ASSUME DiscInv, QueueInv, [DiscNext]_discVars PROVE QueueInv'
    OBVIOUS
<1>0. /\ IdleDisc \in DiscTask /\ IdleDisc.pc = "idle" /\ IdleDisc.at = {} /\ IdleDisc.batch = {}
      /\ IdleDisc.events = <<>> /\ IdleDisc.to = 0 /\ disc \in DiscTask
    BY DEF IdleDisc, DiscTask, DiscInv
<1>i. DiscInv' /\ disc' \in DiscTask
    BY DiscInvStep DEF DiscInv
<1>a. /\ disc'.pc \in {"idle", "queue", "gecko", "check", "pool", "cursor", "promoted"}
      /\ disc'.events \in Seq(Pools) /\ disc'.to \in Nat
      /\ factoryLog' \in Seq(Pools) /\ discCursor' \in 0..Len(factoryLog')
      /\ pendingPool' \subseteq Pools
    BY <1>i DEF DiscInv, DiscTask
<1>t. DiscTypeOK /\ AtHand
    BY DEF QueueInv
<1>1. ASSUME NEW to \in 0..Len(factoryLog), ReadFactory(to) PROVE QueueInv'
  <2>1. disc'.pc = "queue" /\ disc'.at = {} /\ disc'.batch = {} /\ disc.pc = "idle"
      BY <1>0, <1>1 DEF ReadFactory, DiscTask
  <2>2. Cursorless' = Cursorless
      BY <1>1, <2>1 DEF Cursorless, ReadFactory, marketVars
  <2> QED
      BY <1>1, <1>a, <1>t, <2>1, <2>2, CursorlessKeeps
      DEF ReadFactory, queueVars, marketVars, QueueInv, DiscTypeOK, AtHand
<1>2. CASE QueueEvent
  <2>1. /\ disc'.pc = "queue" /\ disc.pc = "queue" /\ disc'.at = disc.at /\ disc'.batch = disc.batch
        /\ disc.events \in Seq(Pools) /\ disc.events # <<>>
      BY <1>0, <1>2 DEF QueueEvent, DiscTask
  <2>2. Cursorless' = Cursorless
      BY <1>2, <2>1 DEF Cursorless, QueueEvent, marketVars
  <2>3. Head(disc.events) \in Pools /\ pendingPool \subseteq pendingPool'
      BY <1>2, <2>1 DEF QueueEvent
  <2>4. checkedPool' \in Seq(pendingPool') /\ handled' \subseteq Pools
      BY <1>2, <1>t, <2>3, SeqGrows DEF QueueEvent, DiscTypeOK
  <2> QED
      BY <1>2, <1>a, <1>t, <2>1, <2>2, <2>3, <2>4, CursorlessKeeps
      DEF QueueEvent, marketVars, QueueInv, DiscTypeOK, AtHand
<1>3. CASE SaveCursor
  <2>1. disc'.pc = "gecko" /\ disc'.at = {} /\ disc'.batch = {} /\ disc.pc = "queue"
      BY <1>0, <1>3 DEF SaveCursor, DiscTask
  <2>2. Cursorless' = Cursorless
      BY <1>3, <2>1 DEF Cursorless, SaveCursor, marketVars
  <2> QED
      BY <1>3, <1>a, <1>t, <2>1, <2>2, CursorlessKeeps
      DEF SaveCursor, queueVars, marketVars, QueueInv, DiscTypeOK, AtHand
<1>4. ASSUME NEW p \in Pools, QueueCandidate(p) PROVE QueueInv'
  <2>1. Cursorless' = Cursorless
      BY <1>4 DEF Cursorless, QueueCandidate, marketVars
  <2>2. checkedPool' \in Seq(pendingPool')
      BY <1>4, <1>t, SeqGrows DEF QueueCandidate, DiscTypeOK
  <2> QED
      BY <1>4, <1>a, <1>t, <2>1, <2>2, CursorlessKeeps
      DEF QueueCandidate, marketVars, QueueInv, DiscTypeOK, AtHand
<1>5. ASSUME NEW batch \in SUBSET pendingPool, PickBatch(batch) PROVE QueueInv'
  <2>1. disc'.pc = "check" /\ disc'.at = {} /\ disc'.batch = batch /\ disc.pc = "gecko"
      BY <1>0, <1>5 DEF PickBatch, DiscTask
  <2>2. Cursorless' = Cursorless
      BY <1>5, <2>1 DEF Cursorless, PickBatch, marketVars
  <2> QED
      BY <1>5, <1>a, <1>t, <2>1, <2>2, CursorlessKeeps
      DEF PickBatch, queueVars, marketVars, QueueInv, DiscTypeOK, AtHand
<1>6. ASSUME NEW p \in Pools, NextPending(p) PROVE QueueInv'
  <2> DEFINE drop == Redundant(p) \/ p \in stalePool
  <2>1. /\ disc'.pc = (IF drop THEN "check" ELSE "pool") /\ disc'.at = (IF drop THEN {} ELSE {p})
        /\ disc'.batch = disc.batch \ {p} /\ disc.pc = "check" /\ p \in disc.batch
      BY <1>0, <1>6 DEF NextPending, DiscTask
  <2>2. Cursorless' = Cursorless
      BY <1>6, <2>1 DEF Cursorless, NextPending, marketVars
  <2>3. UNCHANGED <<factoryLog, discCursor, marketRow, marketCursor, pricedToken, handled, discFailures>>
      BY <1>6 DEF NextPending, marketVars
  <2>4. CASE drop
    <3>1. Forget(p)
        BY <1>6, <2>4 DEF NextPending
    <3>2. disc'.batch \subseteq pendingPool'
        BY <1>t, <2>1, <3>1 DEF Forget, DiscTypeOK
    <3> QED
        BY <1>a, <1>t, <2>1, <2>2, <2>3, <2>4, <3>1, <3>2, ForgetKeeps, CursorlessKeeps
        DEF QueueInv, DiscTypeOK, AtHand
  <2>5. CASE ~drop
    <3>1. UNCHANGED queueVars
        BY <1>6, <2>5 DEF NextPending
    <3> QED
        BY <1>a, <1>t, <2>1, <2>2, <2>3, <2>5, <3>1, CursorlessKeeps
        DEF queueVars, QueueInv, DiscTypeOK, AtHand
  <2> QED
      BY <2>4, <2>5
<1>7. CASE NotReady
  <2>1. PICK p \in disc.at :
          /\ disc.pc = "pool"
          /\ checkedPool' = Append(RemoveFirst(checkedPool, p), p)
          /\ disc' = [disc EXCEPT !.pc = "check", !.at = {}]
          /\ UNCHANGED <<factoryLog, discCursor, pendingPool, viaGecko, stalePool, marketVars, handled,
                         discFailures>>
      BY <1>7 DEF NotReady
  <2> DEFINE r == RemoveFirst(checkedPool, p)
  <2>2. r \in Seq(pendingPool \ {p}) /\ IsInjective(r) /\ p \in pendingPool
      BY <1>t, RemoveFirstIs DEF DiscTypeOK
  <2> HIDE DEF r
  <2>3. checkedPool' \in Seq(pendingPool) /\ IsInjective(checkedPool')
    <3>1. checkedPool' = Append(r, p) /\ r \in Seq(pendingPool)
        BY <2>1, <2>2, SeqGrows DEF r
    <3>2. /\ Append(r, p) \in Seq(pendingPool) /\ Len(Append(r, p)) = Len(r) + 1 /\ Len(r) \in Nat
          /\ \A i \in 1..Len(r) : Append(r, p)[i] = r[i] /\ r[i] # p
          /\ Append(r, p)[Len(r) + 1] = p
        BY <2>2, <3>1
    <3>3. ASSUME NEW i \in 1..Len(checkedPool'), NEW j \in 1..Len(checkedPool'),
                 checkedPool'[i] = checkedPool'[j]
          PROVE  i = j
      <4>1. \A k, l \in 1..Len(r) : r[k] = r[l] => k = l
          BY <2>2 DEF IsInjective
      <4> QED
          BY <3>1, <3>2, <3>3, <4>1
    <3> QED
        BY <3>1, <3>2, <3>3 DEF IsInjective
  <2>4. disc'.pc = "check" /\ disc'.at = {} /\ disc'.batch = disc.batch /\ disc.pc = "pool"
      BY <1>0, <2>1 DEF DiscTask
  <2>5. Cursorless' = Cursorless
      BY <2>1, <2>4 DEF Cursorless, marketVars
  <2> QED
      BY <1>a, <1>t, <2>1, <2>3, <2>4, <2>5, CursorlessKeeps
      DEF marketVars, QueueInv, DiscTypeOK, AtHand
<1>8. CASE UpsertMarket
  <2>1. disc'.pc = "cursor" /\ disc'.at = disc.at /\ disc'.batch = disc.batch /\ disc.pc = "pool"
      BY <1>0, <1>8 DEF UpsertMarket, DiscTask
  <2>2. Cursorless' \subseteq Cursorless
      BY <1>8, <2>1 DEF Cursorless, UpsertMarket
  <2>3. marketRow' \subseteq Pools /\ marketRow \subseteq marketRow'
      BY <1>8, <1>t DEF UpsertMarket, DiscTypeOK
  <2> QED
      BY <1>8, <1>a, <1>t, <2>1, <2>2, <2>3, CursorlessKeeps
      DEF UpsertMarket, queueVars, QueueInv, DiscTypeOK, AtHand
<1>9. CASE UpsertCursor
  <2>1. disc'.pc = "promoted" /\ disc'.at = disc.at /\ disc'.batch = disc.batch /\ disc.pc = "cursor"
      BY <1>0, <1>9 DEF UpsertCursor, DiscTask
  <2>2. Cursorless' \subseteq Cursorless
      BY <1>9, <2>1 DEF Cursorless, UpsertCursor
  <2> QED
      BY <1>9, <1>a, <1>t, <2>1, <2>2, CursorlessKeeps
      DEF UpsertCursor, queueVars, QueueInv, DiscTypeOK, AtHand
<1>10. CASE Promoted
  <2>1. PICK p \in disc.at :
          /\ disc.pc = "promoted"
          /\ Forget(p)
          /\ disc' = [disc EXCEPT !.pc = "check", !.at = {}]
          /\ UNCHANGED <<factoryLog, discCursor, marketVars, handled, discFailures>>
      BY <1>10 DEF Promoted
  <2>2. disc'.pc = "check" /\ disc'.at = {} /\ disc'.batch = disc.batch /\ disc.pc = "promoted"
      BY <1>0, <2>1 DEF DiscTask
  <2>3. Cursorless' = Cursorless
      BY <2>1, <2>2 DEF Cursorless, marketVars
  <2>4. disc'.batch \subseteq pendingPool'
      BY <1>t, <2>1, <2>2 DEF Forget, AtHand, DiscTypeOK
  <2> QED
      BY <1>a, <1>t, <2>1, <2>2, <2>3, <2>4, ForgetKeeps, CursorlessKeeps
      DEF marketVars, QueueInv, DiscTypeOK, AtHand
<1>11. CASE TickEnds
  <2>1. disc' = IdleDisc /\ disc.pc = "check"
      BY <1>11 DEF TickEnds
  <2>2. Cursorless' = Cursorless
      BY <1>0, <1>11, <2>1 DEF Cursorless, TickEnds, marketVars
  <2> QED
      BY <1>0, <1>11, <1>a, <1>t, <2>1, <2>2, CursorlessKeeps
      DEF TickEnds, queueVars, marketVars, QueueInv, DiscTypeOK, AtHand
<1>12. CASE CheckThrows \/ DiscDies
  <2>1. disc'.pc \in {"check", "idle"} /\ disc'.at = {} /\ disc'.batch \subseteq disc.batch
      BY <1>0, <1>12 DEF CheckThrows, DiscDies, DiscTask
  <2>2. Cursorless' \subseteq Cursorless \cup disc.at
      BY <1>12, <2>1 DEF Cursorless, CheckThrows, DiscDies, marketVars
  <2>3. discFailures' = discFailures + 1 /\ discFailures' \in 0..MaxDiscFailures
      BY <1>12, <1>t, DiscoveryAssumption DEF CheckThrows, DiscDies, DiscTypeOK
  <2>4. UNCHANGED <<factoryLog, discCursor, queueVars, marketVars, handled>>
      BY <1>12 DEF CheckThrows, DiscDies
  <2> QED
      BY <1>a, <1>t, <2>1, <2>2, <2>3, <2>4, CursorlessFails
      DEF queueVars, marketVars, QueueInv, DiscTypeOK, AtHand
<1>13. ASSUME NEW p \in Pools, PoolCreated(p) PROVE QueueInv'
  <2>1. Cursorless' = Cursorless
      BY <1>13 DEF Cursorless, PoolCreated, marketVars
  <2>2. /\ factoryLog \in Seq(Pools) /\ factoryLog' = Append(factoryLog, p)
        /\ \A i, j \in 1..Len(factoryLog) : factoryLog[i] = factoryLog[j] => i = j
        /\ \A i \in 1..Len(factoryLog) : factoryLog[i] # p
    <3>1. factoryLog \in Seq(Pools) /\ factoryLog' = Append(factoryLog, p) /\ ~Contains(factoryLog, p)
        BY <1>13, <1>t DEF PoolCreated, DiscTypeOK
    <3>2. \A i \in 1..Len(factoryLog) : factoryLog[i] # p
        BY <3>1 DEF Contains
    <3>3. \A i, j \in 1..Len(factoryLog) : factoryLog[i] = factoryLog[j] => i = j
        BY <1>t DEF DiscTypeOK, IsInjective
    <3> QED
        BY <3>1, <3>2, <3>3
  <2>3. /\ Len(factoryLog') = Len(factoryLog) + 1 /\ Len(factoryLog) \in Nat
        /\ \A i \in 1..Len(factoryLog) : factoryLog'[i] = factoryLog[i]
        /\ factoryLog'[Len(factoryLog) + 1] = p
      BY <2>2
  <2>4. ASSUME NEW i \in 1..Len(factoryLog'), NEW j \in 1..Len(factoryLog'),
               factoryLog'[i] = factoryLog'[j]
        PROVE  i = j
      BY <2>2, <2>3, <2>4
  <2>5. IsInjective(factoryLog')
      BY <2>4 DEF IsInjective
  <2> QED
      BY <1>13, <1>a, <1>t, <2>1, <2>5, CursorlessKeeps
      DEF PoolCreated, queueVars, marketVars, QueueInv, DiscTypeOK, AtHand
<1>14. ASSUME NEW p \in Pools, PoolAges(p) \/ RefreshPrice(p) PROVE QueueInv'
  <2>1. Cursorless' = Cursorless
      BY <1>14 DEF Cursorless, PoolAges, RefreshPrice, marketVars
  <2> QED
      BY <1>14, <1>a, <1>t, <2>1, CursorlessKeeps
      DEF PoolAges, RefreshPrice, queueVars, marketVars, QueueInv, DiscTypeOK, AtHand
<1>15. CASE UNCHANGED discVars
  <2>1. Cursorless' = Cursorless
      BY <1>15 DEF Cursorless, discVars
  <2> QED
      BY <1>15, <1>t, <2>1, CursorlessKeeps DEF discVars, QueueInv, DiscTypeOK, AtHand
<1> QED
    BY <1>1, <1>2, <1>3, <1>4, <1>5, <1>6, <1>7, <1>8, <1>9, <1>10, <1>11, <1>12, <1>13, <1>14, <1>15
    DEF DiscNext, DiscStep

\* However checks fail and ticks are cut short, the queue stays well formed, and at most one
\* market per failure is left without the cursor its swaps are read from
\* (create-tracked-market.ts, the market and its cursor are two writes).
THEOREM CursorPerMarketHolds == DiscSpec => [](DiscTypeOK /\ CursorPerMarket)
<1>1. QueueInv => DiscTypeOK /\ CursorPerMarket
    BY DEF QueueInv
<1> QED
    BY <1>1, DiscInvInit, DiscInvStep, QueueInvInit, QueueInvStep, PTL DEF DiscSpec

\* Wherever a tick is cut short, no pool of the factory before the cursor is passed over
\* (pool-discovery.ts, the cursor is saved last).
THEOREM NoPoolOverlookedHolds == DiscSpec => []NoPoolOverlooked
<1>1. DiscInv => NoPoolOverlooked
    BY DEF DiscInv
<1> QED
    BY <1>1, DiscInvInit, DiscInvStep, PTL DEF DiscSpec

-----------------------------------------------------------------------------
(* SwapIngestion *)

\* What the tick holds back is all that the cursor may not pass yet.
NothingLost ==
  /\ ing.pc # "idle" =>
       /\ ing.to <= tip
       /\ \A b \in swapBlocks : b <= ing.to =>
            b \in swapRow \cup givenUp \/ (ing.pc = "insert" /\ b \in ing.rows)
  /\ ing.rows \subseteq (IF ing.pc = "insert" THEN swapBlocks ELSE swapRow)

AlertOf(u, kind, b) == [user |-> u, kind |-> kind, swap |-> b]

\* The audience of the first fan-out are traders and stay traders, so that the second one,
\* which leaves traders out, meets nobody it has alerted of a swap that was stored just now.
AudiencesApart ==
  /\ \A a \in alerts : a.swap \in swapRow
  /\ \A u \in Watchers, b \in Blocks : AlertOf(u, "whale", b) \in alerts => u \in traders
  /\ ing.pc = "create" /\ ing.kind = "whale" => ing.audience \subseteq traders
  /\ ing.pc = "create" /\ ing.kind = "watched" =>
       \A u \in ing.audience, b \in ing.rows \ repeated : AlertOf(u, "whale", b) \notin alerts
  /\ ing.pc = "whale" \/ (ing.pc = "create" /\ ing.kind = "whale") =>
       \A u \in Watchers, b \in ing.rows \ repeated : AlertOf(u, "watched", b) \notin alerts

\* An audience is only read outside the cooldown.
CooldownKept ==
  /\ ing.pc = "create" => alertCooling[ing.kind] = {}
  /\ \A kind \in Kinds : alertCooling[kind] = {} \/ \E b \in Blocks : alertCooling[kind] = {b}

IngestInv ==
  IngestTypeOK /\ NoSwapSkipped /\ NothingLost /\ AudiencesApart /\ NeverBothAlerts /\ CooldownKept

\* Before the first tick the cursor has passed no swap and nobody was alerted.
LEMMA IngestInvInit == IngestInit => IngestInv
BY IngestionAssumption
DEF IngestInit, IngestInv, IngestTypeOK, NoSwapSkipped, NothingLost, AudiencesApart,
    NeverBothAlerts, CooldownKept, IngestTask, IdleTick, AlertOf, Kinds, Buckets

\* The lesser of two numbers.
LEMMA MinOfTwo ==
    ASSUME NEW a \in Int, NEW b \in Int
    PROVE  Min({a, b}) = IF a <= b THEN a ELSE b
<1> DEFINE m == IF a <= b THEN a ELSE b
<1>1. m \in {a, b} /\ \A y \in {a, b} : m <= y
    OBVIOUS
<1>2. ASSUME NEW x \in {a, b}, \A y \in {a, b} : x <= y PROVE x = m
    BY <1>2
<1> QED
    BY <1>1, <1>2 DEF Min

\* A tick resumes at the cursor or past it, and never past the latest block.
LEMMA ResumesPastCursor ==
    ASSUME IngestTypeOK
    PROVE  ResumeFrom \in Nat /\ cursorAt <= ResumeFrom /\ ResumeFrom <= tip
BY IngestionAssumption DEF IngestTypeOK, ResumeFrom

\* The tick's own variables fit their types when a tick starts.
LEMMA ReadEventsKeeps ==
    ASSUME IngestInv, NEW rows \in SUBSET Blocks, ReadEvents(rows)
    PROVE  IngestInv'
<1> DEFINE from == ResumeFrom
           to == Min({tip, from + MaxBlocksPerTick})
           events == swapBlocks \cap ((from + 1)..to)
<1>1. /\ tip \in 0..MaxBlock /\ cursorAt \in 0..tip /\ MaxBlock \in Nat /\ swapBlocks \subseteq 1..tip
      /\ from \in Nat /\ cursorAt <= from /\ from <= tip
    BY ResumesPastCursor, IngestionAssumption DEF IngestInv, IngestTypeOK
<1>2. to \in Nat /\ to <= tip
  <2>1. MaxBlocksPerTick \in Nat /\ from + MaxBlocksPerTick \in Int /\ tip \in Int
      BY <1>1, IngestionAssumption
  <2> HIDE DEF from
  <2>2. to = IF tip <= from + MaxBlocksPerTick THEN tip ELSE from + MaxBlocksPerTick
      BY <2>1, MinOfTwo
  <2> QED
      BY <1>1, <2>1, <2>2
<1>3. /\ rows \subseteq events /\ ing.pc = "idle"
      /\ ing' = [IdleTick EXCEPT !.pc = IF rows = {} THEN "cursor" ELSE "insert",
                                 !.to = to, !.rows = rows]
      /\ givenUp' = givenUp \cup (events \ rows)
                      \cup {b \in swapBlocks \ swapRow : cursorAt < b /\ b <= from}
      /\ UNCHANGED <<tip, swapBlocks, swapRow, cursorAt, candle, traders, alerts, alertCooling,
                     repeated, tickFailures>>
    BY DEF ReadEvents, chainVars
<1> HIDE DEF from, to
<1>4. /\ ing'.pc = (IF rows = {} THEN "cursor" ELSE "insert") /\ ing'.to = to /\ ing'.rows = rows
      /\ ing' \in IngestTask
  <2>1. to \in 0..MaxBlock
      BY <1>1, <1>2
  <2>2. ing' = [pc |-> IF rows = {} THEN "cursor" ELSE "insert", to |-> to, rows |-> rows,
                kind |-> "whale", audience |-> {}]
      BY <1>3 DEF IdleTick
  <2> QED
      BY <2>1, <2>2 DEF IngestTask, Kinds
<1>5. ASSUME NEW b \in swapBlocks, b <= to
      PROVE  b \in swapRow \/ b \in givenUp' \/ (ing'.pc = "insert" /\ b \in rows)
  <2>1. b \in Nat
      BY <1>1
  <2>2. CASE b <= cursorAt
      BY <1>3, <2>2 DEF IngestInv, NoSwapSkipped
  <2>3. CASE cursorAt < b /\ b <= from
      BY <1>3, <2>3
  <2>4. CASE from < b
    <3>1. b \in events
        BY <1>1, <1>2, <1>5, <2>1, <2>4
    <3> QED
        BY <1>3, <1>4, <3>1
  <2> QED
      BY <1>1, <2>1, <2>2, <2>3, <2>4
<1>6. NothingLost'
    BY <1>2, <1>3, <1>4, <1>5 DEF NothingLost
<1>7. IngestTypeOK'
    BY <1>3, <1>4 DEF IngestInv, IngestTypeOK
<1>8. NoSwapSkipped'
    BY <1>3 DEF IngestInv, NoSwapSkipped
<1>9. (AudiencesApart /\ NeverBothAlerts /\ CooldownKept)'
    BY <1>3, <1>4 DEF IngestInv, AudiencesApart, NeverBothAlerts, CooldownKept, AlertOf
<1> QED
    BY <1>6, <1>7, <1>8, <1>9 DEF IngestInv

\* Storing the swaps of the range is what lets the cursor pass them.
LEMMA InsertSwapsKeeps == IngestInv /\ InsertSwaps => IngestInv'
<1> SUFFICES ASSUME IngestInv, InsertSwaps PROVE IngestInv'
    OBVIOUS
<1>1. /\ ing.pc = "insert" /\ ing' = [ing EXCEPT !.pc = "whale"] /\ ing \in IngestTask
      /\ swapRow' = swapRow \cup ing.rows /\ repeated' = repeated \cup (swapRow \cap ing.rows)
      /\ UNCHANGED <<tip, swapBlocks, cursorAt, candle, traders, alerts, alertCooling, givenUp,
                     tickFailures>>
      /\ ing.rows \subseteq swapBlocks
    BY DEF InsertSwaps, IngestInv, IngestTypeOK, NothingLost, chainVars
<1>2. ing' \in IngestTask /\ ing'.pc = "whale" /\ ing'.rows = ing.rows /\ ing'.to = ing.to
    BY <1>1 DEF IngestTask
<1>3. IngestTypeOK'
    BY <1>1, <1>2 DEF IngestInv, IngestTypeOK
<1>4. NoSwapSkipped' /\ NothingLost'
    BY <1>1, <1>2 DEF IngestInv, NoSwapSkipped, NothingLost
<1>5. \A u \in Watchers, b \in ing'.rows \ repeated' : AlertOf(u, "watched", b) \notin alerts
    BY <1>1, <1>2 DEF IngestInv, AudiencesApart, AlertOf
<1>6. AudiencesApart'
    BY <1>1, <1>2, <1>5 DEF IngestInv, AudiencesApart, AlertOf
<1>7. NeverBothAlerts' /\ CooldownKept'
    BY <1>1, <1>2 DEF IngestInv, NeverBothAlerts, CooldownKept
<1> QED
    BY <1>3, <1>4, <1>6, <1>7 DEF IngestInv

\* The audience of one kind of alert leaves out who was told of these swaps the other way.
LEMMA ReadAudienceKeeps ==
    ASSUME IngestInv, NEW kind \in Kinds, ReadAudience(kind)
    PROVE  IngestInv'
<1> DEFINE told == ~(alertCooling[kind] # {} \/ Audience(kind) = {})
<1>1. /\ ing.pc = kind /\ ing \in IngestTask
      /\ ing' = IF told THEN [ing EXCEPT !.pc = "create", !.kind = kind, !.audience = Audience(kind)]
                ELSE [ing EXCEPT !.pc = AfterFanout(kind)]
      /\ UNCHANGED <<tip, swapBlocks, swapRow, cursorAt, candle, traders, alerts, alertCooling,
                     givenUp, repeated, tickFailures>>
    BY DEF ReadAudience, IngestInv, IngestTypeOK, chainVars, ingestHistory
<1>2. Audience(kind) \subseteq Watchers
    BY DEF Audience, IngestInv, IngestTypeOK
<1>3. /\ ing' \in IngestTask /\ ing'.rows = ing.rows /\ ing'.to = ing.to
      /\ told => ing'.pc = "create" /\ ing'.kind = kind /\ ing'.audience = Audience(kind)
      /\ ~told => ing'.pc \in {"watched", "cursor"}
    BY <1>1, <1>2 DEF IngestTask, AfterFanout, Kinds
<1>4. IngestTypeOK'
    BY <1>1, <1>3 DEF IngestInv, IngestTypeOK
<1>5. NoSwapSkipped' /\ NothingLost'
    BY <1>1, <1>3 DEF IngestInv, NoSwapSkipped, NothingLost, Kinds
<1>6. told /\ kind = "whale" => Audience(kind) \subseteq traders
    BY DEF Audience
<1>7. told /\ kind = "watched" =>
        \A u \in Audience(kind), b \in ing.rows : AlertOf(u, "whale", b) \notin alerts
    BY <1>1, <1>2 DEF Audience, IngestInv, AudiencesApart, IngestTask
<1>8. AudiencesApart'
  <2>1. told /\ kind = "whale" =>
          \A u \in Watchers, b \in ing.rows \ repeated : AlertOf(u, "watched", b) \notin alerts
      BY <1>1 DEF IngestInv, AudiencesApart
  <2> QED
      BY <1>1, <1>3, <1>6, <1>7, <2>1 DEF IngestInv, AudiencesApart, AlertOf, Kinds
<1>9. NeverBothAlerts' /\ CooldownKept'
    BY <1>1, <1>3 DEF IngestInv, NeverBothAlerts, CooldownKept
<1> QED
    BY <1>4, <1>5, <1>8, <1>9 DEF IngestInv

\* The alerts that were created go with their cooldown, and to the audience only.
LEMMA bulkCreateKeeps ==
    ASSUME IngestInv, NEW swap \in Blocks, NEW told \in SUBSET Watchers, bulkCreate(swap, told)
    PROVE  IngestInv'
<1> DEFINE new == {AlertOf(u, ing.kind, swap) : u \in told}
<1>1. /\ ing.pc = "create" /\ ing \in IngestTask /\ swap \in ing.rows /\ told \subseteq ing.audience
      /\ alerts' = alerts \cup new
      /\ alertCooling' = IF alerts' = alerts THEN alertCooling
                         ELSE [alertCooling EXCEPT ![ing.kind] = @ \cup {swap}]
      /\ ing' = [ing EXCEPT !.pc = AfterFanout(ing.kind), !.audience = {}, !.kind = "whale"]
      /\ UNCHANGED <<tip, swapBlocks, swapRow, cursorAt, candle, traders, givenUp, repeated,
                     tickFailures>>
      /\ ing.kind \in Kinds
    BY DEF bulkCreate, IngestInv, IngestTypeOK, chainVars, ingestHistory, AlertOf, IngestTask
<1>2. ing' \in IngestTask /\ ing'.rows = ing.rows /\ ing'.to = ing.to
      /\ ing'.pc \in {"watched", "cursor"}
    BY <1>1 DEF IngestTask, AfterFanout, Kinds
<1>3. swap \in swapRow
    BY <1>1 DEF IngestInv, NothingLost
<1>4. \A a \in new : a \in Alert /\ a.swap = swap /\ a.kind = ing.kind /\ a.user \in told
    BY <1>1 DEF AlertOf, Alert
<1>5. alertCooling' \in [Kinds -> SUBSET swapRow]
    BY <1>1, <1>3 DEF IngestInv, IngestTypeOK
<1>6. IngestTypeOK'
    BY <1>1, <1>2, <1>4, <1>5 DEF IngestInv, IngestTypeOK
<1>7. NoSwapSkipped' /\ NothingLost'
    BY <1>1, <1>2 DEF IngestInv, NoSwapSkipped, NothingLost
<1> HIDE DEF new
<1>8. \A u, kind, b : AlertOf(u, kind, b) \in new => u \in told /\ kind = ing.kind /\ b = swap
    BY <1>4 DEF AlertOf
<1>9. AudiencesApart'
  <2>1. \A a \in alerts' : a.swap \in swapRow'
      BY <1>1, <1>3, <1>4 DEF IngestInv, AudiencesApart
  <2>2. \A u \in Watchers, b \in Blocks : AlertOf(u, "whale", b) \in alerts' => u \in traders'
      BY <1>1, <1>8 DEF IngestInv, AudiencesApart
  <2> QED
      BY <1>2, <2>1, <2>2 DEF AudiencesApart, AlertOf
<1>10. NeverBothAlerts'
  <2> SUFFICES ASSUME NEW u \in Watchers, NEW b \in Blocks, b \notin repeated,
                      AlertOf(u, "whale", b) \in alerts', AlertOf(u, "watched", b) \in alerts'
               PROVE  FALSE
      BY <1>1 DEF NeverBothAlerts, AlertOf, Kinds
  <2>1. ~(AlertOf(u, "whale", b) \in alerts /\ AlertOf(u, "watched", b) \in alerts)
      BY DEF IngestInv, NeverBothAlerts, AlertOf, Kinds
  <2>2. CASE ing.kind = "whale"
      BY <1>1, <1>8, <2>1, <2>2 DEF IngestInv, AudiencesApart
  <2>3. CASE ing.kind = "watched"
      BY <1>1, <1>8, <2>1, <2>3 DEF IngestInv, AudiencesApart
  <2> QED
      BY <1>1, <2>2, <2>3 DEF Kinds
<1>11. CooldownKept'
    BY <1>1, <1>2 DEF IngestInv, IngestTypeOK, CooldownKept
<1> QED
    BY <1>6, <1>7, <1>9, <1>10, <1>11 DEF IngestInv

\* Every step of an ingestion tick, and its failure, keeps IngestInv.
LEMMA IngestInvStep == IngestInv /\ [IngestNext]_ingestVars => IngestInv'
<1> SUFFICES ASSUME IngestInv, [IngestNext]_ingestVars PROVE IngestInv'
    OBVIOUS
<1> USE DEF chainVars, ingestHistory
<1>0. ing \in IngestTask /\ IdleTick \in IngestTask /\ IdleTick.pc = "idle" /\ IdleTick.rows = {}
    BY IngestionAssumption DEF IngestInv, IngestTypeOK, IngestTask, IdleTick, Kinds
<1>1. CASE FanoutFails
  <2>1. ing' \in IngestTask /\ ing'.rows = ing.rows /\ ing'.to = ing.to /\ ing'.pc = "cursor"
      BY <1>0, <1>1 DEF FanoutFails, IngestTask, Kinds
  <2>2. ing.pc # "idle" /\ ing.pc # "insert"
      BY <1>1 DEF FanoutFails, Kinds
  <2> QED
      BY <1>1, <2>1, <2>2
      DEF FanoutFails, IngestInv, IngestTypeOK, NoSwapSkipped, NothingLost, AudiencesApart,
          NeverBothAlerts, CooldownKept, AlertOf
<1>2. CASE AdvanceCursor
  <2>1. ing' \in IngestTask /\ ing'.rows = ing.rows
        /\ (ing' = IdleTick \/ (ing'.to = ing.to /\ ing'.pc = "candles"))
    <3>1. CASE ing.rows = {}
        BY <1>0, <1>2, <3>1 DEF AdvanceCursor
    <3>2. CASE ing.rows # {}
        BY <1>0, <1>2, <3>2 DEF AdvanceCursor, IngestTask
    <3> QED
        BY <3>1, <3>2
  <2>2. ing.pc = "cursor" /\ cursorAt' = ing.to /\ ing.to \in 0..tip
      BY <1>0, <1>2 DEF AdvanceCursor, IngestInv, IngestTypeOK, NothingLost, IngestTask
  <2>3. IngestTypeOK'
      BY <1>2, <2>1, <2>2 DEF AdvanceCursor, IngestInv, IngestTypeOK
  <2>4. NoSwapSkipped' /\ NothingLost'
      BY <1>0, <1>2, <2>1, <2>2 DEF AdvanceCursor, IngestInv, NoSwapSkipped, NothingLost
  <2>5. AudiencesApart' /\ NeverBothAlerts' /\ CooldownKept'
      BY <1>0, <1>2, <2>1
      DEF AdvanceCursor, IngestInv, AudiencesApart, NeverBothAlerts, CooldownKept, AlertOf
  <2> QED
      BY <2>3, <2>4, <2>5 DEF IngestInv
<1>3. CASE upsertCandlesFromSwaps
  <2>1. candle' \in [Buckets -> SUBSET swapRow]
      BY <1>3 DEF upsertCandlesFromSwaps, InRange, IngestInv, IngestTypeOK
  <2> QED
      BY <1>0, <1>3, <2>1
      DEF upsertCandlesFromSwaps, IngestInv, IngestTypeOK, NoSwapSkipped, NothingLost,
          AudiencesApart, NeverBothAlerts, CooldownKept, AlertOf
<1>4. CASE TickFails
    BY <1>0, <1>4, IngestionAssumption
    DEF TickFails, IngestInv, IngestTypeOK, NoSwapSkipped, NothingLost,
        AudiencesApart, NeverBothAlerts, CooldownKept, AlertOf
<1>5. ASSUME NEW swap \in BOOLEAN, NewBlock(swap) PROVE IngestInv'
  <2>1. /\ tip \in Nat /\ MaxBlock \in Nat /\ tip < MaxBlock /\ tip' = tip + 1 /\ swapBlocks \subseteq swapBlocks'
        /\ swapBlocks' \subseteq swapBlocks \cup {tip + 1} /\ swapBlocks \subseteq 1..tip
        /\ cursorAt \in 0..tip
        /\ UNCHANGED <<swapRow, cursorAt, candle, traders, alerts, alertCooling, ing, givenUp,
                       repeated, tickFailures>>
      BY <1>5, IngestionAssumption DEF NewBlock, IngestInv, IngestTypeOK
  <2>2. IngestTypeOK'
      BY <2>1 DEF IngestInv, IngestTypeOK
  <2>3. NoSwapSkipped'
      BY <2>1 DEF IngestInv, NoSwapSkipped
  <2>4. NothingLost'
    <3>1. ing.to \in Nat
        BY <1>0 DEF IngestTask
    <3>2. ASSUME ing.pc # "idle"
          PROVE  /\ ing.to <= tip + 1
                 /\ \A b \in swapBlocks' : b <= ing.to => b \in swapBlocks
        BY <2>1, <3>1, <3>2 DEF IngestInv, NothingLost
    <3> QED
        BY <2>1, <3>2 DEF IngestInv, NothingLost
  <2> QED
      BY <2>1, <2>2, <2>3, <2>4
      DEF IngestInv, AudiencesApart, NeverBothAlerts, CooldownKept, AlertOf
<1>6. ASSUME NEW u \in Watchers, TradeConfirmed(u) PROVE IngestInv'
    BY <1>6
    DEF TradeConfirmed, IngestInv, IngestTypeOK, NoSwapSkipped, NothingLost, AudiencesApart,
        NeverBothAlerts, CooldownKept, AlertOf
<1>7. ASSUME NEW kind \in Kinds, CooldownOver(kind) PROVE IngestInv'
    BY <1>0, <1>7
    DEF CooldownOver, IngestInv, IngestTypeOK, NoSwapSkipped, NothingLost, AudiencesApart,
        NeverBothAlerts, CooldownKept, AlertOf, IngestTask
<1>8. CASE UNCHANGED ingestVars
    BY <1>8
    DEF ingestVars, IngestInv, IngestTypeOK, NoSwapSkipped, NothingLost, AudiencesApart,
        NeverBothAlerts, CooldownKept, AlertOf
<1> QED
    BY <1>1, <1>2, <1>3, <1>4, <1>5, <1>6, <1>7, <1>8, ReadEventsKeeps, InsertSwapsKeeps,
       ReadAudienceKeeps, bulkCreateKeeps DEF IngestNext, Fanout

\* IngestInv holds in every reachable state of the ingestion.
LEMMA IngestInvHolds == IngestSpec => []IngestInv
BY IngestInvInit, IngestInvStep, PTL DEF IngestSpec

\* Whatever fails, the cursor passes no swap that is neither stored nor given up, and every
\* counter and row stays in its set (ingestion.ts, the cursor moves last).
THEOREM NoSwapSkippedHolds == IngestSpec => [](IngestTypeOK /\ NoSwapSkipped)
<1>1. IngestInv => IngestTypeOK /\ NoSwapSkipped
    BY DEF IngestInv
<1> QED
    BY <1>1, IngestInvHolds, PTL

\* A cooldown that covers no swap or one, and audiences apart, are what users notice.
LEMMA AlertSafetyFollows == IngestInv => AlertSafety
<1> SUFFICES ASSUME IngestInv, NEW kind \in Kinds PROVE Cardinality(alertCooling[kind]) <= 1
    BY DEF IngestInv, AlertSafety, OneAlertPerCooldown
<1>1. CASE alertCooling[kind] = {}
    BY <1>1, FS_EmptySet
<1>2. ASSUME NEW b \in Blocks, alertCooling[kind] = {b} PROVE Cardinality(alertCooling[kind]) <= 1
  <2>1. Cardinality({b}) = 1
      BY FS_Singleton
  <2> QED
      BY <1>2, <2>1
<1> QED
    BY <1>1, <1>2 DEF IngestInv, CooldownKept

\* In a cooldown users hear of one swap, and of a swap in both kinds only when a failed tick
\* was repeated (notification-fanout.service.ts).
THEOREM AlertSafetyHolds == IngestSpec => []AlertSafety
BY IngestInvHolds, AlertSafetyFollows, PTL

\* A block that is not in an earlier bucket is less than one bucket earlier.
LEMMA BucketReach ==
    ASSUME NEW m \in Nat, NEW b \in Nat, Bucket(m) <= Bucket(b)
    PROVE  m - BucketBlocks <= b
<1> DEFINE q == m \div BucketBlocks
           k == b \div BucketBlocks
<1>1. /\ BucketBlocks \in Nat /\ BucketBlocks > 0 /\ q \in Nat /\ k \in Nat
      /\ m < BucketBlocks * q + BucketBlocks /\ BucketBlocks * k <= b /\ q <= k
    BY IngestionAssumption DEF Bucket
<1> HIDE DEF q, k
<1>2. BucketBlocks * q <= BucketBlocks * k
    BY <1>1
<1> QED
    BY <1>1, <1>2

\* A later block is not in an earlier bucket.
LEMMA BucketMonotone ==
    ASSUME NEW a \in Nat, NEW b \in Nat, a <= b
    PROVE  Bucket(a) <= Bucket(b) /\ Bucket(a) \in Nat /\ Bucket(b) \in Nat
<1> DEFINE q == a \div BucketBlocks
           k == b \div BucketBlocks
<1>1. /\ BucketBlocks \in Nat /\ BucketBlocks > 0 /\ q \in Nat /\ k \in Nat
      /\ BucketBlocks * q <= a /\ b < BucketBlocks * k + BucketBlocks
    BY IngestionAssumption DEF Bucket
<1>2. Bucket(a) = q /\ Bucket(b) = k
    BY DEF Bucket
<1> HIDE DEF q, k
<1>3. ASSUME k < q PROVE FALSE
  <2>1. k + 1 <= q
      BY <1>1, <1>3
  <2>2. BucketBlocks * (k + 1) <= BucketBlocks * q
      BY <1>1, <2>1
  <2>3. BucketBlocks * (k + 1) = BucketBlocks * k + BucketBlocks
      BY <1>1
  <2> QED
      BY <1>1, <2>2, <2>3
<1> QED
    BY <1>1, <1>2, <1>3

\* The greatest of a bounded set of numbers is one of them.
LEMMA MaxIsMember ==
    ASSUME NEW n \in Nat, NEW S \in SUBSET (0..n), S # {}
    PROVE  Max(S) \in S /\ \A y \in S : y <= Max(S)
<1> DEFINE U == {u \in Nat : \A y \in S : y <= u}
           m == Min(U)
<1>1. U \in SUBSET Nat /\ n \in U
    OBVIOUS
<1>2. m \in U /\ \A u \in U : m <= u
    BY <1>1, MinIsMember
<1>3. m \in Nat /\ \A y \in S : y \in Nat /\ y <= m
    BY <1>2
<1> HIDE DEF m
<1>4. m \in S
  <2> SUFFICES ASSUME m \notin S PROVE FALSE
      OBVIOUS
  <2>1. \A y \in S : y < m
      BY <1>3
  <2>2. m - 1 \in Nat /\ \A y \in S : y <= m - 1
    <3>1. PICK x \in S : x \in Nat /\ x < m
        BY <1>3, <2>1
    <3> QED
        BY <1>3, <2>1, <3>1
  <2>3. m - 1 \in U
      BY <2>2
  <2> QED
      BY <1>2, <1>3, <2>3
<1>5. \E x \in S : \A y \in S : x >= y
    BY <1>3, <1>4
<1>6. Max(S) \in S /\ \A y \in S : Max(S) >= y
    BY <1>5 DEF Max
<1> QED
    BY <1>3, <1>6

\* Candles hold stored swaps of their bucket that the cursor has passed, and a tick works on
\* later ones: those after the cursor, and after moving it those it has moved past.
CandleOrder ==
  /\ ing.pc = "candles" => ing.rows # {} /\ \A r \in ing.rows : r <= cursorAt
  /\ ing.pc \notin {"idle", "candles"} =>
       cursorAt <= ing.to /\ \A r \in ing.rows : cursorAt < r /\ r <= ing.to
  /\ \A k \in Buckets : \A b \in candle[k] :
       Bucket(b) = k /\ b <= cursorAt /\ (ing.pc = "candles" => \A r \in ing.rows : b < r)

\* What a tick reads lies after the cursor and up to where it will move.
LEMMA ReadIsAhead ==
    ASSUME IngestInv, NEW rows \in SUBSET Blocks, ReadEvents(rows)
    PROVE  /\ ing'.pc \notin {"idle", "candles"} /\ ing'.rows = rows
           /\ cursorAt <= ing'.to /\ \A r \in rows : cursorAt < r /\ r <= ing'.to
<1> DEFINE from == ResumeFrom
           to == Min({tip, from + MaxBlocksPerTick})
<1>1. tip \in Nat /\ cursorAt \in Nat /\ from \in Nat /\ cursorAt <= from /\ from <= tip
    BY ResumesPastCursor, IngestionAssumption DEF IngestInv, IngestTypeOK
<1>2. /\ rows \subseteq swapBlocks \cap ((from + 1)..to)
      /\ ing' = [IdleTick EXCEPT !.pc = IF rows = {} THEN "cursor" ELSE "insert",
                                 !.to = to, !.rows = rows]
    BY DEF ReadEvents
<1> HIDE DEF from
<1>3. MaxBlocksPerTick \in Nat /\ from + MaxBlocksPerTick \in Int /\ tip \in Int
    BY <1>1, IngestionAssumption
<1>4. to = IF tip <= from + MaxBlocksPerTick THEN tip ELSE from + MaxBlocksPerTick
    BY <1>3, MinOfTwo
<1> HIDE DEF to
<1>5. to \in Nat /\ from <= to
    BY <1>1, <1>3, <1>4
<1>6. /\ ing'.pc = (IF rows = {} THEN "cursor" ELSE "insert") /\ ing'.to = to /\ ing'.rows = rows
    BY <1>2 DEF IdleTick
<1>7. \A r \in rows : r \in Int /\ from + 1 <= r /\ r <= to
    BY <1>1, <1>2, <1>5
<1> QED
    BY <1>1, <1>5, <1>6, <1>7

\* Only a rebuild changes candles.
LEMMA RebuildOnly ==
    ASSUME [IngestNext]_ingestVars, candle' # candle
    PROVE  upsertCandlesFromSwaps
BY DEF IngestNext, Fanout, ReadEvents, InsertSwaps, ReadAudience, bulkCreate, FanoutFails,
       AdvanceCursor, TickFails, NewBlock, TradeConfirmed, CooldownOver, ingestVars

\* The order is kept by every step.
LEMMA CandleOrderStep == IngestInv /\ CandleOrder /\ [IngestNext]_ingestVars => CandleOrder'
<1> SUFFICES ASSUME IngestInv, CandleOrder, [IngestNext]_ingestVars PROVE CandleOrder'
    OBVIOUS
<1>0. /\ ing \in IngestTask /\ IdleTick.pc = "idle" /\ IdleTick.rows = {}
      /\ cursorAt \in Nat /\ ing.to \in Nat /\ MaxBlock \in Nat
      /\ \A b \in Blocks : b \in Nat
      /\ swapRow \subseteq Blocks /\ candle \in [Buckets -> SUBSET swapRow]
    BY IngestionAssumption DEF IngestInv, IngestTypeOK, IngestTask, IdleTick, Blocks
<1>1. ASSUME NEW rows \in SUBSET Blocks, ReadEvents(rows) PROVE CandleOrder'
  <2>1. UNCHANGED <<cursorAt, candle>>
      BY <1>1 DEF ReadEvents
  <2> QED
      BY <1>1, <2>1, ReadIsAhead DEF CandleOrder
<1>2. ASSUME ing.pc \notin {"idle", "candles"}, ing'.pc \notin {"idle", "candles"},
             ing'.rows = ing.rows, ing'.to = ing.to, UNCHANGED <<cursorAt, candle>>
      PROVE  CandleOrder'
    BY <1>2 DEF CandleOrder
<1>3. ASSUME InsertSwaps \/ FanoutFails \/ Fanout PROVE CandleOrder'
  <2>1. /\ ing.pc \notin {"idle", "candles"} /\ ing'.pc \notin {"idle", "candles"}
        /\ ing'.rows = ing.rows /\ ing'.to = ing.to
      BY <1>0, <1>3 DEF InsertSwaps, FanoutFails, Fanout, ReadAudience, bulkCreate, AfterFanout,
                        Kinds, IngestTask
  <2>2. UNCHANGED <<cursorAt, candle>>
      BY <1>3 DEF InsertSwaps, FanoutFails, Fanout, ReadAudience, bulkCreate
  <2> QED
      BY <1>2, <2>1, <2>2
<1>4. CASE AdvanceCursor
  <2>1. ing.pc = "cursor" /\ cursorAt' = ing.to /\ UNCHANGED candle
      BY <1>4 DEF AdvanceCursor
  <2>2. cursorAt <= ing.to /\ \A r \in ing.rows : cursorAt < r /\ r <= ing.to /\ r \in Nat
      BY <1>0, <2>1 DEF CandleOrder, IngestTask
  <2>3. ASSUME NEW k \in Buckets, NEW b \in candle[k]
        PROVE  Bucket(b) = k /\ b <= ing.to /\ \A r \in ing.rows : b < r
    <3>1. b \in Nat /\ b <= cursorAt /\ Bucket(b) = k
        BY <1>0 DEF CandleOrder
    <3> QED
        BY <1>0, <2>2, <3>1
  <2>4. CASE ing.rows = {}
    <3>1. ing' = IdleTick
        BY <1>4, <2>4 DEF AdvanceCursor
    <3> QED
        BY <1>0, <2>1, <2>3, <3>1 DEF CandleOrder
  <2>5. CASE ing.rows # {}
    <3>1. ing'.pc = "candles" /\ ing'.rows = ing.rows
        BY <1>0, <1>4, <2>5 DEF AdvanceCursor, IngestTask
    <3> QED
        BY <2>1, <2>2, <2>3, <2>5, <3>1 DEF CandleOrder
  <2> QED
      BY <2>4, <2>5
<1>5. CASE upsertCandlesFromSwaps
  <2>1. ing.pc = "candles" /\ ing' = IdleTick /\ UNCHANGED cursorAt
      BY <1>5 DEF upsertCandlesFromSwaps
  <2>2. ing.rows # {} /\ ing.rows \in SUBSET (0..cursorAt)
      BY <1>0, <2>1 DEF CandleOrder, IngestTask
  <2>3. Max(ing.rows) \in ing.rows /\ Max(ing.rows) \in Nat /\ Max(ing.rows) <= cursorAt
      BY <1>0, <2>2, MaxIsMember
  <2>4. ASSUME NEW k \in Buckets, NEW b \in candle'[k] PROVE Bucket(b) = k /\ b <= cursorAt
    <3>1. CASE b \in candle[k]
        BY <3>1 DEF CandleOrder
    <3>2. CASE b \in InRange(ing.rows) /\ Bucket(b) = k
      <4>1. b \in Nat /\ b <= Max(ing.rows)
          BY <1>0, <3>2 DEF InRange
      <4> QED
          BY <1>0, <2>3, <3>2, <4>1
    <3> QED
        BY <1>5, <2>4, <3>1, <3>2 DEF upsertCandlesFromSwaps
  <2> QED
      BY <1>0, <2>1, <2>4 DEF CandleOrder
<1>6. CASE TickFails
    BY <1>0, <1>6 DEF TickFails, CandleOrder
<1>7. CASE UNCHANGED <<ing, candle, cursorAt>>
    BY <1>7 DEF CandleOrder
<1> QED
    BY <1>1, <1>3, <1>4, <1>5, <1>6, <1>7
    DEF IngestNext, NewBlock, TradeConfirmed, CooldownOver, ingestVars

\* It holds in every reachable state of the ingestion.
LEMMA CandleOrderHolds == IngestSpec => []CandleOrder
<1>1. IngestInit => CandleOrder
    BY DEF IngestInit, IdleTick, CandleOrder
<1> QED
    BY <1>1, IngestInvHolds, CandleOrderStep, PTL DEF IngestSpec

\* The rows of a rebuild are numbers, the first of them one of them.
LEMMA RebuildRows ==
    ASSUME IngestInv, CandleOrder, upsertCandlesFromSwaps
    PROVE  /\ Min(ing.rows) \in ing.rows /\ Min(ing.rows) \in Nat
           /\ \A b \in swapRow : b \in Nat
<1>1. ing.rows # {} /\ ing.rows \in SUBSET Nat /\ \A b \in swapRow : b \in Nat
    BY IngestionAssumption
    DEF upsertCandlesFromSwaps, CandleOrder, IngestInv, IngestTypeOK, IngestTask, Blocks
<1> QED
    BY <1>1, MinIsMember

\* A rebuild makes every candle from the first new swap's bucket on complete, whatever
\* earlier ticks left (ingestion.ts, upsertCandlesFromSwaps pads the range by one bucket).
THEOREM FreshCandleCompleteHolds == IngestSpec => FreshCandleComplete
<1> DEFINE Step == candle' # candle =>
       \A k \in Buckets : Bucket(Min(ing.rows)) <= k =>
         {b \in swapRow : Bucket(b) = k /\ b <= Max(ing.rows)} \subseteq candle'[k]
<1>1. IngestInv /\ CandleOrder /\ [IngestNext]_ingestVars => Step
  <2> SUFFICES ASSUME IngestInv, CandleOrder, [IngestNext]_ingestVars, candle' # candle,
                      NEW k \in Buckets, Bucket(Min(ing.rows)) <= k,
                      NEW b \in swapRow, Bucket(b) = k, b <= Max(ing.rows)
               PROVE  b \in candle'[k]
      OBVIOUS
  <2>1. upsertCandlesFromSwaps
      BY RebuildOnly
  <2>2. Min(ing.rows) \in Nat /\ b \in Nat
      BY <2>1, RebuildRows
  <2>3. Min(ing.rows) - BucketBlocks <= b
      BY <2>2, BucketReach
  <2>4. b \in InRange(ing.rows)
      BY <2>3 DEF InRange
  <2> QED
      BY <2>1, <2>4 DEF upsertCandlesFromSwaps
<1> QED
    BY <1>1, IngestInvHolds, CandleOrderHolds, PTL DEF IngestSpec, FreshCandleComplete

\* A rebuild takes swaps out of no candle but the one in whose middle its range begins,
\* however many ticks failed before (ingestion.ts, upsertCandlesFromSwaps).
THEOREM CandleLossConfinedHolds == IngestSpec => CandleLossConfined
<1> DEFINE Step == \A k \in Buckets : ~(candle[k] \subseteq candle'[k])
                      => k = Bucket(Min(ing.rows) - BucketBlocks)
<1>1. IngestInv /\ CandleOrder /\ [IngestNext]_ingestVars => Step
  <2> SUFFICES ASSUME IngestInv, CandleOrder, [IngestNext]_ingestVars,
                      NEW k \in Buckets, NEW b \in candle[k], b \notin candle'[k]
               PROVE  k = Bucket(Min(ing.rows) - BucketBlocks)
      OBVIOUS
  <2> DEFINE grouped == {c \in InRange(ing.rows) : Bucket(c) = k}
             start == Min(ing.rows) - BucketBlocks
  <2>1. upsertCandlesFromSwaps
      BY RebuildOnly
  <2>2. candle'[k] = (IF grouped = {} THEN candle[k] ELSE grouped) /\ ing.pc = "candles"
      BY <2>1 DEF upsertCandlesFromSwaps
  <2>3. Min(ing.rows) \in ing.rows /\ Min(ing.rows) \in Nat /\ \A c \in swapRow : c \in Nat
      BY <2>1, RebuildRows
  <2>4. b \in swapRow /\ b \in Nat /\ Bucket(b) = k /\ \A r \in ing.rows : b < r
      BY <2>2, <2>3 DEF CandleOrder, IngestInv, IngestTypeOK
  <2>5. PICK c \in grouped : b \notin InRange(ing.rows)
      BY <2>2, <2>4
  <2>6. ing.rows \in SUBSET (0..cursorAt) /\ cursorAt \in Nat /\ ing.rows # {}
      BY <2>2, IngestionAssumption DEF CandleOrder, IngestInv, IngestTypeOK, IngestTask, Blocks
  <2>7. b < Max(ing.rows) /\ Max(ing.rows) \in Nat
    <3>1. Max(ing.rows) \in ing.rows
        BY <2>6, MaxIsMember
    <3> QED
        BY <2>4, <2>6, <3>1
  <2>8. start \in Int /\ start <= c /\ c \in Nat /\ Bucket(c) = k
      BY <2>3, IngestionAssumption DEF InRange
  <2>9. b < start
      BY <2>3, <2>4, <2>5, <2>7, IngestionAssumption DEF InRange
  <2> HIDE DEF start
  <2>10. start \in Nat /\ b <= start
      BY <2>4, <2>8, <2>9
  <2>11. Bucket(b) <= Bucket(start) /\ Bucket(start) <= Bucket(c) /\ Bucket(start) \in Nat
      BY <2>4, <2>8, <2>10, BucketMonotone
  <2>12. k \in Nat
      BY <2>4, <2>10, BucketMonotone
  <2> QED
      BY <2>4, <2>8, <2>11, <2>12 DEF start
<1> QED
    BY <1>1, IngestInvHolds, CandleOrderHolds, PTL DEF IngestSpec, CandleLossConfined

\* Both together: what a rebuild does to the candles, for every bucket length and range.
THEOREM CandleMovesHolds == IngestSpec => CandleMoves
BY FreshCandleCompleteHolds, CandleLossConfinedHolds, PTL DEF CandleMoves

-----------------------------------------------------------------------------
(* The composition: every step of the services is a step of a component or leaves its *)
(* variables alone, so that what a component keeps the services keep.                 *)

\* A step of the services is, for each component, one of its own or a stutter.
LEMMA ServicesStepIsComponents ==
    ASSUME [ServicesNext]_servicesVars
    PROVE  /\ [IngestNext]_ingestVars /\ [DiscNext]_discVars
           /\ [RpcNext]_rpcVars /\ [PacingNext]_pacingVars
BY DEF ServicesNext, servicesVars

\* Breakers open and close on evidence and Jupiter's limit is kept, whatever service acts.
THEOREM UpstreamSafetyHolds == ServicesSpec => []UpstreamSafety
<1>1. ServicesInit => RpcInv /\ PacingInv
    BY RpcInvInit, PacingInvInit DEF ServicesInit
<1>2. RpcInv /\ PacingInv /\ [ServicesNext]_servicesVars => RpcInv' /\ PacingInv'
    BY ServicesStepIsComponents, RpcInvStep, PacingInvStep
<1>3. RpcInv /\ PacingInv => UpstreamSafety
    BY PacingSafetyFollows DEF RpcInv, UpstreamSafety
<1> QED
    BY <1>1, <1>2, <1>3, PTL DEF ServicesSpec

\* No swap and no pool is passed over and nobody hears of a large trade too often, whatever
\* fails in between (ingestion.ts, pool-discovery.ts, notification-fanout.service.ts).
THEOREM MarketSafetyHolds == ServicesSpec => []MarketSafety
<1> DEFINE Inv == IngestInv /\ DiscInv /\ QueueInv
<1>1. ServicesInit => Inv
    BY IngestInvInit, DiscInvInit, QueueInvInit DEF ServicesInit
<1>2. Inv /\ [ServicesNext]_servicesVars => Inv'
    BY ServicesStepIsComponents, IngestInvStep, DiscInvStep, QueueInvStep
<1>3. Inv => MarketSafety
    BY AlertSafetyFollows DEF IngestInv, DiscInv, QueueInv, MarketSafety
<1> QED
    BY <1>1, <1>2, <1>3, PTL DEF ServicesSpec
=============================================================================
