---------------------------- MODULE RpcFailover ----------------------------
(***************************************************************************)
(* Solana RPC calls of the API: a circuit breaker per endpoint             *)
(* (apps/api/src/chain/circuit-breaker.ts) and the pool that tries one     *)
(* endpoint and then the other (solana-connection-pool.ts).                *)
(*                                                                         *)
(* A call is atomic where it starts and where it ends; any number of calls *)
(* is under way in between, and each one moves the breaker when it ends.   *)
(***************************************************************************)
EXTENDS Integers

CONSTANTS
  RpcCalls,          \* concurrent operations
  FailureThreshold   \* FAILURE_THRESHOLD

ASSUME RpcAssumption == FailureThreshold \in Nat \ {0}

VARIABLES
  breaker,   \* per endpoint: state and consecutiveFailures
  elapsed,   \* endpoints whose openedAt is resetTimeoutMs ago
  up,        \* endpoints that answer
  rpcCall,   \* what each operation is doing
  streak     \* history: failures an endpoint answered since its last success

rpcVars == <<breaker, elapsed, up, rpcCall, streak>>

Endpoints == {"primary", "fallback"}
Other(e) == IF e = "primary" THEN "fallback" ELSE "primary"

\* Counting stops at the threshold: beyond it nothing changes.
Failures == 0..FailureThreshold
More(n) == IF n < FailureThreshold THEN n + 1 ELSE n

RpcTypeOK ==
  /\ breaker \in [Endpoints -> [state: {"CLOSED", "OPEN", "HALF_OPEN"}, failures: Failures]]
  /\ elapsed \subseteq Endpoints /\ up \subseteq Endpoints
  /\ rpcCall \in [RpcCalls -> [pc: {"idle", "start", "running"}, at: Endpoints, second: BOOLEAN]]
  /\ streak \in [Endpoints -> Failures]

IdleRpc == [pc |-> "idle", at |-> "primary", second |-> FALSE]

RpcInit ==
  /\ breaker = [e \in Endpoints |-> [state |-> "CLOSED", failures |-> 0]]
  /\ elapsed = {}
  /\ up = Endpoints
  /\ rpcCall = [c \in RpcCalls |-> IdleRpc]
  /\ streak = [e \in Endpoints |-> 0]

\* A mutant: an open breaker stays open.
getState_NeverHalfOpen(e) == breaker[e].state

getState(e) ==
  IF breaker[e].state = "OPEN" /\ e \in elapsed THEN "HALF_OPEN" ELSE breaker[e].state

\* withFailover starts at the primary, withPublicFirst at the fallback.
BeginRpc(c, first) ==
  /\ rpcCall[c].pc = "idle"
  /\ rpcCall' = [rpcCall EXCEPT ![c] = [pc |-> "start", at |-> first, second |-> FALSE]]
  /\ UNCHANGED <<breaker, elapsed, up, streak>>

\* A failed attempt: the other endpoint, or the error goes to the caller.
NextEndpoint(c) ==
  IF rpcCall[c].second THEN IdleRpc
  ELSE [pc |-> "start", at |-> Other(rpcCall[c].at), second |-> TRUE]

\* execute refuses a call to an open breaker, without moving it.
Refuse(c) ==
  /\ rpcCall[c].pc = "start" /\ getState(rpcCall[c].at) = "OPEN"
  /\ rpcCall' = [rpcCall EXCEPT ![c] = NextEndpoint(c)]
  /\ UNCHANGED <<breaker, elapsed, up, streak>>

execute(c) ==
  LET e == rpcCall[c].at
  IN /\ rpcCall[c].pc = "start" /\ getState(e) # "OPEN"
     /\ breaker' = [breaker EXCEPT ![e].state = getState(e)]
     /\ rpcCall' = [rpcCall EXCEPT ![c].pc = "running"]
     /\ UNCHANGED <<elapsed, up, streak>>

onSuccess(e) == breaker' = [breaker EXCEPT ![e] = [state |-> "CLOSED", failures |-> 0]]

\* A mutant: the breaker opens one failure too late.
OpensNow_TooLate(e) == \/ breaker[e].state = "HALF_OPEN"
               \/ More(breaker[e].failures) > FailureThreshold

OpensNow(e) == \/ breaker[e].state = "HALF_OPEN"
               \/ More(breaker[e].failures) >= FailureThreshold

onFailure(e) ==
  /\ breaker' = [breaker EXCEPT ![e] =
       [state |-> IF OpensNow(e) THEN "OPEN" ELSE @.state, failures |-> More(@.failures)]]
  /\ elapsed' = IF OpensNow(e) THEN elapsed \ {e} ELSE elapsed

Answered(c) ==
  LET e == rpcCall[c].at
  IN /\ rpcCall[c].pc = "running" /\ e \in up
     /\ onSuccess(e)
     /\ streak' = [streak EXCEPT ![e] = 0]
     /\ rpcCall' = [rpcCall EXCEPT ![c] = IdleRpc]
     /\ UNCHANGED <<elapsed, up>>

Failed(c) ==
  LET e == rpcCall[c].at
  IN /\ rpcCall[c].pc = "running" /\ e \notin up
     /\ onFailure(e)
     /\ streak' = [streak EXCEPT ![e] = More(@)]
     /\ rpcCall' = [rpcCall EXCEPT ![c] = NextEndpoint(c)]
     /\ UNCHANGED up

ResetTimeout(e) ==
  /\ breaker[e].state = "OPEN" /\ e \notin elapsed
  /\ elapsed' = elapsed \cup {e}
  /\ UNCHANGED <<breaker, up, rpcCall, streak>>

GoesDown(e) == e \in up /\ up' = up \ {e} /\ UNCHANGED <<breaker, elapsed, rpcCall, streak>>
ComesUp(e) == e \notin up /\ up' = up \cup {e} /\ UNCHANGED <<breaker, elapsed, rpcCall, streak>>

RpcStep(c) == Refuse(c) \/ execute(c) \/ Answered(c) \/ Failed(c)

RpcNext ==
  \/ \E c \in RpcCalls : (\E first \in Endpoints : BeginRpc(c, first)) \/ RpcStep(c)
  \/ \E e \in Endpoints : ResetTimeout(e) \/ GoesDown(e) \/ ComesUp(e)

RpcSpec == RpcInit /\ [][RpcNext]_rpcVars

\* Users go on asking, calls end, time passes.
RpcFairness ==
  /\ \A c \in RpcCalls : /\ WF_rpcVars(RpcStep(c))
                         /\ \A e \in Endpoints : SF_rpcVars(BeginRpc(c, e))
  /\ \A e \in Endpoints : WF_rpcVars(ResetTimeout(e))

-----------------------------------------------------------------------------
(* Properties. *)

\* In whatever order calls end, the breaker is open only if the last answer was a
\* failure and closed only after fewer failures in a row than the threshold.
BreakerFollowsStreak ==
  \A e \in Endpoints :
    /\ breaker[e].state = "OPEN" => streak[e] > 0
    /\ breaker[e].state = "CLOSED" => streak[e] < FailureThreshold

\* An endpoint that is back for good is used again: its breaker closes.
EndpointUsedAgain ==
  RpcFairness =>
    \A e \in Endpoints : <>[](e \in up) => <>[](breaker[e].state = "CLOSED")

\* "lets exactly one probe call through" (circuit-breaker.ts:13).  It fails: calls
\* that start while the breaker is half open all run.
OneProbe ==
  \A e \in Endpoints : breaker[e].state = "HALF_OPEN" =>
    \A c, d \in RpcCalls : rpcCall[c].pc = "running" /\ rpcCall[d].pc = "running"
                           /\ rpcCall[c].at = e /\ rpcCall[d].at = e => c = d
=============================================================================
