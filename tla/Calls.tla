------------------------------- MODULE Calls -------------------------------
(***************************************************************************)
(* Voice calls of one chat (apps/api/src/calls/calls.service.ts).          *)
(*                                                                         *)
(* The call is one JSON record in Redis.  Every change is a read, a pure   *)
(* function and a write of the whole record (mutate), under a lock that    *)
(* expires, that nobody owns, and that a request stops waiting for after   *)
(* 40 tries.  Ending a call deletes the record without the lock.  A step   *)
(* of a request is what it does between two awaits on Redis; taking the    *)
(* lock and reading are one step, writing and releasing are one step.      *)
(***************************************************************************)
EXTENDS Integers, FiniteSets

CONSTANTS
  CallUsers,        \* members of the chat (dm.callAccess)
  CallRequests,     \* concurrent HTTP requests
  CallLounge,       \* TRUE in a community, whose voice lounge rings nobody
  MaxParticipants,  \* CALL_LIMITS.maxParticipants
  MaxCallIds,       \* bound: calls started in one behaviour
  AfterBypass,      \* bound: FALSE ends a behaviour with the requests in flight
                    \* once one of them went on without the lock
  NoCall            \* the key is not in Redis

ASSUME CallsAssumption ==
  /\ CallLounge \in BOOLEAN /\ AfterBypass \in BOOLEAN
  /\ MaxParticipants \in Nat /\ MaxCallIds \in Nat

VARIABLES
  call,      \* kamby:call:<chat>
  callLock,  \* kamby:call:<chat>:lock exists
  callReq,   \* what each request remembers between two awaits
  quiet,     \* users last heard of (seen, else joinedAt) more than staleMs ago
  ringOver,  \* calls that have rung for ringSeconds
  callIds,   \* number of calls started
  lined,     \* calls with a "Call" or "Missed call" line in the chat
  bypassed,  \* history: a change was made, or may be made, without the lock
  cut        \* history: calls whose line was not posted, for a failure

callVars == <<call, callLock, callReq, quiet, ringOver, callIds, lined, bypassed, cut>>
callHistory == <<bypassed, cut>>

CallId == 1..MaxCallIds

CallRecord ==
  [id: CallId, startedBy: CallUsers, in: SUBSET CallUsers,
   ringing: SUBSET CallUsers,
   answered: BOOLEAN]

ASSUME NoCallAssumption == NoCall \notin CallRecord

\* edit stands for close and mute; like publish, they change fields of the
\* user's own entry that are left out here.
CallOps == {"heartbeat", "start", "join", "publish", "edit", "leave", "decline"}

\* get is a heartbeat of somebody who is not in the call.
\* The operations that look at the call through tidy() first.
TidyFirst == {"heartbeat", "join", "publish"}

CallTask ==
  [pc: {"idle", "tidy", "lock", "write", "end", "post", "seen"}, op: CallOps,
   user: CallUsers \cup {NoCall}, tidying: BOOLEAN, alive: SUBSET CallUsers, over: BOOLEAN,
   snap: CallRecord \cup {NoCall}]

CallsTypeOK ==
  /\ call \in CallRecord \cup {NoCall}
  /\ callLock \in BOOLEAN
  /\ callReq \in [CallRequests -> CallTask]
  /\ quiet \subseteq CallUsers
  /\ ringOver \subseteq CallId
  /\ callIds \in 0..MaxCallIds
  /\ lined \subseteq CallId /\ cut \subseteq CallId
  /\ bypassed \in BOOLEAN

IdleCall == [pc |-> "idle", op |-> "heartbeat", user |-> NoCall,
             tidying |-> FALSE, alive |-> {}, over |-> FALSE, snap |-> NoCall]

CallsInit ==
  /\ call = NoCall
  /\ callLock = FALSE
  /\ callReq = [r \in CallRequests |-> IdleCall]
  /\ quiet = {}
  /\ ringOver = {}
  /\ callIds = 0
  /\ lined = {} /\ cut = {}
  /\ bypassed = FALSE

-----------------------------------------------------------------------------
(* The functions given to mutate: the record after, from the record read.  *)

NewCall(u) ==
  [id |-> callIds + 1, startedBy |-> u, in |-> {},
   ringing |-> IF CallLounge THEN {} ELSE CallUsers \ {u},
   answered |-> FALSE]

\* join replaces the participant.
Joined(c, u) ==
  [c EXCEPT !.in = @ \cup {u}, !.ringing = @ \ {u},
            !.answered = @ \/ u # c.startedBy]

\* tidy keeps those who were alive when it looked, whoever is there now.
Tidied(c, t) ==
  [c EXCEPT !.in = @ \cap t.alive, !.ringing = IF t.over THEN {} ELSE @]

Effect(t, c) ==
  CASE t.tidying /\ c # NoCall -> Tidied(c, t)
    [] ~t.tidying /\ t.op = "start" -> IF c = NoCall THEN NewCall(t.user) ELSE c
    [] ~t.tidying /\ c # NoCall /\ t.op = "join" -> Joined(c, t.user)
    [] ~t.tidying /\ c # NoCall /\ t.op = "leave" ->
         [c EXCEPT !.in = @ \ {t.user}, !.ringing = @ \ {t.user}]
    [] ~t.tidying /\ c # NoCall /\ t.op = "decline" ->
         [c EXCEPT !.ringing = @ \ {t.user}]
    [] OTHER -> c   \* publish and edit; null stays null

-----------------------------------------------------------------------------
(* Decisions on a record a request has in hand. *)

\* endIfEmpty: nobody in it; only the caller and nobody left to ring; or one
\* side of a call between two has hung up.
IsOver(c) ==
  \/ c.in = {}
  \/ /\ ~CallLounge
     /\ \/ c.in = {c.startedBy} /\ c.ringing = {} /\ ~c.answered
        \/ Cardinality(CallUsers) <= 2 /\ c.answered /\ Cardinality(c.in) < 2

\* decline: a call nobody else will answer ends right away.
NobodyLeft(c) == c.ringing = {} /\ c.in \subseteq {c.startedBy}

MayJoin(c, u) == Cardinality(c.in) < MaxParticipants \/ u \in c.in

\* What a request remembers when only the step pc is left to do for its user.
Remaining(pc, op, u) == [IdleCall EXCEPT !.pc = pc, !.op = op, !.user = u]
LastStep(pc, u) == Remaining(pc, "heartbeat", u)

\* How a request goes on once tidy has returned the record c.
AfterTidy(t, c) ==
  CASE t.op = "join" /\ MayJoin(c, t.user) -> Remaining("lock", "join", t.user)
    [] t.op = "publish" /\ t.user \in c.in -> Remaining("lock", "edit", t.user)
    [] t.op = "heartbeat" /\ t.user \in c.in -> LastStep("seen", t.user)
    [] OTHER -> IdleCall

EndOf(c) == [IdleCall EXCEPT !.pc = "end", !.snap = c]

\* How a request goes on once its mutate has returned the record n: start goes on
\* as a join, and tidy's own mutate is followed by the rest of the operation.
AfterMutate(t, n) ==
  IF n = NoCall THEN IdleCall
  ELSE IF t.tidying THEN IF IsOver(n) THEN EndOf(n) ELSE AfterTidy(t, n)
  ELSE CASE t.op = "start" -> Remaining("tidy", "join", t.user)
         [] t.op = "join" -> LastStep("seen", t.user)
         [] t.op = "leave" /\ IsOver(n) -> EndOf(n)
         [] t.op = "decline" /\ NobodyLeft(n) -> EndOf(n)
         [] OTHER -> IdleCall

-----------------------------------------------------------------------------
(* Steps of a request. *)

\* For the bound: requests that may still create a call.
Starting(q) == callReq[q].op = "start" /\ callReq[q].pc # "idle"

Request(r, op, u) ==
  /\ callReq[r].pc = "idle"
  /\ bypassed => AfterBypass
  /\ op = "start" => callIds + Cardinality({q \in CallRequests : Starting(q)}) < MaxCallIds
  /\ callReq' = [callReq EXCEPT ![r] =
       Remaining(IF op \in TidyFirst THEN "tidy" ELSE "lock", op, u)]
  /\ UNCHANGED <<call, callLock, quiet, ringOver, callIds, lined, callHistory>>

tidy(r) ==
  LET t == callReq[r]
      alive == call.in \ quiet
      over == call.id \in ringOver
      clean == alive = call.in /\ ~(over /\ call.ringing # {})
  IN /\ t.pc = "tidy"
     /\ callReq' = [callReq EXCEPT ![r] =
          IF call = NoCall THEN IdleCall
          ELSE IF clean THEN AfterTidy(t, call)
          ELSE [t EXCEPT !.pc = "lock", !.tidying = TRUE, !.alive = alive,
                         !.over = over]]
     /\ UNCHANGED <<call, callLock, quiet, ringOver, callIds, lined, callHistory>>

SomeoneInside == \E q \in CallRequests : callReq[q].pc = "write"

\* A mutant: the result of SET NX is ignored.
Acquire_NoLock(r) ==
  /\ callReq[r].pc = "lock"
  /\ callLock' = TRUE
  /\ callReq' = [callReq EXCEPT ![r].pc = "write", ![r].snap = call]
  /\ UNCHANGED <<call, quiet, ringOver, callIds, lined, callHistory>>

\* SET NX PX succeeds, and the record is read.
Acquire(r) ==
  /\ callReq[r].pc = "lock" /\ ~callLock
  /\ callLock' = TRUE
  /\ callReq' = [callReq EXCEPT ![r].pc = "write", ![r].snap = call]
  /\ UNCHANGED <<call, quiet, ringOver, callIds, lined, callHistory>>

\* After 40 tries the loop ends and the request goes on without the lock.
GiveUpWaiting(r) ==
  /\ callReq[r].pc = "lock" /\ callLock
  /\ callReq' = [callReq EXCEPT ![r].pc = "write", ![r].snap = call]
  /\ bypassed' = TRUE
  /\ UNCHANGED <<call, callLock, quiet, ringOver, callIds, lined, cut>>

\* The record is written (or the key deleted) and the lock deleted, whoever set it.
\* A join of somebody with an old check-in stays quiet until seen() renews it.
Write(r) ==
  LET t == callReq[r]
      n == Effect(t, t.snap)
  IN /\ t.pc = "write"
     /\ call' = n
     /\ callLock' = FALSE
     /\ callIds' = IF n # NoCall /\ n.id > callIds THEN n.id ELSE callIds
     /\ CASE ~t.tidying /\ t.op = "leave" -> quiet' = quiet \ {t.user}
          [] ~t.tidying /\ t.op = "join" -> quiet' \in {quiet, quiet \ {t.user}}
          [] OTHER -> quiet' = quiet
     /\ callReq' = [callReq EXCEPT ![r] = AfterMutate(t, n)]
     /\ UNCHANGED <<ringOver, lined, callHistory>>

\* end: both keys go, without the lock.
End(r) ==
  LET t == callReq[r]
  IN /\ t.pc = "end"
     /\ call' = NoCall
     /\ quiet' = {}
     /\ callReq' = [callReq EXCEPT ![r] = IF CallLounge THEN IdleCall ELSE [t EXCEPT !.pc = "post"]]
     /\ UNCHANGED <<callLock, ringOver, callIds, lined, callHistory>>

\* A mutant: only answered calls leave a line.
PostLine_Answered(r) ==
  LET c == callReq[r].snap
  IN /\ callReq[r].pc = "post"
     /\ lined' = IF c.answered THEN lined \cup {c.id} ELSE lined
     /\ callReq' = [callReq EXCEPT ![r] = IdleCall]
     /\ UNCHANGED <<call, callLock, quiet, ringOver, callIds, callHistory>>

\* Then the line is posted.
PostLine(r) ==
  /\ callReq[r].pc = "post"
  /\ lined' = lined \cup {callReq[r].snap.id}
  /\ callReq' = [callReq EXCEPT ![r] = IdleCall]
  /\ UNCHANGED <<call, callLock, quiet, ringOver, callIds, callHistory>>

seen(r) ==
  /\ callReq[r].pc = "seen"
  /\ quiet' = quiet \ {callReq[r].user}
  /\ callReq' = [callReq EXCEPT ![r] = IdleCall]
  /\ UNCHANGED <<call, callLock, ringOver, callIds, lined, callHistory>>

\* The process dies, or Redis or the database fails: the lock stays until it
\* expires, and the line of an ended call is not posted.
Die(r) ==
  /\ callReq[r].pc # "idle"
  /\ cut' = IF callReq[r].pc = "post" THEN cut \cup {callReq[r].snap.id} ELSE cut
  /\ callReq' = [callReq EXCEPT ![r] = IdleCall]
  /\ UNCHANGED <<call, callLock, quiet, ringOver, callIds, lined, bypassed>>

-----------------------------------------------------------------------------
(* Time. *)

LockExpires ==
  /\ callLock
  /\ callLock' = FALSE
  /\ bypassed' = (bypassed \/ SomeoneInside)
  /\ UNCHANGED <<call, callReq, quiet, ringOver, callIds, lined, cut>>

\* staleMs pass without a sign of u.
GoStale(u) ==
  /\ call # NoCall /\ u \in call.in \ quiet
  /\ quiet' = quiet \cup {u}
  /\ UNCHANGED <<call, callLock, callReq, ringOver, callIds, lined, callHistory>>

StopRinging ==
  /\ call # NoCall /\ call.id \notin ringOver
  /\ ringOver' = ringOver \cup {call.id}
  /\ UNCHANGED <<call, callLock, callReq, quiet, callIds, lined, callHistory>>

CallStep(r) == tidy(r) \/ Acquire(r) \/ GiveUpWaiting(r) \/ Write(r) \/ End(r)
               \/ PostLine(r) \/ seen(r)

CallsNext ==
  \/ \E r \in CallRequests :
       \/ \E op \in CallOps, u \in CallUsers : Request(r, op, u)
       \/ CallStep(r)
       \/ Die(r)
  \/ \E u \in CallUsers : GoStale(u)
  \/ LockExpires
  \/ StopRinging

CallsSpec == CallsInit /\ [][CallsNext]_callVars

-----------------------------------------------------------------------------
(* Properties. *)

\* As long as nobody gave up waiting for the lock and it never expired under its
\* holder, the record a request is about to replace is still the one it read, or
\* was deleted by an end: no join, leave, decline or track of anybody is lost,
\* whoever died on the way (the lock of mutate, lines 241-255).
NoLostUpdate ==
  ~bypassed => \A r \in CallRequests :
                 callReq[r].pc = "write" => call \in {callReq[r].snap, NoCall}

Gone(i) == call = NoCall \/ call.id # i
Told(i) == \/ i \in lined \cup cut
           \/ \E r \in CallRequests : callReq[r].pc = "post" /\ callReq[r].snap.id = i

\* Under the same condition a call that was started and is gone has its line in
\* the chat, or is about to get it, or its post failed (end, lines 295-307); or an
\* earlier call's late end deleted it.
NoSilentEnd ==
  ~CallLounge /\ ~bypassed =>
    \A i \in 1..callIds : Gone(i) => \E j \in 1..i : Told(j)

\* The same without the exception: every call leaves a line of its own
\* (lines 45-46).  It fails, since end deletes whatever call is stored.
FinishedCallLeavesLine ==
  ~CallLounge /\ ~bypassed => \A i \in 1..callIds : Gone(i) => Told(i)

\* While the lock holds, no change of a call is lost, and no call ends unmentioned.
CallSafety == NoLostUpdate /\ NoSilentEnd
=============================================================================
