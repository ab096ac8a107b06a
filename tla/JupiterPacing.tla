---------------------------- MODULE JupiterPacing ----------------------------
(***************************************************************************)
(* How the API paces its calls to Jupiter                                  *)
(* (apps/api/src/solana/jupiter-rate-limiter.ts) and repeats those that    *)
(* Jupiter turned away (fetchWithRetry of jupiter-quote.service.ts).       *)
(*                                                                         *)
(* take hands out slots one spacing apart and waits for the slot; a retry  *)
(* goes out when its own pause is over and only moves the next slot.  A    *)
(* timer fires at its time: on a busy event loop it may fire later.        *)
(***************************************************************************)
EXTENDS Integers

CONSTANTS
  JupCalls,    \* calls of fetchWithRetry, each made once
  Spacing,     \* spacingMs
  MaxWait,     \* maxWaitMs
  MaxRetries,  \* MAX_RETRY_ATTEMPTS
  MaxClock     \* bound on the time of a behaviour

ASSUME PacingAssumption ==
  /\ Spacing \in Nat \ {0} /\ MaxWait \in Nat /\ MaxRetries \in Nat /\ MaxClock \in Nat

VARIABLES
  clock,       \* now()
  nextSlotAt,
  jup,         \* each call: where it is, when it was or is to go out first, its retries,
               \* and when its last fetch went out
  fetches      \* history: fetches that went out

pacingVars == <<clock, nextSlotAt, jup, fetches>>

JupTask == [pc: {"new", "waiting", "out", "backoff", "busy", "done"},
            slot: Nat, attempt: 0..MaxRetries, last: Nat]

PacingTypeOK ==
  /\ clock \in Nat /\ nextSlotAt \in Nat /\ fetches \in Nat
  /\ jup \in [JupCalls -> JupTask]

PacingInit ==
  /\ clock = 0 /\ nextSlotAt = 0 /\ fetches = 0
  /\ jup = [c \in JupCalls |-> [pc |-> "new", slot |-> 0, attempt |-> 0, last |-> 0]]

-----------------------------------------------------------------------------
\* A mutant: slots that nobody used are handed out later.
Slot_Past == nextSlotAt

Slot == IF nextSlotAt < clock THEN clock ELSE nextSlotAt

\* take, up to its wait.
take(c) ==
  /\ jup[c].pc = "new"
  /\ IF Slot - clock > MaxWait
     THEN jup' = [jup EXCEPT ![c].pc = "busy"] /\ UNCHANGED nextSlotAt
     ELSE /\ jup' = [jup EXCEPT ![c].pc = "waiting", ![c].slot = Slot]
          /\ nextSlotAt' = Slot + Spacing
  /\ UNCHANGED <<clock, fetches>>

\* The wait is over, or there was none: the first fetch.
SendFirst(c) ==
  /\ jup[c].pc = "waiting" /\ jup[c].slot <= clock
  /\ jup' = [jup EXCEPT ![c].pc = "out", ![c].last = clock]
  /\ fetches' = fetches + 1
  /\ UNCHANGED <<clock, nextSlotAt>>

\* The answer: 429 while there are attempts left, or anything else.
JupiterAnswers(c, limited) ==
  /\ jup[c].pc = "out"
  /\ jup' = [jup EXCEPT ![c].pc = IF limited /\ jup[c].attempt < MaxRetries
                                  THEN "backoff" ELSE "done"]
  /\ UNCHANGED <<clock, nextSlotAt, fetches>>

\* A mutant: the retry is not counted.
note_Nothing == nextSlotAt

note == Slot + Spacing

\* After Retry-After or the backoff, whichever it was: note, then the fetch.
SendAgain(c) ==
  /\ jup[c].pc = "backoff" /\ jup[c].last < clock
  /\ nextSlotAt' = note
  /\ jup' = [jup EXCEPT ![c].pc = "out", ![c].attempt = @ + 1, ![c].last = clock]
  /\ fetches' = fetches + 1
  /\ UNCHANGED clock

\* Time does not pass a timer that is due.
Tick ==
  /\ clock < MaxClock /\ clock' = clock + 1
  /\ \A c \in JupCalls : jup[c].pc = "waiting" => jup[c].slot > clock
  /\ UNCHANGED <<nextSlotAt, jup, fetches>>

JupStep(c) ==
  \/ take(c) \/ SendFirst(c) \/ SendAgain(c)
  \/ \E limited \in BOOLEAN : JupiterAnswers(c, limited)

PacingNext == Tick \/ \E c \in JupCalls : JupStep(c)

PacingSpec == PacingInit /\ [][PacingNext]_pacingVars

-----------------------------------------------------------------------------
\* Calls whose first fetch is under way or has been.
Going(c) == jup[c].pc \notin {"new", "busy"}

\* First fetches are a spacing apart, however many calls come at once and whatever retries
\* move the slots in between: each goes out at its slot, and no two slots are closer.
CallsSpaced ==
  \A c, d \in JupCalls : c # d /\ Going(c) /\ Going(d) =>
    jup[c].slot + Spacing <= jup[d].slot \/ jup[d].slot + Spacing <= jup[c].slot

\* A call goes out at its slot and neither before nor after.
OnTime == \A c \in JupCalls : jup[c].pc = "out" /\ jup[c].attempt = 0 => jup[c].last = jup[c].slot

\* Retries count against the plan like other calls: no more fetches than slots have passed.
RateHolds == fetches * Spacing <= nextSlotAt

\* The three together, for the run of the services.
PacingSafety == CallsSpaced /\ OnTime /\ RateHolds

\* "Keeps every Jupiter call this API process makes under the key's plan limit": any two
\* fetches are a spacing apart.  It fails: a retry goes out at once, next to a call that has
\* its slot already.
EveryFetchSpaced ==
  \A c, d \in JupCalls : c # d /\ jup[c].pc = "out" /\ jup[d].pc = "out" =>
    jup[c].last + Spacing <= jup[d].last \/ jup[d].last + Spacing <= jup[c].last
=============================================================================
