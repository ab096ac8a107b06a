---------------------------- MODULE Predictions ----------------------------
(***************************************************************************)
(* Votes on one poll and its end: PredictionsService.vote and ensureCounts *)
(* (apps/api/src/predictions/predictions.service.ts) and the resolver of   *)
(* PredictionsCronService (predictions-cron.service.ts).                   *)
(*                                                                         *)
(* The votes are rows of the database, their tally a Redis hash that is    *)
(* seeded from the rows when it is missing and counted up after each vote. *)
(* What is published to open pages is left out.                            *)
(***************************************************************************)
EXTENDS Integers, FiniteSets

CONSTANTS
  Voters, PollOptions,
  PollRequests,   \* concurrent votes and page views
  Resolvers,      \* API instances that run the resolver
  SlowResolvers,  \* may a resolver run take longer than its lock lasts?
  NoOption, NoVoter, NoTally

ASSUME PredictionsAssumption ==
  /\ IsFiniteSet(Voters) /\ PollRequests \cap Resolvers = {}
  /\ SlowResolvers \in BOOLEAN
  /\ NoOption \notin PollOptions /\ NoVoter \notin Voters

VARIABLES
  poll,         \* the row: status and resolvedOptionIndex
  pollTime,     \* "open", "over" (expiresAt passed) or "late" (GIVE_UP_MS passed too)
  ballot,       \* prediction_votes: per voter
  tally,        \* kamby:pred:<id>:c
  resolveLock,  \* kamby:pred:lock:resolve
  pollTask,     \* what each request and resolver remembers
  disturbed     \* history: a seed and a vote overlapped, or a count up was missed

pollVars == <<poll, pollTime, ballot, tally, resolveLock, pollTask, disturbed>>

PollTasks == PollRequests \cup Resolvers
Choice == PollOptions \cup {NoOption}
Count == [PollOptions -> 0..(2 * Cardinality(Voters))]

PollTypeOK ==
  /\ poll \in [status: {"ACTIVE", "RESOLVED", "EXPIRED"}, outcome: Choice]
  /\ pollTime \in {"open", "over", "late"}
  /\ ballot \in [Voters -> Choice]
  /\ tally \in Count \cup {NoTally}
  /\ resolveLock \in BOOLEAN
  /\ pollTask \in [PollTasks ->
       [pc: {"idle", "run", "resolve", "counts", "group", "seed", "create", "bump"},
        user: Voters \cup {NoVoter}, option: Choice, counted: Count \cup {NoTally}]]
  /\ disturbed \in BOOLEAN

IdlePoll == [pc |-> "idle", user |-> NoVoter, option |-> NoOption, counted |-> NoTally]

PollInit ==
  /\ poll = [status |-> "ACTIVE", outcome |-> NoOption]
  /\ pollTime = "open"
  /\ ballot = [v \in Voters |-> NoOption]
  /\ tally = NoTally
  /\ resolveLock = FALSE
  /\ pollTask = [t \in PollTasks |-> IdlePoll]
  /\ disturbed = FALSE

Remember(t, task) == pollTask' = [pollTask EXCEPT ![t] = task]
Goes(t, pc) == Remember(t, [pollTask[t] EXCEPT !.pc = pc])
Others(t, pc) == \E s \in PollTasks \ {t} : pollTask[s].pc = pc
Votes == [o \in PollOptions |-> Cardinality({v \in Voters : ballot[v] = o})]

-----------------------------------------------------------------------------
(* vote, and a page that shows the poll. *)

vote(t, v, o) ==
  /\ pollTask[t].pc = "idle"
  /\ poll.status = "ACTIVE" /\ pollTime = "open"
  /\ Remember(t, [IdlePoll EXCEPT !.pc = "counts", !.user = v, !.option = o])
  /\ UNCHANGED <<poll, pollTime, ballot, tally, resolveLock, disturbed>>

present(t) ==
  /\ pollTask[t].pc = "idle"
  /\ Remember(t, [IdlePoll EXCEPT !.pc = "counts"])
  /\ UNCHANGED <<poll, pollTime, ballot, tally, resolveLock, disturbed>>

\* Where a task goes when it has the counts.
AfterCounts(t) == IF pollTask[t].user = NoVoter THEN IdlePoll
                  ELSE [pollTask[t] EXCEPT !.pc = "create", !.counted = NoTally]

\* ensureCounts: the hash answers; it is missing, or Redis fails.
ReadHash(t, answers) ==
  /\ pollTask[t].pc = "counts"
  /\ answers => tally # NoTally
  /\ IF answers THEN Remember(t, AfterCounts(t)) ELSE Goes(t, "group")
  /\ UNCHANGED <<poll, pollTime, ballot, tally, resolveLock, disturbed>>

GroupVotes(t) ==
  /\ pollTask[t].pc = "group"
  /\ Remember(t, [pollTask[t] EXCEPT !.pc = "seed", !.counted = Votes])
  /\ disturbed' = (disturbed \/ Others(t, "bump"))
  /\ UNCHANGED <<poll, pollTime, ballot, tally, resolveLock>>

SeedHash(t, ok) ==
  /\ pollTask[t].pc = "seed"
  /\ tally' = IF ok THEN pollTask[t].counted ELSE tally
  /\ Remember(t, AfterCounts(t))
  /\ UNCHANGED <<poll, pollTime, ballot, resolveLock, disturbed>>

\* A mutant: the conflict is swallowed, and the vote is counted once more.
CreateVote_AgainCounted(t) ==
  LET v == pollTask[t].user
  IN /\ pollTask[t].pc = "create"
     /\ ballot' = IF ballot[v] = NoOption THEN [ballot EXCEPT ![v] = pollTask[t].option]
                  ELSE ballot
     /\ Goes(t, "bump")
     /\ disturbed' = (disturbed \/ Others(t, "seed"))
     /\ UNCHANGED <<poll, pollTime, tally, resolveLock>>

\* The vote row, unique per poll and user.
CreateVote(t) ==
  LET v == pollTask[t].user
  IN /\ pollTask[t].pc = "create"
     /\ IF ballot[v] = NoOption
        THEN /\ ballot' = [ballot EXCEPT ![v] = pollTask[t].option]
             /\ Goes(t, "bump")
             /\ disturbed' = (disturbed \/ Others(t, "seed"))
        ELSE Remember(t, IdlePoll) /\ UNCHANGED <<ballot, disturbed>>
     /\ UNCHANGED <<poll, pollTime, tally, resolveLock>>

\* hincrby, which makes a hash of one field when there is none.
BumpTally(t, ok) ==
  LET o == pollTask[t].option
      before == IF tally = NoTally THEN [p \in PollOptions |-> 0] ELSE tally
  IN /\ pollTask[t].pc = "bump"
     /\ tally' = IF ok THEN [before EXCEPT ![o] = @ + 1] ELSE tally
     /\ disturbed' = (disturbed \/ ~ok \/ tally = NoTally)
     /\ Remember(t, IdlePoll)
     /\ UNCHANGED <<poll, pollTime, ballot, resolveLock>>

-----------------------------------------------------------------------------
(* The resolver of one instance. *)

\* A mutant: the run goes on whether or not it got the lock.
locked_Ignored(t) ==
  /\ pollTask[t].pc = "idle"
  /\ resolveLock' = TRUE
  /\ Goes(t, "run")
  /\ UNCHANGED <<poll, pollTime, ballot, tally, disturbed>>

\* SET NX EX 100; the lock is never given back, it expires.
locked(t) ==
  /\ pollTask[t].pc = "idle"
  /\ ~resolveLock
  /\ resolveLock' = TRUE
  /\ Goes(t, "run")
  /\ UNCHANGED <<poll, pollTime, ballot, tally, disturbed>>

\* The polls that are due, then their prices or outcomes.
FindDue(t) ==
  /\ pollTask[t].pc = "run"
  /\ IF poll.status = "ACTIVE" /\ pollTime # "open" THEN Goes(t, "resolve")
     ELSE Remember(t, IdlePoll)
  /\ UNCHANGED <<poll, pollTime, ballot, tally, resolveLock, disturbed>>

\* finish: whatever the row is by now; the counts are read once more.
finish(t, status, outcome) ==
  /\ pollTask[t].pc = "resolve"
  /\ poll' = [status |-> status, outcome |-> outcome]
  /\ Goes(t, "counts")
  /\ UNCHANGED <<pollTime, ballot, tally, resolveLock, disturbed>>

\* A mutant: a poll whose outcome is unknown is kept for ever.
resolve_NeverGivesUp(t) ==
  \/ \E o \in PollOptions : finish(t, "RESOLVED", o)
  \/ /\ pollTask[t].pc = "resolve"
     /\ Remember(t, IdlePoll)
     /\ UNCHANGED <<poll, pollTime, ballot, tally, resolveLock, disturbed>>

\* A poll without an outcome is left to a later run, and given up when it is late.
resolve(t) ==
  \/ \E o \in PollOptions : finish(t, "RESOLVED", o)
  \/ pollTime = "late" /\ finish(t, "EXPIRED", NoOption)
  \/ /\ pollTask[t].pc = "resolve" /\ pollTime # "late"
     /\ Remember(t, IdlePoll)
     /\ UNCHANGED <<poll, pollTime, ballot, tally, resolveLock, disturbed>>

-----------------------------------------------------------------------------
(* Time and failures. *)

PollPasses ==
  /\ pollTime # "late"
  /\ pollTime' = IF pollTime = "open" THEN "over" ELSE "late"
  /\ UNCHANGED <<poll, ballot, tally, resolveLock, pollTask, disturbed>>

\* COUNTS_TTL_SECONDS after the last seed.
TallyExpires ==
  /\ tally # NoTally
  /\ tally' = NoTally
  /\ UNCHANGED <<poll, pollTime, ballot, resolveLock, pollTask, disturbed>>

ResolveLockExpires ==
  /\ resolveLock
  /\ SlowResolvers \/ \A t \in Resolvers : pollTask[t].pc \notin {"run", "resolve"}
  /\ resolveLock' = FALSE
  /\ UNCHANGED <<poll, pollTime, ballot, tally, pollTask, disturbed>>

PollDies(t) ==
  /\ pollTask[t].pc # "idle"
  /\ disturbed' = (disturbed \/ pollTask[t].pc = "bump")
  /\ Remember(t, IdlePoll)
  /\ UNCHANGED <<poll, pollTime, ballot, tally, resolveLock>>

PollNext ==
  \/ \E t \in PollRequests :
       \/ \E v \in Voters, o \in PollOptions : vote(t, v, o)
       \/ present(t)
       \/ CreateVote(t)
       \/ \E ok \in BOOLEAN : BumpTally(t, ok)
  \/ \E t \in PollTasks :
       \/ \E ok \in BOOLEAN : ReadHash(t, ok) \/ SeedHash(t, ok)
       \/ GroupVotes(t) \/ PollDies(t)
  \/ \E t \in Resolvers : locked(t) \/ FindDue(t) \/ resolve(t)
  \/ PollPasses \/ TallyExpires \/ ResolveLockExpires

PollSpec == PollInit /\ [][PollNext]_pollVars

\* Time passes, the instances keep running the resolver, and not every run of
\* theirs is cut short.
PollFairness ==
  /\ WF_pollVars(PollPasses)
  /\ WF_pollVars(ResolveLockExpires)
  /\ SF_pollVars(\E t \in Resolvers : locked(t))
  /\ SF_pollVars(\E t \in Resolvers : FindDue(t))
  /\ SF_pollVars(\E t \in Resolvers : resolve(t))
  /\ \A t \in Resolvers : WF_pollVars(\/ GroupVotes(t)
                                      \/ \E ok \in BOOLEAN : ReadHash(t, ok) \/ SeedHash(t, ok))

-----------------------------------------------------------------------------
(* Properties. *)

\* The tally agrees with the vote rows, the votes that are about to be counted
\* left out, however votes of two users and views interleave, unless a seed from
\* the rows overlapped a vote or a count up was missed ("Counts are read (and
\* seeded from the table) before this vote exists, then bumped once",
\* predictions.service.ts:153).
TallyAgrees ==
  ~disturbed /\ tally # NoTally =>
    \A o \in PollOptions :
      tally[o] + Cardinality({t \in PollRequests :
                               pollTask[t].pc = "bump" /\ pollTask[t].option = o}) = Votes[o]

\* The outcome of a poll is decided once, although the rows are read long before
\* they are written and finish does not look at the status again: only one
\* instance runs at a time (predictions-cron.service.ts:304-307, 425-426).
OutcomeIsFinal == [][poll.status # "ACTIVE" => poll' = poll]_pollVars

\* Every poll whose time is over is closed in the end, with an outcome or without
\* (383-423).
PollCloses == PollFairness => (pollTime # "open") ~> (poll.status # "ACTIVE")
=============================================================================
