--------------------------- MODULE PollGenerator ---------------------------
(***************************************************************************)
(* The automatic polls: PredictionsCronService.generate                    *)
(* (apps/api/src/predictions/predictions-cron.service.ts).                 *)
(*                                                                         *)
(* Once per two-hour block one API instance tops the open polls up.  A     *)
(* question (template and coin) is a stem; a poll is a stem with the block *)
(* it was asked in, its unique dedupeKey.  The questions about real-world  *)
(* events, which have caps of their own, and the ones about a headline     *)
(* (dedupeKey news:<id>, lines 225-242, asked once ever) are left out.     *)
(***************************************************************************)
EXTENDS Integers, FiniteSets

CONSTANTS
  Stems,         \* questions that can be asked now
  Generators,    \* API instances
  OpenAutoCap,   \* OPEN_AUTO_CAP
  MaxPollBlock   \* bound: two-hour blocks

ASSUME GeneratorAssumption ==
  IsFiniteSet(Stems) /\ OpenAutoCap \in Nat /\ MaxPollBlock \in Nat \ {0}

VARIABLES
  pollBlock,   \* the present two-hour block
  openPoll,    \* polls that are open
  closedPoll,  \* polls that are over
  lastBlock,   \* kamby:pred:last-block
  genLock,     \* kamby:pred:lock:gen
  gen          \* what each instance remembers

genVars == <<pollBlock, openPoll, closedPoll, lastBlock, genLock, gen>>

PollBlocks == 1..MaxPollBlock
Poll == Stems \X PollBlocks

GenTypeOK ==
  /\ pollBlock \in PollBlocks /\ lastBlock \in PollBlocks \cup {0}
  /\ openPoll \subseteq Poll /\ closedPoll \subseteq Poll
  /\ openPoll \cap closedPoll = {}
  /\ genLock \in BOOLEAN
  /\ gen \in [Generators -> [pc: {"idle", "start", "read", "insert"},
                             block: PollBlocks \cup {0}, picks: SUBSET Stems]]

IdleGen == [pc |-> "idle", block |-> 0, picks |-> {}]

GenInit ==
  /\ pollBlock = 1 /\ lastBlock = 0
  /\ openPoll = {} /\ closedPoll = {}
  /\ genLock = FALSE
  /\ gen = [g \in Generators |-> IdleGen]

GenGoes(g, task) == gen' = [gen EXCEPT ![g] = task]

\* A mutant: the run goes on whether or not it got the lock.
GenLocked_Ignored(g) ==
  /\ gen[g].pc = "idle"
  /\ genLock' = TRUE
  /\ GenGoes(g, [IdleGen EXCEPT !.pc = "start"])
  /\ UNCHANGED <<pollBlock, openPoll, closedPoll, lastBlock>>

\* SET NX EX 14 min.
GenLocked(g) ==
  /\ gen[g].pc = "idle" /\ ~genLock
  /\ genLock' = TRUE
  /\ GenGoes(g, [IdleGen EXCEPT !.pc = "start"])
  /\ UNCHANGED <<pollBlock, openPoll, closedPoll, lastBlock>>

\* The block is done already, or its questions are drafted.
StartBlock(g) ==
  /\ gen[g].pc = "start"
  /\ GenGoes(g, IF lastBlock = pollBlock THEN IdleGen
                ELSE [IdleGen EXCEPT !.pc = "read", !.block = pollBlock])
  /\ UNCHANGED <<pollBlock, openPoll, closedPoll, lastBlock, genLock>>

Asked == {p[1] : p \in openPoll}

\* A mutant: the open polls are not counted against the cap.
PickDrafts_NoCap(g, picks) ==
  /\ gen[g].pc = "read"
  /\ picks \subseteq Stems \ Asked
  /\ Cardinality(picks) <= OpenAutoCap
  /\ GenGoes(g, [gen[g] EXCEPT !.pc = "insert", !.picks = picks])
  /\ UNCHANGED <<pollBlock, openPoll, closedPoll, lastBlock, genLock>>

\* Drafts that are not asked at present, as many as there is room for.
PickDrafts(g, picks) ==
  /\ gen[g].pc = "read"
  /\ picks \subseteq Stems \ Asked
  /\ picks # {} => Cardinality(picks) + Cardinality(openPoll) <= OpenAutoCap
  /\ GenGoes(g, [gen[g] EXCEPT !.pc = "insert", !.picks = picks])
  /\ UNCHANGED <<pollBlock, openPoll, closedPoll, lastBlock, genLock>>

\* A mutant: a poll that is over is opened again.
insert_Reopens(g, stem) ==
  LET p == <<stem, gen[g].block>>
  IN /\ gen[g].pc = "insert" /\ stem \in gen[g].picks
     /\ openPoll' = openPoll \cup {p}
     /\ GenGoes(g, [gen[g] EXCEPT !.picks = @ \ {stem}])
     /\ UNCHANGED <<pollBlock, closedPoll, lastBlock, genLock>>

\* createMany of one poll, skipping a dedupeKey that exists.
insert(g, stem) ==
  LET p == <<stem, gen[g].block>>
  IN /\ gen[g].pc = "insert" /\ stem \in gen[g].picks
     /\ openPoll' = IF p \in closedPoll THEN openPoll ELSE openPoll \cup {p}
     /\ GenGoes(g, [gen[g] EXCEPT !.picks = @ \ {stem}])
     /\ UNCHANGED <<pollBlock, closedPoll, lastBlock, genLock>>

BlockDone(g) ==
  /\ gen[g].pc = "insert" /\ gen[g].picks = {}
  /\ lastBlock' = gen[g].block
  /\ GenGoes(g, IdleGen)
  /\ UNCHANGED <<pollBlock, openPoll, closedPoll, genLock>>

\* A write fails, or the instance stops: the block is tried again.
GenFails(g) ==
  /\ gen[g].pc # "idle"
  /\ GenGoes(g, IdleGen)
  /\ UNCHANGED <<pollBlock, openPoll, closedPoll, lastBlock, genLock>>

-----------------------------------------------------------------------------
(* Time. *)

NextPollBlock ==
  /\ pollBlock < MaxPollBlock
  /\ pollBlock' = pollBlock + 1
  /\ UNCHANGED <<openPoll, closedPoll, lastBlock, genLock, gen>>

\* A poll stays open for at least 10 hours, five blocks or more.
PollEnds(p) ==
  /\ p \in openPoll /\ p[2] < pollBlock
  /\ openPoll' = openPoll \ {p} /\ closedPoll' = closedPoll \cup {p}
  /\ UNCHANGED <<pollBlock, lastBlock, genLock, gen>>

\* A run takes less than the 14 minutes of the lock.
GenLockExpires ==
  /\ genLock /\ \A g \in Generators : gen[g].pc = "idle"
  /\ genLock' = FALSE
  /\ UNCHANGED <<pollBlock, openPoll, closedPoll, lastBlock, gen>>

GenNext ==
  \/ \E g \in Generators :
       \/ GenLocked(g) \/ StartBlock(g) \/ BlockDone(g) \/ GenFails(g)
       \/ \E picks \in SUBSET Stems : PickDrafts(g, picks)
       \/ \E stem \in Stems : insert(g, stem)
  \/ NextPollBlock \/ GenLockExpires
  \/ \E p \in openPoll : PollEnds(p)

GenSpec == GenInit /\ [][GenNext]_genVars

-----------------------------------------------------------------------------
(* Properties. *)

\* Two open polls never ask the same question, although a run may fail half way
\* and be repeated, and the block may change while it is under way ("no two open
\* polls are the same question", predictions-cron.service.ts:76-80).
OneOpenPollPerStem == \A p, q \in openPoll : p[1] = q[1] => p = q

\* The automatic polls stay within their cap, repeated runs included (lines 22-23).
OpenPollsCapped == Cardinality(openPoll) <= OpenAutoCap

\* The open automatic polls are different questions and no more than their cap,
\* whatever runs failed or were repeated.
GeneratorSafety == OneOpenPollPerStem /\ OpenPollsCapped
=============================================================================
