------------------------------- MODULE Duels -------------------------------
(***************************************************************************)
(* Trading duels (apps/api/src/duels/duels.service.ts).                    *)
(*                                                                         *)
(* A duel is a database row.  Every operation reads the row, decides on    *)
(* that copy, and changes the row with an updateMany whose condition is    *)
(* checked again; the sweep of every API instance and every reader of the  *)
(* duel settle it when its time is over.  The reactions and the caches of  *)
(* a few seconds in front of the row are left out.                         *)
(***************************************************************************)
EXTENDS Integers, FiniteSets

CONSTANTS
  Duelists,      \* users
  DuelRequests,  \* concurrent requests and sweeps
  MaxDuels,      \* bound: duels created
  Pcts,          \* scores a player may have (percent)
  NoPct,         \* score of somebody who has not traded
  Nobody

ASSUME DuelsAssumption ==
  MaxDuels \in Nat /\ Pcts \subseteq Int /\ NoPct \notin Pcts /\ Nobody \notin Duelists

VARIABLES
  duel,      \* the rows
  lapsedAt,  \* duels created more than pendingMinutes or openMinutes ago
  overAt,    \* live duels whose endsAt has passed
  cooling,   \* users with kamby:duel:cool:<user> set
  duelReq,   \* what each request remembers
  posts,     \* per duel: number of result lines in the chat
  postedFor  \* per duel: winner named in the last one

duelVars == <<duel, lapsedAt, overAt, cooling, duelReq, posts, postedFor>>

DuelId == 1..MaxDuels
Waiting == {"pending", "open"}
Final == {"done", "expired", "declined", "cancelled"}
Person == Duelists \cup {Nobody}
Score == Pcts \cup {NoPct}

DuelRow == [status: Waiting \cup Final \cup {"none", "live"},
            challenger: Person, opponent: Person, winner: Person,
            chat: BOOLEAN]   \* conversationId is set

DuelTask == [pc: {"idle", "cool", "act", "attach", "get", "finalize", "expire", "post"},
             op: {"challenge", "openDuel", "join", "accept", "decline", "cancel", "get"},
             id: DuelId \cup {0}, user: Person, vs: Person,
             winner: Person, chat: BOOLEAN]

DuelsTypeOK ==
  /\ duel \in [DuelId -> DuelRow]
  /\ lapsedAt \subseteq DuelId /\ overAt \subseteq DuelId
  /\ cooling \subseteq Duelists
  /\ duelReq \in [DuelRequests -> DuelTask]
  /\ posts \in [DuelId -> Nat]
  /\ postedFor \in [DuelId -> Person]

NoDuel == [status |-> "none", challenger |-> Nobody, opponent |-> Nobody,
           winner |-> Nobody, chat |-> FALSE]
IdleDuel == [pc |-> "idle", op |-> "get", id |-> 0, user |-> Nobody, vs |-> Nobody,
             winner |-> Nobody, chat |-> FALSE]

DuelsInit ==
  /\ duel = [d \in DuelId |-> NoDuel]
  /\ lapsedAt = {} /\ overAt = {} /\ cooling = {}
  /\ duelReq = [r \in DuelRequests |-> IdleDuel]
  /\ posts = [d \in DuelId |-> 0]
  /\ postedFor = [d \in DuelId |-> Nobody]

SetTask(r, t) == duelReq' = [duelReq EXCEPT ![r] = t]
Getting(d) == [IdleDuel EXCEPT !.pc = "get", !.id = d]

\* A mutant: equal scores are a win of the challenger.
duelWinner_TieToChallenger(c, cpct, o, opct) ==
  CASE cpct = NoPct /\ opct = NoPct -> Nobody
    [] cpct # NoPct /\ opct = NoPct -> c
    [] cpct = NoPct /\ opct # NoPct -> o
    [] OTHER -> IF cpct >= opct THEN c ELSE o

\* The winner by the higher score; a score beats none, equal scores are a draw.
duelWinner(c, cpct, o, opct) ==
  CASE cpct = NoPct /\ opct = NoPct -> Nobody
    [] cpct # NoPct /\ opct = NoPct -> c
    [] cpct = NoPct /\ opct # NoPct -> o
    [] OTHER -> IF cpct = opct THEN Nobody ELSE IF cpct > opct THEN c ELSE o

-----------------------------------------------------------------------------
(* challenge and openDuel: look for a duel in the way, cool down, create.  *)

Busy(u, v) == \E d \in DuelId :
  /\ duel[d].status \in {"pending", "live"}
  /\ {duel[d].challenger, duel[d].opponent} = {u, v}

HasOpen(u) == \E d \in DuelId \ lapsedAt :
  duel[d].challenger = u /\ duel[d].status = "open"

challenge(r, u, v) ==
  /\ duelReq[r].pc = "idle" /\ u # v
  /\ ~Busy(u, v)
  /\ SetTask(r, [IdleDuel EXCEPT !.pc = "cool", !.op = "challenge", !.user = u, !.vs = v])
  /\ UNCHANGED <<duel, lapsedAt, overAt, cooling, posts, postedFor>>

openDuel(r, u) ==
  /\ duelReq[r].pc = "idle"
  /\ ~HasOpen(u)
  /\ SetTask(r, [IdleDuel EXCEPT !.pc = "cool", !.op = "openDuel", !.user = u])
  /\ UNCHANGED <<duel, lapsedAt, overAt, cooling, posts, postedFor>>

\* A mutant: the key is set, and its old value ignored.
CoolDown_Ignored(r) ==
  LET t == duelReq[r]
  IN /\ t.pc = "cool"
     /\ cooling' = cooling \cup {t.user}
     /\ SetTask(r, [t EXCEPT !.pc = "act"])
     /\ UNCHANGED <<duel, lapsedAt, overAt, posts, postedFor>>

\* The cool-down key is set, or the request is refused.
CoolDown(r) ==
  LET t == duelReq[r]
  IN /\ t.pc = "cool"
     /\ cooling' = cooling \cup {t.user}
     /\ SetTask(r, IF t.user \in cooling THEN IdleDuel ELSE [t EXCEPT !.pc = "act"])
     /\ UNCHANGED <<duel, lapsedAt, overAt, posts, postedFor>>

CreateDuel(r) ==
  LET t == duelReq[r]
      fresh == {d \in DuelId : duel[d].status = "none"}
      id == CHOOSE d \in fresh : \A e \in fresh : d <= e
  IN /\ t.pc = "act" /\ t.op \in {"challenge", "openDuel"}
     /\ fresh # {}
     /\ duel' = [duel EXCEPT ![id] =
          [NoDuel EXCEPT !.status = IF t.op = "challenge" THEN "pending" ELSE "open",
                         !.challenger = t.user, !.opponent = t.vs,
                         !.chat = t.op = "challenge"]]
     /\ SetTask(r, Getting(id))
     /\ UNCHANGED <<lapsedAt, overAt, cooling, posts, postedFor>>

-----------------------------------------------------------------------------
(* join, accept, decline and cancel: find and check, then updateMany.      *)

Mine(op, d, u) ==
  CASE op = "join" -> duel[d].status = "open" /\ d \notin lapsedAt /\ duel[d].challenger # u
    [] op = "accept" -> duel[d].status = "pending" /\ d \notin lapsedAt /\ duel[d].opponent = u
    [] op = "decline" -> duel[d].status = "pending" /\ duel[d].opponent = u
    [] op = "cancel" -> duel[d].status \in Waiting /\ duel[d].challenger = u
    [] OTHER -> FALSE

Find(r, op, d, u) ==
  /\ duelReq[r].pc = "idle"
  /\ Mine(op, d, u)
  /\ SetTask(r, [IdleDuel EXCEPT !.pc = "act", !.op = op, !.id = d, !.user = u])
  /\ UNCHANGED <<duel, lapsedAt, overAt, cooling, posts, postedFor>>

\* A mutant: update where id, without a condition on the row.
StillOpen_Any(op, row) == row.status # "none"

\* The condition of updateMany, on the row as it is now.
StillOpen(op, row) ==
  CASE op = "join" -> row.status = "open" /\ row.opponent = Nobody
    [] op = "accept" -> row.status = "pending"
    [] OTHER -> row.status \in Waiting

Updated(op, row, u) ==
  CASE op = "join" -> [row EXCEPT !.status = "live", !.opponent = u]
    [] op = "accept" -> [row EXCEPT !.status = "live"]
    [] op = "decline" -> [row EXCEPT !.status = "declined"]
    [] OTHER -> [row EXCEPT !.status = "cancelled"]

\* join and accept throw when no row was changed; close goes on to get.
Act(r) ==
  LET t == duelReq[r]
      ok == StillOpen(t.op, duel[t.id])
  IN /\ t.pc = "act" /\ t.op \in {"join", "accept", "decline", "cancel"}
     /\ duel' = IF ok THEN [duel EXCEPT ![t.id] = Updated(t.op, @, t.user)] ELSE duel
     /\ SetTask(r, IF ok /\ t.op = "join" THEN [t EXCEPT !.pc = "attach"]
                   ELSE IF ok \/ t.op \in {"decline", "cancel"} THEN Getting(t.id)
                   ELSE IdleDuel)
     /\ UNCHANGED <<lapsedAt, overAt, cooling, posts, postedFor>>

\* join puts the card into the private chat of the two, if it can be opened.
Attach(r) ==
  LET t == duelReq[r]
  IN /\ t.pc = "attach"
     /\ \/ duel' = [duel EXCEPT ![t.id].chat = TRUE]
        \/ UNCHANGED duel
     /\ SetTask(r, Getting(t.id))
     /\ UNCHANGED <<lapsedAt, overAt, cooling, posts, postedFor>>

-----------------------------------------------------------------------------
(* get and the sweep: a due duel is finalized, an old challenge expires.   *)

Due(d) == duel[d].status = "live" /\ d \in overAt
Lapsed(d) == duel[d].status \in Waiting /\ d \in lapsedAt

Look(r, d) ==
  /\ \/ duelReq[r].pc = "idle" /\ (Due(d) \/ Lapsed(d))
     \/ duelReq[r].pc = "get" /\ duelReq[r].id = d
  /\ SetTask(r, CASE Due(d) -> [Getting(d) EXCEPT !.pc = "finalize", !.chat = duel[d].chat]
                  [] Lapsed(d) -> [Getting(d) EXCEPT !.pc = "expire"]
                  [] OTHER -> IdleDuel)
  /\ UNCHANGED <<duel, lapsedAt, overAt, cooling, posts, postedFor>>

\* A mutant: whoever lost the race posts the result too.
Finalize_LoserPosts(r, cpct, opct) ==
  LET t == duelReq[r]
      row == duel[t.id]
      win == duelWinner(row.challenger, cpct, row.opponent, opct)
  IN /\ t.pc = "finalize"
     /\ duel' = IF row.status = "live"
                THEN [duel EXCEPT ![t.id].status = "done", ![t.id].winner = win] ELSE duel
     /\ SetTask(r, IF t.chat THEN [t EXCEPT !.pc = "post", !.winner = win] ELSE IdleDuel)
     /\ UNCHANGED <<lapsedAt, overAt, cooling, posts, postedFor>>

\* The scores are read from lots, sells and prices that still move.
Finalize(r, cpct, opct) ==
  LET t == duelReq[r]
      row == duel[t.id]
      win == duelWinner(row.challenger, cpct, row.opponent, opct)
  IN /\ t.pc = "finalize"
     /\ IF row.status = "live"
        THEN /\ duel' = [duel EXCEPT ![t.id].status = "done", ![t.id].winner = win]
             /\ SetTask(r, IF t.chat THEN [t EXCEPT !.pc = "post", !.winner = win] ELSE IdleDuel)
        ELSE SetTask(r, IdleDuel) /\ UNCHANGED duel
     /\ UNCHANGED <<lapsedAt, overAt, cooling, posts, postedFor>>

PostResult(r) ==
  LET t == duelReq[r]
  IN /\ t.pc = "post"
     /\ posts' = [posts EXCEPT ![t.id] = @ + 1]
     /\ postedFor' = [postedFor EXCEPT ![t.id] = t.winner]
     /\ SetTask(r, IdleDuel)
     /\ UNCHANGED <<duel, lapsedAt, overAt, cooling>>

Expire(r) ==
  LET d == duelReq[r].id
  IN /\ duelReq[r].pc = "expire"
     /\ duel' = IF duel[d].status \in Waiting THEN [duel EXCEPT ![d].status = "expired"] ELSE duel
     /\ SetTask(r, IdleDuel)
     /\ UNCHANGED <<lapsedAt, overAt, cooling, posts, postedFor>>

\* The request fails, or its process stops.
DuelDies(r) ==
  /\ duelReq[r].pc # "idle"
  /\ SetTask(r, IdleDuel)
  /\ UNCHANGED <<duel, lapsedAt, overAt, cooling, posts, postedFor>>

-----------------------------------------------------------------------------
(* Time. *)

Lapse(d) ==
  /\ duel[d].status \in Waiting /\ d \notin lapsedAt
  /\ lapsedAt' = lapsedAt \cup {d}
  /\ UNCHANGED <<duel, overAt, cooling, duelReq, posts, postedFor>>

TimeIsUp(d) ==
  /\ duel[d].status = "live" /\ d \notin overAt
  /\ overAt' = overAt \cup {d}
  /\ UNCHANGED <<duel, lapsedAt, cooling, duelReq, posts, postedFor>>

\* 20 s; the requests of the user that were under way are done by then.
CooledDown(u) ==
  /\ u \in cooling
  /\ \A r \in DuelRequests : duelReq[r].pc \in {"cool", "act"} => duelReq[r].user # u
  /\ cooling' = cooling \ {u}
  /\ UNCHANGED <<duel, lapsedAt, overAt, duelReq, posts, postedFor>>

Settling(r) == \/ \E cpct, opct \in Score : Finalize(r, cpct, opct)
               \/ Expire(r)

DuelsNext ==
  \/ \E r \in DuelRequests :
       \/ \E u, v \in Duelists : challenge(r, u, v)
       \/ \E u \in Duelists : openDuel(r, u)
       \/ \E op \in {"join", "accept", "decline", "cancel"}, d \in DuelId, u \in Duelists :
            Find(r, op, d, u)
       \/ \E d \in DuelId : Look(r, d)
       \/ CoolDown(r) \/ CreateDuel(r) \/ Act(r) \/ Attach(r)
       \/ Settling(r) \/ PostResult(r) \/ DuelDies(r)
  \/ \E d \in DuelId : Lapse(d) \/ TimeIsUp(d)
  \/ \E u \in Duelists : CooledDown(u)

DuelsSpec == DuelsInit /\ [][DuelsNext]_duelVars

-----------------------------------------------------------------------------
(* Properties. *)

\* However many readers and sweeps settle a duel at once, its result is posted
\* once, and it names the winner on record (finalize, lines 389-414).
ResultPostedOnce ==
  \A d \in DuelId :
    /\ posts[d] <= 1
    /\ posts[d] = 1 => duel[d].status = "done" /\ postedFor[d] = duel[d].winner

\* A stale copy of the row never undoes what another request did: a duel that
\* is over stays as it is, a live one only gets done, and nobody takes the place
\* of an opponent (the conditions of the updateMany calls).
DuelMoves ==
  [][\A d \in DuelId :
       /\ duel[d].status \in Final =>
            duel'[d].status = duel[d].status /\ duel'[d].winner = duel[d].winner
       /\ duel[d].status = "live" => duel'[d].status \in {"live", "done"}
       /\ duel[d].opponent # Nobody => duel'[d].opponent = duel[d].opponent]_duelVars

\* Whatever the scores turn out to be, a live duel is won by the player whose
\* score beats every other score there is, and drawn when there is none
\* (duelWinner, packages/domain/src/duels.ts:68-74).
WinnerHasBestScore ==
  \A d \in DuelId : duel[d].status = "live" =>
    \A pct \in [{duel[d].challenger, duel[d].opponent} -> Score] :
      LET traded == {u \in DOMAIN pct : pct[u] # NoPct}
          best == {u \in traded : \A v \in traded \ {u} : pct[u] > pct[v]}
          win == duelWinner(duel[d].challenger, pct[duel[d].challenger],
                            duel[d].opponent, pct[duel[d].opponent])
      IN best = IF win = Nobody THEN {} ELSE {win}

\* A user never has two pending challenges to the same opponent, although the
\* check and the insert are not atomic: the cool-down key orders them (65-79).
NoDuplicateChallenge ==
  \A d, e \in DuelId :
    /\ d # e
    /\ duel[d].status = "pending" /\ duel[e].status = "pending"
    /\ duel[d].challenger = duel[e].challenger
    => duel[d].opponent # duel[e].opponent

\* Racing requests neither double a challenge nor post a result twice or wrong.
DuelSafety == NoDuplicateChallenge /\ ResultPostedOnce /\ WinnerHasBestScore
=============================================================================
