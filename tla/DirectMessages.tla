--------------------------- MODULE DirectMessages ---------------------------
(***************************************************************************)
(* A one-to-one chat (apps/api/src/dm/dm.service.ts): opening it, writing  *)
(* into it as a request or after it was accepted, accepting, blocking and  *)
(* reporting.                                                              *)
(*                                                                         *)
(* Every kind of message (text, coin, card, voice, USDC, duel) goes        *)
(* through write, which reads the conversation once and writes back the    *)
(* status it found.  Times (read, hidden), pushes and the contents of a    *)
(* message are left out, and so are groups.                                *)
(***************************************************************************)
EXTENDS Naturals

CONSTANTS
  DmUsers,            \* the two users
  DmRequests,         \* requests of theirs that can be under way at a time
  RequestMessagesMax, \* DM_LIMITS.requestMessagesMax
  MaxDm,              \* bound on the messages of a user
  SlowWrites,         \* may a write take longer than the cooldown (700 ms)?
  NoUser

ASSUME DmAssumption ==
  /\ NoUser \notin DmUsers /\ SlowWrites \in BOOLEAN
  /\ RequestMessagesMax \in Nat /\ MaxDm \in Nat

VARIABLES
  chat,      \* the row of dm_conversations, status "none" when there is none
  blocks,    \* who blocks the other
  sent,      \* messages by user
  cooling,   \* users with a cooldown key in Redis
  dm,        \* what each request has read
  agreed,    \* history: they followed each other, or the other side accepted or replied
  unwanted   \* history: a message landed although its sender was blocked all along

dmVars == <<chat, blocks, sent, cooling, dm, agreed, unwanted>>

ChatRows == [status: {"none", "request", "active"}, requester: DmUsers \cup {NoUser}]
DmRest == [pc |-> "idle", me |-> NoUser, row |-> [status |-> "none", requester |-> NoUser],
           blocked |-> FALSE]

DmTypeOK ==
  /\ chat \in ChatRows /\ blocks \subseteq DmUsers /\ cooling \subseteq DmUsers
  /\ sent \in [DmUsers -> 0..MaxDm]
  /\ dm \in [DmRequests -> [pc: {"idle", "create", "access", "cool", "count", "insert", "touch",
                                 "accept"},
                            me: DmUsers \cup {NoUser}, row: ChatRows, blocked: BOOLEAN]]
  /\ agreed \in BOOLEAN /\ unwanted \in BOOLEAN

DmInit ==
  /\ chat = DmRest.row /\ blocks = {} /\ cooling = {}
  /\ sent = [u \in DmUsers |-> 0]
  /\ dm = [r \in DmRequests |-> DmRest]
  /\ agreed = FALSE /\ unwanted = FALSE

DmBegins(r, pc, u, row) ==
  /\ dm[r] = DmRest
  /\ dm' = [dm EXCEPT ![r] = [pc |-> pc, me |-> u, row |-> row, blocked |-> blocks # {}]]
DmGoes(r, pc) == dm' = [dm EXCEPT ![r].pc = pc]
DmEnds(r) == dm' = [dm EXCEPT ![r] = DmRest]

\* A mutant: only whom I have blocked.
blockedEitherWay_Mine(u) == u \in blocks

blockedEitherWay(u) == blocks # {}

-----------------------------------------------------------------------------
\* open, up to the insert, when there is no row yet; with one it only reads.
OpenChat(r, u) ==
  /\ ~blockedEitherWay(u) /\ chat.status = "none"
  /\ \E status \in {"request", "active"} :
       DmBegins(r, "create", u, [status |-> status, requester |-> u])
  /\ UNCHANGED <<chat, blocks, sent, cooling, agreed, unwanted>>

\* open: the insert, or the other's row when that was first (P2002).
CreateChat(r) ==
  /\ dm[r].pc = "create" /\ DmEnds(r)
  /\ IF chat.status = "none"
     THEN chat' = dm[r].row /\ agreed' = (dm[r].row.status = "active")
     ELSE UNCHANGED <<chat, agreed>>
  /\ UNCHANGED <<blocks, sent, cooling, unwanted>>

\* write: access.
DmWrite(r, u) ==
  /\ chat.status # "none" /\ DmBegins(r, "access", u, chat)
  /\ UNCHANGED <<chat, blocks, sent, cooling, agreed, unwanted>>

CheckBlocks(r) ==
  /\ dm[r].pc = "access"
  /\ IF blockedEitherWay(dm[r].me) THEN DmEnds(r) ELSE DmGoes(r, "cool")
  /\ UNCHANGED <<chat, blocks, sent, cooling, agreed, unwanted>>

\* A mutant: the key does not stop the next message.
TakeCooldown_Ignored(r) ==
  /\ dm[r].pc = "cool" /\ DmGoes(r, "count")
  /\ cooling' = cooling \cup {dm[r].me}
  /\ UNCHANGED <<chat, blocks, sent, agreed, unwanted>>

\* SET kamby:dm:cool NX.
TakeCooldown(r) ==
  /\ dm[r].pc = "cool"
  /\ IF dm[r].me \in cooling THEN DmEnds(r) ELSE DmGoes(r, "count")
  /\ cooling' = cooling \cup {dm[r].me}
  /\ UNCHANGED <<chat, blocks, sent, agreed, unwanted>>

\* A mutant: any message accepts the request.
StatusAfter_Any(me, row) == "active"

\* Replying accepts the request; otherwise the status is the one that was read.
StatusAfter(me, row) == IF row.requester = me THEN row.status ELSE "active"

\* The limits on a request: so many messages, and so many new chats a day.
CheckRequest(r) ==
  LET me == dm[r].me
      mine == dm[r].row.status = "request" /\ dm[r].row.requester = me
  IN /\ dm[r].pc = "count"
     /\ \/ /\ mine => sent[me] < RequestMessagesMax
           /\ dm' = [dm EXCEPT ![r].pc = "insert", ![r].row.status = StatusAfter(me, dm[r].row)]
        \/ mine /\ (sent[me] >= RequestMessagesMax \/ sent[me] = 0) /\ DmEnds(r)
     /\ UNCHANGED <<chat, blocks, sent, cooling, agreed, unwanted>>

InsertMessage(r) ==
  /\ dm[r].pc = "insert" /\ sent[dm[r].me] < MaxDm
  /\ sent' = [sent EXCEPT ![dm[r].me] = @ + 1]
  /\ unwanted' = (unwanted \/ dm[r].blocked)
  /\ DmGoes(r, "touch")
  /\ UNCHANGED <<chat, blocks, cooling, agreed>>

\* lastMessageAt and the status, whatever it is by now.
TouchChat(r) ==
  /\ dm[r].pc = "touch" /\ DmEnds(r)
  /\ chat' = [chat EXCEPT !.status = dm[r].row.status]
  /\ agreed' = (agreed \/ dm[r].me # chat.requester)
  /\ UNCHANGED <<blocks, sent, cooling, unwanted>>

\* accept: access, then the update.
AcceptChat(r, u) ==
  /\ chat.status = "request" /\ chat.requester # u /\ DmBegins(r, "accept", u, chat)
  /\ UNCHANGED <<chat, blocks, sent, cooling, agreed, unwanted>>

AcceptUpdate(r) ==
  /\ dm[r].pc = "accept" /\ DmEnds(r)
  /\ chat' = [chat EXCEPT !.status = "active"] /\ agreed' = TRUE
  /\ UNCHANGED <<blocks, sent, cooling, unwanted>>

\* block, also by report, and unblock.
BlockUser(u) ==
  /\ chat.status # "none" /\ u \notin blocks /\ blocks' = blocks \cup {u}
  /\ UNCHANGED <<chat, sent, cooling, dm, agreed, unwanted>>

UnblockUser(u) ==
  /\ u \in blocks /\ blocks' = blocks \ {u}
  /\ dm' = [r \in DmRequests |-> [dm[r] EXCEPT !.blocked = @ /\ blocks' # {}]]
  /\ UNCHANGED <<chat, sent, cooling, agreed, unwanted>>

CooldownEnds(u) ==
  /\ u \in cooling /\ cooling' = cooling \ {u}
  /\ SlowWrites \/ \A r \in DmRequests : dm[r].me = u => dm[r].pc \notin {"count", "insert"}
  /\ UNCHANGED <<chat, blocks, sent, dm, agreed, unwanted>>

\* A request that is cut off.
CutOff(r) ==
  /\ dm[r] # DmRest /\ DmEnds(r)
  /\ UNCHANGED <<chat, blocks, sent, cooling, agreed, unwanted>>

DmNext ==
  \/ \E r \in DmRequests, u \in DmUsers : OpenChat(r, u) \/ DmWrite(r, u) \/ AcceptChat(r, u)
  \/ \E r \in DmRequests :
       \/ CreateChat(r) \/ CheckBlocks(r) \/ TakeCooldown(r) \/ CheckRequest(r)
       \/ InsertMessage(r) \/ TouchChat(r) \/ AcceptUpdate(r) \/ CutOff(r)
  \/ \E u \in DmUsers : BlockUser(u) \/ UnblockUser(u) \/ CooldownEnds(u)

DmSpec == DmInit /\ [][DmNext]_dmVars

-----------------------------------------------------------------------------
\* Who asks for a chat writes no more than the limit into it before the other side agrees,
\* however many requests it sends at once: the count is not atomic with the insert, only the
\* cooldown, taken before it, keeps two writes of a user apart.
RequestCapped ==
  chat.status # "none" /\ ~agreed => sent[chat.requester] <= RequestMessagesMax

\* A chat is never active by the requester's doing alone, although every write puts back a
\* status it read earlier.
ActiveMeansAgreed == chat.status = "active" => agreed

\* A write that starts while either side blocks the other, and is blocked all along, adds no
\* message.
BlockHolds == ~unwanted

\* The three together, for the run of the services.
DmSafety == RequestCapped /\ ActiveMeansAgreed /\ BlockHolds

\* An accepted chat stays accepted.  It fails: a message of the requester that read the row
\* before puts the request back.
AcceptedStays == [][chat.status = "active" => chat'.status = "active"]_dmVars
=============================================================================
