----------------------------- MODULE TradeLedger -----------------------------
(***************************************************************************)
(* What the table of trades promises to everything that reads it (history, *)
(* profit and loss, announcements), without the requests, sweeps and RPC   *)
(* reads that produce it: a trade is opened once, under a hash of its own, *)
(* and is CONFIRMED only by a step taken while that hash is the quoted     *)
(* transaction and settled.  TradeLifecycle implements it.                 *)
(***************************************************************************)
EXTENDS FiniteSets

CONSTANTS Quotes, Hashes,
          Quoted,   \* Quoted[q]: the transactions that are what quote q describes
          None

VARIABLES settled,  \* transactions beyond the reach of a reorganisation
          book      \* book[q]: hash and status of the trade of q

ledgerVars == <<settled, book>>

LedgerInit ==
    /\ settled = {}
    /\ book = [q \in Quotes |-> [hash |-> None, status |-> "NONE"]]

\* Blocks settle transactions, for good.
Settle ==
    /\ \E H \in SUBSET (Hashes \ settled) : H # {} /\ settled' = settled \cup H
    /\ UNCHANGED book

Open(q, h) ==
    /\ book[q].hash = None
    /\ \A q2 \in Quotes : book[q2].hash # h
    /\ book' = [book EXCEPT ![q] = [hash |-> h, status |-> "PENDING"]]
    /\ UNCHANGED settled

Confirm(q) ==
    /\ book[q].hash \in Quoted[q] \cap settled
    /\ book' = [book EXCEPT ![q].status = "CONFIRMED"]
    /\ UNCHANGED settled

\* A trade can be given up at any time, a CONFIRMED one included.
GiveUp(q) ==
    /\ book[q].hash # None
    /\ \E status \in {"FAILED", "EXPIRED"} : book' = [book EXCEPT ![q].status = status]
    /\ UNCHANGED settled

LedgerNext ==
    \/ Settle
    \/ \E q \in Quotes : (\E h \in Hashes : Open(q, h)) \/ Confirm(q) \/ GiveUp(q)

LedgerSpec == LedgerInit /\ [][LedgerNext]_ledgerVars
=============================================================================
