---------------------------- MODULE SolanaTrades ----------------------------
(***************************************************************************)
(* Solana trades: recording a trade the wallet broadcast                   *)
(* (apps/api/src/solana/solana-transaction.service.ts), co-signing and     *)
(* broadcasting a sponsored one (gas-relayer.service.ts), and the two      *)
(* readers that settle it, the API's refreshStatus and the worker's        *)
(* sweepPendingTransactions (apps/workers/src/solana/solana-sweep.ts).     *)
(* They share nothing but the row, and update it without a condition.      *)
(***************************************************************************)
EXTENDS Integers

CONSTANTS
  SolQuotes,   \* quotes of one user
  Sigs,        \* transaction signatures
  SponsoredSig,\* the signature a sponsored quote's message has
  SolRequests, \* concurrent requests of the API
  SolSweeper,  \* the worker's sweep
  NoSig

ASSUME SolAssumption ==
  SponsoredSig \in [SolQuotes -> Sigs] /\ NoSig \notin Sigs /\ SolSweeper \notin SolRequests

VARIABLES
  solRow,    \* SolanaTradeTransaction, by quote
  oldRow,    \* rows submitted more than solanaDroppedTransactionMinutes ago
  sigState,  \* what became of a signature on the chain
  solTask    \* what each actor remembers

solTradeVars == <<solRow, oldRow, sigState, solTask>>

SolActors == SolRequests \cup {SolSweeper}
SolStatus == {"NONE", "PENDING", "CONFIRMED", "FAILED", "EXPIRED"}
Landed == {"confirmed", "failed"}
SigStates == {"none", "out", "dead"} \cup Landed

SolTasks ==
  [pc: {"idle", "create", "cosign", "rpc", "update"}, quote: SolQuotes \cup {NoSig},
   sig: Sigs \cup {NoSig}, old: BOOLEAN,
   answer: {"null"} \cup Landed]

SolTypeOK ==
  /\ solRow \in [SolQuotes -> [sig: Sigs \cup {NoSig}, status: SolStatus]]
  /\ oldRow \subseteq SolQuotes
  /\ sigState \in [Sigs -> SigStates]
  /\ solTask \in [SolActors -> SolTasks]

IdleSol == [pc |-> "idle", quote |-> NoSig, sig |-> NoSig,
            old |-> FALSE, answer |-> "null"]

SolInit ==
  /\ solRow = [q \in SolQuotes |-> [sig |-> NoSig, status |-> "NONE"]]
  /\ oldRow = {}
  /\ sigState = [s \in Sigs |-> "none"]
  /\ solTask = [a \in SolActors |-> IdleSol]

SolGo(a, t) == solTask' = [solTask EXCEPT ![a] = t]

-----------------------------------------------------------------------------
(* Recording a trade. *)

\* No row for the quote yet; the quote is the user's and has not expired.
submitTransaction(a, q, s) ==
  /\ solTask[a].pc = "idle" /\ solRow[q].status = "NONE"
  /\ SolGo(a, [IdleSol EXCEPT !.pc = "create", !.quote = q, !.sig = s])
  /\ UNCHANGED <<solRow, oldRow, sigState>>

submitSponsoredTransaction(a, q) ==
  /\ solTask[a].pc = "idle" /\ solRow[q].status = "NONE"
  /\ SolGo(a, [IdleSol EXCEPT !.pc = "cosign", !.quote = q, !.sig = SponsoredSig[q]])
  /\ UNCHANGED <<solRow, oldRow, sigState>>

\* Refused (the guard, the simulation, the ceiling, or the network does not take
\* it any more), or co-signed and sent.  Two requests that send the same message
\* send the same transaction.
coSignAndSend(a) ==
  LET s == solTask[a].sig
  IN /\ solTask[a].pc = "cosign"
     /\ \/ SolGo(a, IdleSol) /\ UNCHANGED sigState
        \/ /\ sigState[s] \in {"none", "out"}
           /\ sigState' = [sigState EXCEPT ![s] = "out"]
           /\ SolGo(a, [solTask[a] EXCEPT !.pc = "create"])
     /\ UNCHANGED <<solRow, oldRow>>

\* A mutant: the signature is not unique.
Recordable_AnySig(q, s) == solRow[q].status = "NONE"

\* quoteId and signature are unique: of two creates one fails (P2002) and
\* answers with the other's row, or with an error.
Recordable(q, s) ==
  solRow[q].status = "NONE" /\ \A p \in SolQuotes : solRow[p].sig # s

CreateSolRow(a) ==
  LET t == solTask[a]
  IN /\ t.pc = "create"
     /\ solRow' = IF Recordable(t.quote, t.sig)
                  THEN [solRow EXCEPT ![t.quote] = [sig |-> t.sig, status |-> "PENDING"]]
                  ELSE solRow
     /\ SolGo(a, IdleSol)
     /\ UNCHANGED <<oldRow, sigState>>

-----------------------------------------------------------------------------
(* Settling it: read the row, ask the RPC, write the row. *)

\* getTransaction of the API, or the sweep's batch.
ReadSolRow(a, q) ==
  /\ solTask[a].pc = "idle" /\ solRow[q].status = "PENDING"
  /\ SolGo(a, [IdleSol EXCEPT !.pc = "rpc", !.quote = q, !.sig = solRow[q].sig,
                              !.old = q \in oldRow])
  /\ UNCHANGED <<solRow, oldRow, sigState>>

\* A mutant: old rows are not looked up in the full history either.
Answers_NoHistory(t) ==
  {"null"} \cup (IF sigState[t.sig] \in Landed THEN {sigState[t.sig]} ELSE {})

\* getSignatureStatuses.  A node may not have seen a landed transaction yet; an old
\* row is looked up in the full history, which has it.
Answers(t) ==
  (IF sigState[t.sig] \in Landed THEN {sigState[t.sig]} ELSE {"null"})
    \cup (IF t.old THEN {} ELSE {"null"})

\* A mutant: a transaction without a status stays pending.
getSignatureStatuses_NeverExpires(a) ==
  LET t == solTask[a]
  IN /\ t.pc = "rpc"
     /\ \E ans \in Answers(t) :
          SolGo(a, IF ans = "null" THEN IdleSol
                   ELSE [t EXCEPT !.pc = "update", !.answer = ans])
     /\ UNCHANGED <<solRow, oldRow, sigState>>

getSignatureStatuses(a) ==
  LET t == solTask[a]
  IN /\ t.pc = "rpc"
     /\ \E ans \in Answers(t) :
          SolGo(a, IF ans = "null" /\ ~(a = SolSweeper /\ t.old) THEN IdleSol
                   ELSE [t EXCEPT !.pc = "update", !.answer = ans])
     /\ UNCHANGED <<solRow, oldRow, sigState>>

Verdict(ans) ==
  CASE ans = "confirmed" -> "CONFIRMED" [] ans = "failed" -> "FAILED" [] OTHER -> "EXPIRED"

\* update where id: whatever the row is by now.
UpdateSolRow(a) ==
  LET t == solTask[a]
  IN /\ t.pc = "update"
     /\ solRow' = [solRow EXCEPT ![t.quote].status = Verdict(t.answer)]
     /\ SolGo(a, IdleSol)
     /\ UNCHANGED <<oldRow, sigState>>

\* The RPC or the database fails, or the process stops.
SolFails(a) ==
  /\ solTask[a].pc # "idle"
  /\ SolGo(a, IdleSol)
  /\ UNCHANGED <<solRow, oldRow, sigState>>

-----------------------------------------------------------------------------
(* The chain. *)

WalletSends(s) ==
  /\ sigState[s] = "none"
  /\ sigState' = [sigState EXCEPT ![s] = "out"]
  /\ UNCHANGED <<solRow, oldRow, solTask>>

\* It lands, or its blockhash expires before it does.
SigResolves(s) ==
  /\ \/ sigState[s] = "out" /\ \E end \in Landed \cup {"dead"} : sigState' = [sigState EXCEPT ![s] = end]
     \/ sigState[s] = "none" /\ sigState' = [sigState EXCEPT ![s] = "dead"]
  /\ UNCHANGED <<solRow, oldRow, solTask>>

\* Three minutes after a row is created its blockhash, which is older, is no
\* longer accepted (60-90 s).
RowGetsOld(q) ==
  /\ solRow[q].status # "NONE" /\ q \notin oldRow
  /\ sigState[solRow[q].sig] \in Landed \cup {"dead"}
  /\ oldRow' = oldRow \cup {q}
  /\ UNCHANGED <<solRow, sigState, solTask>>

SettleStep(a) == getSignatureStatuses(a) \/ UpdateSolRow(a)

SolNext ==
  \/ \E a \in SolRequests :
       \/ \E q \in SolQuotes, s \in Sigs : submitTransaction(a, q, s)
       \/ \E q \in SolQuotes : submitSponsoredTransaction(a, q)
       \/ coSignAndSend(a) \/ CreateSolRow(a)
  \/ \E a \in SolActors :
       \/ \E q \in SolQuotes : ReadSolRow(a, q)
       \/ SettleStep(a) \/ SolFails(a)
  \/ \E s \in Sigs : WalletSends(s) \/ SigResolves(s)
  \/ \E q \in SolQuotes : RowGetsOld(q)

SolSpec == SolInit /\ [][SolNext]_solTradeVars

\* Transactions land or die, time passes, and the sweep, which is repeated every
\* few seconds and takes every pending row in turn, does not fail for ever.
SolFairness ==
  /\ \A s \in Sigs : WF_solTradeVars(SigResolves(s))
  /\ \A q \in SolQuotes : /\ WF_solTradeVars(RowGetsOld(q))
                          /\ SF_solTradeVars(ReadSolRow(SolSweeper, q))
                          /\ SF_solTradeVars(UpdateSolRow(SolSweeper) /\ solTask[SolSweeper].quote = q)
  /\ SF_solTradeVars(getSignatureStatuses(SolSweeper))

-----------------------------------------------------------------------------
(* Properties. *)

\* A settled row tells what happened on the chain: EXPIRED ("no funds moved",
\* solana-sweep.ts:78) only if the transaction never landed and never will.
SolStatusIsTrue ==
  \A q \in SolQuotes :
    LET s == sigState[solRow[q].sig]
    IN /\ solRow[q].status = "CONFIRMED" => s = "confirmed"
       /\ solRow[q].status = "FAILED" => s = "failed"
       /\ solRow[q].status = "EXPIRED" => s = "dead"

SolLedger == INSTANCE TradeLedger WITH
  Quotes <- SolQuotes, Hashes <- Sigs, Quoted <- [q \in SolQuotes |-> Sigs], None <- NoSig,
  settled <- {s \in Sigs : sigState[s] = "confirmed"},
  book <- [q \in SolQuotes |-> [hash |-> solRow[q].sig, status |-> solRow[q].status]]

\* Solana trades keep the promise of the trade ledger, with every signature taken
\* for the quoted one: neither reader compares the transaction with the quote.
ImplementsSolLedger == SolLedger!LedgerSpec

\* Every trade nobody looks at any more is settled in the end ("so PENDING doesn't
\* linger forever", solana-sweep.ts:25-26).
SolPendingSettles ==
  SolFairness =>
    \A q \in SolQuotes : solRow[q].status = "PENDING" ~> solRow[q].status # "PENDING"
=============================================================================
