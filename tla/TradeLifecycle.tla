--------------------------- MODULE TradeLifecycle ---------------------------
(***************************************************************************)
(* The life of an EVM trade: how a transaction hash a wallet reports is    *)
(* recorded against a reviewed quote, and how the recorded swap, and the   *)
(* separate USDC fee transfer that may accompany it, are moved out of      *)
(* PENDING from what the chain says.                                       *)
(*                                                                         *)
(*   apps/api/src/trading/transaction.service.ts     request handlers      *)
(*   apps/workers/src/trading/sweep.ts               background sweep      *)
(*   packages/domain/src/trading.ts                  integrity gate        *)
(*   packages/chain-adapters/src/evm-adapter.ts      the three chain reads *)
(*                                                                         *)
(* Every await of the code is a step boundary: a handler reads the row     *)
(* once, asks the RPC up to three questions, and then writes by row id,    *)
(* while other handlers, the sweep and the chain move in between.  The     *)
(* requests the code rejects without touching the database (unknown quote, *)
(* another user's quote or row, a malformed hash) are not taken at all.    *)
(***************************************************************************)
EXTENDS Naturals, FiniteSets

CONSTANTS
    Quotes,            \* persisted quotes; a trade row is identified by its quote
    Hashes,            \* well-formed transaction hashes on this chain
    Handlers,          \* concurrent API requests
    Worker,            \* the sweep loop of apps/workers
    Addresses,         \* account addresses
    Calls,             \* {to, value, data} triples
    Sender,            \* Sender[h]: the account that signed h
    Call,              \* Call[h]: what h calls
    Wallet,            \* Wallet[q]: quote.walletAddress
    UnsignedTx,        \* UnsignedTx[q]: quote.unsignedTx
    FeeUnsignedTx,     \* FeeUnsignedTx[q]: quote.feeUnsignedTx, or None
    MinConfirmations,  \* TRADING_DEFAULTS.minConfirmations
    ReorgDepth,        \* the deepest reorganisation the chain performs, in blocks
    RpcHiccups,        \* may a read fail although the node has the answer?
    SplitDepthRead,    \* may blocks arrive between the two requests of getConfirmationCount?
    None

ASSUME NoneAssumption == None \notin Quotes \cup Hashes \cup Calls
ASSUME WorkerAssumption == Worker \notin Handlers
ASSUME ContentAssumption ==
    /\ Sender \in [Hashes -> Addresses]
    /\ Call \in [Hashes -> Calls]
    /\ Wallet \in [Quotes -> Addresses]
    /\ UnsignedTx \in [Quotes -> Calls]
    /\ FeeUnsignedTx \in [Quotes -> Calls \cup {None}]
ASSUME DepthAssumption ==
    /\ MinConfirmations \in Nat
    /\ ReorgDepth \in 0..MinConfirmations
    /\ RpcHiccups \in BOOLEAN
    /\ SplitDepthRead \in BOOLEAN

VARIABLES
    chain,      \* chain[h]: the receipt of h on the canonical chain, and its depth
    row,        \* row[q][leg]: hash and status of the two legs of a trade
    aged,       \* submissions older than pendingTransactionTimeoutMinutes
    expired,    \* quotes past their expiresAt
    verified,   \* wallets verified as belonging to the account of their quotes
    task,       \* task[p]: where process p is between two awaits
    batch       \* what the running sweep query has returned and not yet handled

vars == <<chain, row, aged, expired, verified, task, batch>>

-----------------------------------------------------------------------------
(* Types *)

Processes == Handlers \cup {Worker}
Legs == {"swap", "fee"}
TradeStatus == {"PENDING", "CONFIRMED", "FAILED", "EXPIRED"}
Receipt == {"none", "success", "reverted"}

\* status "NONE" is the absent row of the swap leg, the null feeStatus of the other
Leg == [hash : Hashes \cup {None}, status : TradeStatus \cup {"NONE"}]
NoLeg == [hash |-> None, status |-> "NONE"]

\* What a process remembers across an await: the leg and the hash it read, how deep the
\* block of the receipt it saw is by now, the status it is about to write, and the fee
\* leg of the row it read.
PC == {"idle", "submitDetails", "create", "feeDetails", "feeUpdate",
       "receipt", "details", "confirmations", "head", "write"}
Task == [pc : PC, quote : Quotes \cup {None}, leg : Legs, hash : Hashes \cup {None},
         depth : 0..MinConfirmations, verdict : TradeStatus, fee : Leg]
Idle == [pc |-> "idle", quote |-> None, leg |-> "swap", hash |-> None,
         depth |-> 0, verdict |-> "PENDING", fee |-> NoLeg]

TypeOK ==
    /\ chain \in [Hashes -> [receipt : Receipt, depth : 0..MinConfirmations]]
    /\ row \in [Quotes -> [Legs -> Leg]]
    /\ aged \subseteq Quotes \X Legs \X Hashes
    /\ expired \subseteq Quotes
    /\ verified \subseteq Addresses
    /\ task \in [Processes -> Task]
    /\ batch \subseteq Quotes \X Legs \X Hashes

-----------------------------------------------------------------------------
(* The integrity gate and the chain reads *)

ExpectedCall(q, leg) == IF leg = "swap" THEN UnsignedTx[q] ELSE FeeUnsignedTx[q]

\* transactionMatchesQuote: sender, destination, value and calldata all agree.
transactionMatchesQuote(h, q, leg) ==
    /\ Sender[h] = Wallet[q]
    /\ Call[h] = ExpectedCall(q, leg)

\* getTransactionReceiptStatus: "none" when there is no receipt, or when the read failed.
getTransactionReceiptStatus(h) ==
    {chain[h].receipt} \cup (IF RpcHiccups THEN {"none"} ELSE {})

\* getTransactionDetails finds the transaction: certain for a mined one unless the
\* read fails, possible for one that is at most in this node's mempool.
getTransactionDetails(h) ==
    IF chain[h].receipt = "none" THEN {TRUE, FALSE}
    ELSE {TRUE} \cup (IF RpcHiccups THEN {FALSE} ELSE {})

\* Mutant: one confirmation short.
getConfirmationCountShort(depth) ==
    {depth + 1 >= MinConfirmations} \cup (IF RpcHiccups THEN {FALSE} ELSE {})

\* getConfirmationCount >= minConfirmations, for a receipt whose block is `depth' below
\* the head.  A failed read is a "no".
getConfirmationCount(depth) ==
    {depth >= MinConfirmations} \cup (IF RpcHiccups THEN {FALSE} ELSE {})

-----------------------------------------------------------------------------
(* Initial state: reviewed quotes, nothing recorded, nothing mined. *)

Init ==
    /\ chain = [h \in Hashes |-> [receipt |-> "none", depth |-> 0]]
    /\ row = [q \in Quotes |-> [leg \in Legs |-> NoLeg]]
    /\ aged = {}
    /\ expired = {}
    /\ verified = {Wallet[q] : q \in Quotes}
    /\ task = [p \in Processes |-> Idle]
    /\ batch = {}

-----------------------------------------------------------------------------
(* submitTransaction *)

Submitting(pc, q, leg, h) ==
    [pc |-> pc, quote |-> q, leg |-> leg, hash |-> h,
     depth |-> 0, verdict |-> "PENDING", fee |-> NoLeg]

\* Up to the chain read: no row for this quote yet, the quote is fresh, the wallet is
\* still verified as the caller's.
SubmitTransaction(p, q, h) ==
    /\ task[p] = Idle
    /\ row[q]["swap"].hash = None
    /\ q \notin expired
    /\ Wallet[q] \in verified
    /\ task' = [task EXCEPT ![p] = Submitting("submitDetails", q, "swap", h)]
    /\ UNCHANGED <<chain, row, aged, expired, verified, batch>>

\* A transaction the node can see must be the quoted one; one it cannot see passes.
SubmitDetails(p) ==
    /\ task[p].pc = "submitDetails"
    /\ \E visible \in getTransactionDetails(task[p].hash) :
          task' = [task EXCEPT ![p] =
                     IF visible => transactionMatchesQuote(@.hash, @.quote, "swap")
                     THEN [@ EXCEPT !.pc = "create"]
                     ELSE Idle]
    /\ UNCHANGED <<chain, row, aged, expired, verified, batch>>

HashRecorded(h, leg) == \E q \in Quotes : row[q][leg].hash = h

\* Mutant: an upsert on quoteId instead of an insert.
CreateRowUpsert(p) ==
    /\ task[p].pc = "create"
    /\ row' = [row EXCEPT ![task[p].quote]["swap"] = [hash |-> task[p].hash, status |-> "PENDING"]]
    /\ task' = [task EXCEPT ![p] = Idle]
    /\ UNCHANGED <<chain, aged, expired, verified, batch>>

\* Mutant: no unique key on (chainId, txHash).
CreateRowNoHashKey(p) ==
    /\ task[p].pc = "create"
    /\ row[task[p].quote]["swap"].hash = None
    /\ row' = [row EXCEPT ![task[p].quote]["swap"] = [hash |-> task[p].hash, status |-> "PENDING"]]
    /\ task' = [task EXCEPT ![p] = Idle]
    /\ UNCHANGED <<chain, aged, expired, verified, batch>>

\* create(): both unique keys, quoteId and (chainId, txHash), are free or the insert
\* fails with P2002, and the row that has the hash, or the error, is returned.
CreateRow(p) ==
    /\ task[p].pc = "create"
    /\ LET q == task[p].quote
           h == task[p].hash
       IN IF row[q]["swap"].hash = None /\ ~HashRecorded(h, "swap")
          THEN row' = [row EXCEPT ![q]["swap"] = [hash |-> h, status |-> "PENDING"]]
          ELSE UNCHANGED row
    /\ task' = [task EXCEPT ![p] = Idle]
    /\ UNCHANGED <<chain, aged, expired, verified, batch>>

-----------------------------------------------------------------------------
(* submitFeeTransaction *)

\* Up to the chain read: the row exists and has no fee hash yet, the quote has a fee
\* transfer, the wallet is still verified.
SubmitFeeTransaction(p, q, h) ==
    /\ task[p] = Idle
    /\ row[q]["swap"].hash # None
    /\ row[q]["fee"].hash = None
    /\ FeeUnsignedTx[q] # None
    /\ Wallet[q] \in verified
    /\ task' = [task EXCEPT ![p] = Submitting("feeDetails", q, "fee", h)]
    /\ UNCHANGED <<chain, row, aged, expired, verified, batch>>

FeeDetails(p) ==
    /\ task[p].pc = "feeDetails"
    /\ \E visible \in getTransactionDetails(task[p].hash) :
          task' = [task EXCEPT ![p] =
                     IF visible => transactionMatchesQuote(@.hash, @.quote, "fee")
                     THEN [@ EXCEPT !.pc = "feeUpdate"]
                     ELSE Idle]
    /\ UNCHANGED <<chain, row, aged, expired, verified, batch>>

\* update() by id alone: it replaces whatever fee hash the row has by now, unless
\* (chainId, feeTxHash) is taken by another row.  feeSubmittedAt restarts.
FeeUpdate(p) ==
    /\ task[p].pc = "feeUpdate"
    /\ LET q == task[p].quote
           h == task[p].hash
       IN IF \A q2 \in Quotes \ {q} : row[q2]["fee"].hash # h
          THEN /\ row' = [row EXCEPT ![q]["fee"] = [hash |-> h, status |-> "PENDING"]]
               /\ aged' = aged \ {<<q, "fee", h>>}
          ELSE UNCHANGED <<row, aged>>
    /\ task' = [task EXCEPT ![p] = Idle]
    /\ UNCHANGED <<chain, expired, verified, batch>>

-----------------------------------------------------------------------------
(* Refreshing a leg: refreshStatus, refreshFeeStatus and the two sweep loops  *)
(* run the same checks on a row read earlier, and write by id alone.          *)

Refreshing(q, leg, h, fee) ==
    [pc |-> "receipt", quote |-> q, leg |-> leg, hash |-> h,
     depth |-> 0, verdict |-> "PENDING", fee |-> fee]

\* refreshFeeStatus is reached with feeStatus PENDING, and returns at once without a
\* recorded fee hash or a fee transfer to check it against.
FeeRefreshable(q, fee) == fee.status = "PENDING" /\ fee.hash # None /\ FeeUnsignedTx[q] # None

\* getTransaction goes on with the fee leg of the row it holds, or returns.
FeeRefresh(q, fee) == IF FeeRefreshable(q, fee) THEN Refreshing(q, "fee", fee.hash, NoLeg) ELSE Idle

\* What t does when its leg is settled or left PENDING, holding `fee' of its row.  The
\* sweep holds no fee leg: its fee loop runs on a query of its own.
AfterLeg(t, fee) == IF t.leg = "swap" THEN FeeRefresh(t.quote, fee) ELSE Idle

\* GET /trade/transactions/:id
GetTransaction(p, q) ==
    /\ task[p] = Idle
    /\ LET swap == row[q]["swap"]
           fee == row[q]["fee"]
       IN /\ swap.hash # None
          /\ task' = [task EXCEPT ![p] =
                        IF swap.status = "PENDING" THEN Refreshing(q, "swap", swap.hash, fee)
                        ELSE FeeRefresh(q, fee)]
    /\ UNCHANGED <<chain, row, aged, expired, verified, batch>>

\* findMany of the PENDING rows.  runSweep starts no query before the last one is
\* worked off; the batch bound of 50 rows lies above every instance checked.
PendingRows(leg) ==
    {<<q, leg, row[q][leg].hash>> : q \in {x \in Quotes : /\ row[x][leg].status = "PENDING"
                                                          /\ row[x][leg].hash # None
                                                          /\ ExpectedCall(x, leg) # None}}

SweepQuery(leg) ==
    /\ task[Worker] = Idle
    /\ batch = {}
    /\ batch' = PendingRows(leg)
    /\ UNCHANGED <<chain, row, aged, expired, verified, task>>

SweepRow ==
    /\ task[Worker] = Idle
    /\ \E b \in batch :
          /\ batch' = batch \ {b}
          /\ task' = [task EXCEPT ![Worker] = Refreshing(b[1], b[2], b[3], NoLeg)]
    /\ UNCHANGED <<chain, row, aged, expired, verified>>

\* Mutant: no timeout.
ReadReceiptNoTimeout(p) ==
    /\ task[p].pc = "receipt"
    /\ \E receipt \in getTransactionReceiptStatus(task[p].hash) :
          task' = [task EXCEPT ![p] =
                     CASE receipt = "success" -> [@ EXCEPT !.pc = "details"]
                       [] receipt = "reverted" -> [@ EXCEPT !.pc = "write", !.verdict = "FAILED"]
                       [] receipt = "none" -> AfterLeg(@, @.fee)]
    /\ UNCHANGED <<chain, row, aged, expired, verified, batch>>

\* The first read: a revert fails the leg, no receipt expires an old submission.
ReadReceipt(p) ==
    /\ task[p].pc = "receipt"
    /\ \E receipt \in getTransactionReceiptStatus(task[p].hash) :
          task' = [task EXCEPT ![p] =
                     CASE receipt = "success" -> [@ EXCEPT !.pc = "details"]
                       [] receipt = "reverted" -> [@ EXCEPT !.pc = "write", !.verdict = "FAILED"]
                       [] receipt = "none" ->
                            IF <<@.quote, @.leg, @.hash>> \in aged
                            THEN [@ EXCEPT !.pc = "write", !.verdict = "EXPIRED"]
                            ELSE AfterLeg(@, @.fee)]
    /\ UNCHANGED <<chain, row, aged, expired, verified, batch>>

\* Mutant: a transaction the second read did not find is taken for the quoted one.
ReadDetailsTrusting(p) ==
    /\ task[p].pc = "details"
    /\ \E found \in getTransactionDetails(task[p].hash) :
          task' = [task EXCEPT ![p] =
                     IF found => transactionMatchesQuote(@.hash, @.quote, @.leg)
                     THEN [@ EXCEPT !.pc = "confirmations"]
                     ELSE [@ EXCEPT !.pc = "write", !.verdict = "FAILED"]]
    /\ UNCHANGED <<chain, row, aged, expired, verified, batch>>

\* Mutant: the fee transfer is held against the swap's unsigned transaction.
ReadDetailsOneGate(p) ==
    /\ task[p].pc = "details"
    /\ \E found \in getTransactionDetails(task[p].hash) :
          task' = [task EXCEPT ![p] =
                     IF found /\ transactionMatchesQuote(@.hash, @.quote, "swap")
                     THEN [@ EXCEPT !.pc = "confirmations"]
                     ELSE [@ EXCEPT !.pc = "write", !.verdict = "FAILED"]]
    /\ UNCHANGED <<chain, row, aged, expired, verified, batch>>

\* The second read: a transaction that is not the quoted one, or that this read did
\* not find, fails the leg.
ReadDetails(p) ==
    /\ task[p].pc = "details"
    /\ \E found \in getTransactionDetails(task[p].hash) :
          task' = [task EXCEPT ![p] =
                     IF found /\ transactionMatchesQuote(@.hash, @.quote, @.leg)
                     THEN [@ EXCEPT !.pc = "confirmations"]
                     ELSE [@ EXCEPT !.pc = "write", !.verdict = "FAILED"]]
    /\ UNCHANGED <<chain, row, aged, expired, verified, batch>>

\* Mutant: too shallow counts as failed.
JudgeDepthHasty(t, deep) ==
    [t EXCEPT !.pc = "write", !.verdict = IF deep THEN "CONFIRMED" ELSE "FAILED"]

\* Too shallow leaves the leg PENDING for the next check.
JudgeDepth(t, deep) ==
    IF deep THEN [t EXCEPT !.pc = "write", !.verdict = "CONFIRMED"] ELSE AfterLeg(t, t.fee)

\* The third read asks for the receipt again, whose status it does not look at, and for
\* the head of the chain: two requests in parallel.  A receipt that is gone is a "no".
ReadConfirmations(p) ==
    /\ task[p].pc = "confirmations"
    /\ LET tx == chain[task[p].hash]
       IN IF tx.receipt = "none" THEN task' = [task EXCEPT ![p] = JudgeDepth(@, FALSE)]
          ELSE IF SplitDepthRead THEN task' = [task EXCEPT ![p].pc = "head", ![p].depth = tx.depth]
          ELSE \E deep \in getConfirmationCount(tx.depth) : task' = [task EXCEPT ![p] = JudgeDepth(@, deep)]
    /\ UNCHANGED <<chain, row, aged, expired, verified, batch>>

\* The head is answered later than the receipt: blocks mined in between count.
ReadHead(p) ==
    /\ task[p].pc = "head"
    /\ \E deep \in getConfirmationCount(task[p].depth) : task' = [task EXCEPT ![p] = JudgeDepth(@, deep)]
    /\ UNCHANGED <<chain, row, aged, expired, verified, batch>>

\* update() where id: whatever the status is by now.  The API goes on with the row the
\* update returned.
WriteStatus(p) ==
    /\ task[p].pc = "write"
    /\ LET t == task[p]
       IN /\ row' = [row EXCEPT ![t.quote][t.leg].status = t.verdict]
          /\ task' = [task EXCEPT ![p] =
                        AfterLeg(t, IF p = Worker THEN NoLeg ELSE row[t.quote]["fee"])]
    /\ UNCHANGED <<chain, aged, expired, verified, batch>>

\* A request or a sweep that dies between two awaits: a thrown database error, a
\* restart.  The sweep's catch keeps the rest of its batch; a restart drops it.
Abort(p) ==
    /\ task[p] # Idle
    /\ task' = [task EXCEPT ![p] = Idle]
    /\ batch' \in IF p = Worker THEN {batch, {}} ELSE {batch}
    /\ UNCHANGED <<chain, row, aged, expired, verified>>

-----------------------------------------------------------------------------
(* The environment: clocks, wallets and the chain. *)

\* A recorded submission passes pendingTransactionTimeoutMinutes.
AgeSubmission(q, leg) ==
    /\ row[q][leg].hash # None
    /\ <<q, leg, row[q][leg].hash>> \notin aged
    /\ aged' = aged \cup {<<q, leg, row[q][leg].hash>>}
    /\ UNCHANGED <<chain, row, expired, verified, task, batch>>

ExpireQuote(q) ==
    /\ q \notin expired
    /\ expired' = expired \cup {q}
    /\ UNCHANGED <<chain, row, aged, verified, task, batch>>

\* unlinkWallet: userId and verifiedAt are cleared.
UnlinkWallet(a) ==
    /\ a \in verified
    /\ verified' = verified \ {a}
    /\ UNCHANGED <<chain, row, aged, expired, task, batch>>

\* A transaction is included in the newest block, with either outcome.
Mine(h) ==
    /\ chain[h].receipt = "none"
    /\ \E receipt \in {"success", "reverted"} :
          chain' = [chain EXCEPT ![h] = [receipt |-> receipt, depth |-> 0]]
    /\ UNCHANGED <<row, aged, expired, verified, task, batch>>

\* One more block on top, of the transactions and of the receipts being looked at;
\* depth is counted up to MinConfirmations.
Deeper(depth) == IF depth < MinConfirmations THEN depth + 1 ELSE depth
NewBlock ==
    /\ \/ \E h \in Hashes : chain[h].receipt # "none" /\ chain[h].depth < MinConfirmations
       \/ \E p \in Processes : task[p].pc = "head" /\ task[p].depth < MinConfirmations
    /\ chain' = [h \in Hashes |-> IF chain[h].receipt = "none" THEN chain[h]
                                  ELSE [chain[h] EXCEPT !.depth = Deeper(@)]]
    /\ task' = [p \in Processes |-> IF task[p].pc # "head" THEN task[p]
                                    ELSE [task[p] EXCEPT !.depth = Deeper(@)]]
    /\ UNCHANGED <<row, aged, expired, verified, batch>>

\* The newest `blocks' blocks are replaced and their transactions return to the pool,
\* to be included again, possibly with another outcome.
Reorg(blocks) ==
    /\ \E h \in Hashes : chain[h].receipt # "none" /\ chain[h].depth < blocks
    /\ chain' = [h \in Hashes |->
                   IF chain[h].receipt # "none" /\ chain[h].depth < blocks
                   THEN [receipt |-> "none", depth |-> 0] ELSE chain[h]]
    /\ UNCHANGED <<row, aged, expired, verified, task, batch>>

-----------------------------------------------------------------------------
HandlerStep(p) ==
    \/ \E q \in Quotes, h \in Hashes : SubmitTransaction(p, q, h) \/ SubmitFeeTransaction(p, q, h)
    \/ \E q \in Quotes : GetTransaction(p, q)
    \/ SubmitDetails(p) \/ CreateRow(p) \/ FeeDetails(p) \/ FeeUpdate(p)

RefreshStep(p) ==
    ReadReceipt(p) \/ ReadDetails(p) \/ ReadConfirmations(p) \/ ReadHead(p) \/ WriteStatus(p)

SweepStep == (\E leg \in Legs : SweepQuery(leg)) \/ SweepRow

Environment ==
    \/ \E q \in Quotes : ExpireQuote(q) \/ (\E leg \in Legs : AgeSubmission(q, leg))
    \/ \E a \in Addresses : UnlinkWallet(a)
    \/ \E h \in Hashes : Mine(h)
    \/ NewBlock
    \/ \E blocks \in 1..ReorgDepth : Reorg(blocks)

Next ==
    \/ \E p \in Handlers : HandlerStep(p)
    \/ SweepStep
    \/ \E p \in Processes : RefreshStep(p) \/ Abort(p)
    \/ Environment

Spec == Init /\ [][Next]_vars

\* The worker's ticker keeps running, so a sweep query that can start does, and a step of
\* the sweep that stays possible, or keeps becoming possible after restarts, is taken.
\* Blocks keep coming and time passes.  Nothing is assumed of users, of their requests or
\* of a transaction ever being mined.
Fairness ==
    /\ WF_vars(SweepQuery("swap"))
    /\ WF_vars(SweepRow)
    /\ SF_vars(ReadReceipt(Worker))
    /\ SF_vars(ReadDetails(Worker))
    /\ SF_vars(ReadConfirmations(Worker))
    /\ SF_vars(ReadHead(Worker))
    /\ SF_vars(WriteStatus(Worker))
    /\ WF_vars(NewBlock)
    /\ \A q \in Quotes : WF_vars(AgeSubmission(q, "swap"))

FairSpec == Spec /\ Fairness

-----------------------------------------------------------------------------
(* Properties *)

\* The transaction-integrity guarantee (docs/TRADING.md#transaction-integrity): a swap is
\* CONFIRMED only when the recorded hash is the very transaction the quote described,
\* although submission accepts any hash the node cannot see yet.
SwapIntegrity ==
    \A q \in Quotes : row[q]["swap"].status = "CONFIRMED"
                         => transactionMatchesQuote(row[q]["swap"].hash, q, "swap")

\* The reorg gate (minConfirmations): a CONFIRMED swap is mined, at a depth that no
\* reorganisation reaches any more, even though the depth is read before the write.  It
\* rests on getConfirmationCount seeing receipt and head of one and the same chain.
Settled(h) == chain[h].receipt # "none" /\ chain[h].depth >= MinConfirmations
ConfirmedIsSettled ==
    \A q \in Quotes : row[q]["swap"].status = "CONFIRMED" => Settled(row[q]["swap"].hash)

\* Idempotency (docs/TRADING.md#idempotency): concurrent submissions of one hash converge
\* on one row, so no on-chain transaction stands for two trades, and none for two fees.
OneRowPerTransaction ==
    \A q1, q2 \in Quotes, leg \in Legs :
        row[q1][leg].hash = row[q2][leg].hash /\ row[q1][leg].hash # None => q1 = q2

\* What the row was opened for cannot be swapped out: once recorded, the hash of a trade
\* never changes, whoever resubmits or refreshes concurrently.
SwapHashImmutable ==
    [][\A q \in Quotes : row[q]["swap"].hash # None => row'[q]["swap"].hash = row[q]["swap"].hash]_vars

\* A swap is CONFIRMED only when it succeeded on-chain (docs/TRADING.md#transaction-lifecycle).
\* The receipt's status is read before the details and the depth.
ConfirmedSucceeded ==
    \A q \in Quotes : row[q]["swap"].status = "CONFIRMED"
                         => chain[row[q]["swap"].hash].receipt = "success"

\* A swap is FAILED only when it reverted, or is not the transaction that was quoted.
FailedOnEvidence ==
    \A q \in Quotes : row[q]["swap"].status = "FAILED"
                         => LET h == row[q]["swap"].hash
                            IN \/ chain[h].receipt = "reverted"
                               \/ ~transactionMatchesQuote(h, q, "swap")

\* On a chain that does not reorganise, a verdict that was written is true. Both sides
\* read the same chain, so neither can overturn the other's, except through the timeout.
VerdictsTrue == ConfirmedSucceeded /\ FailedOnEvidence

\* On such a chain no late write turns one verdict into the other: what was announced and
\* booked is never called FAILED, nor a FAILED trade CONFIRMED.
VerdictsNeverFlip ==
    [][\A q \in Quotes : {row[q]["swap"].status, row'[q]["swap"].status} # {"CONFIRMED", "FAILED"}]_vars

\* The lifecycle of docs/TRADING.md#transaction-lifecycle has no arrow out of CONFIRMED:
\* a trade shown, announced and booked as done stays done.  It fails: a check that saw no
\* receipt just before writes EXPIRED by the row's id once the submission is old.
ConfirmedIsFinal ==
    [][\A q \in Quotes : row[q]["swap"].status = "CONFIRMED"
          => row'[q]["swap"].status = "CONFIRMED"]_vars

\* The fee leg has the same integrity gate as the swap (refreshFeeStatus, doc comment).  It
\* holds while submissions come one at a time; of two at once, the later update replaces the
\* hash that a refresh of the first has checked and is about to confirm.
FeeIntegrity ==
    \A q \in Quotes : row[q]["fee"].status = "CONFIRMED"
                         => transactionMatchesQuote(row[q]["fee"].hash, q, "fee")

\* The sweep is the backstop that keeps PENDING from lingering (sweep.ts): whatever the
\* user does, a recorded swap is eventually resolved.
EventuallyResolved ==
    \A q \in Quotes : row[q]["swap"].status = "PENDING" ~> row[q]["swap"].status # "PENDING"

-----------------------------------------------------------------------------
(* The inductive invariant behind SwapIntegrity and ConfirmedIsSettled: what a *)
(* process carries across its awaits is still true when it writes.            *)

\* A process past its first step holds a real quote and a real hash.
TaskBound ==
    \A p \in Processes : task[p].pc # "idle" => task[p].quote \in Quotes /\ task[p].hash \in Hashes

\* Only a recorded trade has a status.
RowBound == \A q \in Quotes : row[q]["swap"].hash = None => row[q]["swap"].status = "NONE"

\* The swap hash a refresh or a sweep batch read earlier is still the row's.
HoldsRowHash(t) ==
    t.pc \in {"receipt", "details", "confirmations", "head", "write"} /\ t.leg = "swap"
       => row[t.quote]["swap"].hash = t.hash
SnapshotsCurrent ==
    /\ \A p \in Processes : HoldsRowHash(task[p])
    /\ \A b \in batch : b[2] = "swap" => row[b[1]]["swap"].hash = b[3]

\* A refresh past its second read has found the quoted transaction, one about to write
\* CONFIRMED has found it settled, and one about to write has a verdict.
Confirming(t) == t.pc = "write" /\ t.verdict = "CONFIRMED"
PassedGate(t) ==
    /\ t.pc \in {"confirmations", "head"} \/ Confirming(t)
          => transactionMatchesQuote(t.hash, t.quote, t.leg)
    /\ t.pc = "head" => SplitDepthRead
    /\ Confirming(t) => SplitDepthRead \/ Settled(t.hash)
    /\ t.pc = "write" => t.verdict # "PENDING"
GatePassed == \A p \in Processes : PassedGate(task[p])

\* The inductive invariant.
IntegrityInv ==
    /\ TypeOK
    /\ TaskBound
    /\ RowBound
    /\ SnapshotsCurrent
    /\ GatePassed
    /\ SwapIntegrity
    /\ SplitDepthRead \/ ConfirmedIsSettled

\* What is added for VerdictsTrue, on a chain that does not reorganise and with reads that do
\* not fail: what a refresh has concluded so far is what the chain says now.
ConcludedTruly(t) ==
    /\ t.pc \in {"details", "confirmations", "head"} \/ Confirming(t)
          => chain[t.hash].receipt = "success"
    /\ t.pc = "write" /\ t.verdict = "FAILED"
          => \/ chain[t.hash].receipt = "reverted"
             \/ ~transactionMatchesQuote(t.hash, t.quote, t.leg)
VerdictInv == VerdictsTrue /\ \A p \in Processes : ConcludedTruly(task[p])

\* What is added for FeeIntegrity, with one request at a time: the fee hash a refresh or a
\* batch holds is the row's, and a submission under way finds none to replace.
HoldsFeeHash(t) ==
    /\ t.pc \in {"receipt", "details", "confirmations", "head", "write"} =>
          /\ t.leg = "fee" => row[t.quote]["fee"].hash = t.hash
          /\ t.leg = "swap" /\ t.fee.hash # None => row[t.quote]["fee"].hash = t.fee.hash
    /\ t.pc \in {"feeDetails", "feeUpdate"} => row[t.quote]["fee"].hash = None
FeeInv ==
    /\ \A p \in Processes : HoldsFeeHash(task[p])
    /\ task[Worker].pc \notin {"feeDetails", "feeUpdate"}
    /\ \A b \in batch : b[2] = "fee" => row[b[1]]["fee"].hash = b[3]
    /\ FeeIntegrity

-----------------------------------------------------------------------------
(* What readers of the table see is the abstract ledger. *)

Ledger == INSTANCE TradeLedger
            WITH Quoted <- [q \in Quotes |-> {h \in Hashes : transactionMatchesQuote(h, q, "swap")}],
                 settled <- {h \in Hashes : Settled(h)},
                 book <- [q \in Quotes |-> row[q]["swap"]]

\* Every behaviour of handlers, sweep and chain is one of the abstract ledger: the verdict
\* CONFIRMED, decided three awaits before it is written, is as good as one decided and
\* written in a single step.
ImplementsLedger == Ledger!LedgerSpec
=============================================================================
