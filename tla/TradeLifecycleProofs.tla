------------------------ MODULE TradeLifecycleProofs ------------------------
(***************************************************************************)
(* Proofs about TradeLifecycle, for every set of quotes, hashes, requests  *)
(* and every depth of the chain.                                           *)
(***************************************************************************)
EXTENDS TradeLifecycle, TLAPS

\* A task that is either idle or bound to a quote and a hash.
GoodTask(t) == t \in Task /\ (t.pc # "idle" => t.quote \in Quotes /\ t.hash \in Hashes)

TypeInv == TypeOK /\ TaskBound

\* The task records the handlers build are good ones.
LEMMA NewTasks ==
    /\ GoodTask(Idle)
    /\ NoLeg \in Leg
    /\ \A pc \in PC, q \in Quotes, leg \in Legs, h \in Hashes : GoodTask(Submitting(pc, q, leg, h))
    /\ \A q \in Quotes, leg \in Legs, h \in Hashes, fee \in Leg : GoodTask(Refreshing(q, leg, h, fee))
    /\ \A q \in Quotes, fee \in Leg : GoodTask(FeeRefresh(q, fee))
BY DepthAssumption
   DEF GoodTask, Idle, Task, NoLeg, Leg, Legs, PC, TradeStatus, Submitting, Refreshing, FeeRefresh, FeeRefreshable

\* So are the ones a busy process moves on to.
LEMMA NextTasks ==
    ASSUME NEW t, GoodTask(t), t.pc # "idle"
    PROVE  /\ \A fee \in Leg : GoodTask(AfterLeg(t, fee))
           /\ \A pc \in PC : GoodTask([t EXCEPT !.pc = pc])
           /\ \A pc \in PC, v \in TradeStatus : GoodTask([t EXCEPT !.pc = pc, !.verdict = v])
           /\ \A deep : GoodTask(JudgeDepth(t, deep))
<1>1. \A fee \in Leg : GoodTask(AfterLeg(t, fee))
  BY NewTasks DEF GoodTask, AfterLeg
<1>2. \A pc \in PC : GoodTask([t EXCEPT !.pc = pc])
  BY DEF GoodTask, Task
<1>3. \A pc \in PC, v \in TradeStatus : GoodTask([t EXCEPT !.pc = pc, !.verdict = v])
  BY DEF GoodTask, Task
<1>4. \A deep : GoodTask(JudgeDepth(t, deep))
  BY <1>1, <1>3 DEF JudgeDepth, GoodTask, Task, PC, TradeStatus
<1> QED BY <1>1, <1>2, <1>3, <1>4

\* Under the type invariant, every process has a good task.
LEMMA CurrentTask ==
    ASSUME TypeInv, NEW p \in Processes
    PROVE  GoodTask(task[p])
BY DEF TypeInv, TypeOK, TaskBound, GoodTask

\* Giving one process another good task keeps every task good.
LEMMA SetTask ==
    ASSUME TypeInv, NEW p \in Processes, NEW t, GoodTask(t), task' = [task EXCEPT ![p] = t]
    PROVE  task' \in [Processes -> Task] /\ TaskBound'
BY DEF TypeInv, TypeOK, TaskBound, GoodTask

\* Both legs of a row are legs.
LEMMA RowLegs ==
    ASSUME TypeOK, NEW q \in Quotes
    PROVE  row[q]["swap"] \in Leg /\ row[q]["fee"] \in Leg
BY DEF TypeOK, Legs

\* A step that replaces one leg of one row.
SetsLeg(q, leg, x) == row' = [row EXCEPT ![q][leg] = x]

\* It keeps the rows typed and the other legs as they were.
LEMMA SetLegIs ==
    ASSUME TypeOK, NEW q \in Quotes, NEW leg \in Legs, NEW x \in Leg, SetsLeg(q, leg, x)
    PROVE  /\ row' \in [Quotes -> [Legs -> Leg]]
           /\ row'[q][leg] = x
           /\ \A q2 \in Quotes, leg2 \in Legs :
                 q2 # q \/ leg2 # leg => row'[q2][leg2] = row[q2][leg2]
<1>1. row \in [Quotes -> [Legs -> Leg]]
  BY DEF TypeOK
<1>2. [row[q] EXCEPT ![leg] = x] \in [Legs -> Leg]
  BY <1>1
<1>3. row' = [row EXCEPT ![q] = [row[q] EXCEPT ![leg] = x]]
  BY <1>1 DEF SetsLeg
<1> QED BY <1>1, <1>2, <1>3

\* The same with the assignment written out.
LEMMA SetLeg ==
    ASSUME TypeOK, NEW q \in Quotes, NEW leg \in Legs, NEW x \in Leg, row' = [row EXCEPT ![q][leg] = x]
    PROVE  /\ row' \in [Quotes -> [Legs -> Leg]]
           /\ row'[q][leg] = x
           /\ \A q2 \in Quotes, leg2 \in Legs :
                 q2 # q \/ leg2 # leg => row'[q2][leg2] = row[q2][leg2]
<1>1. SetsLeg(q, leg, x)
  BY DEF SetsLeg
<1> QED BY <1>1, SetLegIs

\* WriteStatus replaces the status of the leg its process refreshes, and nothing else.
LEMMA SetStatus ==
    ASSUME TypeOK, NEW p \in Processes, GoodTask(task[p]), WriteStatus(p)
    PROVE  LET t == task[p]
           IN /\ row' \in [Quotes -> [Legs -> Leg]]
              /\ row'[t.quote][t.leg] = [hash |-> row[t.quote][t.leg].hash, status |-> t.verdict]
              /\ \A q2 \in Quotes, leg2 \in Legs :
                    q2 # t.quote \/ leg2 # t.leg => row'[q2][leg2] = row[q2][leg2]
<1> DEFINE q == task[p].quote
           leg == task[p].leg
           x == [hash |-> row[q][leg].hash, status |-> task[p].verdict]
<1>1. q \in Quotes /\ leg \in Legs /\ task[p].verdict \in TradeStatus
  BY DEF GoodTask, Task, WriteStatus
<1>2. row \in [Quotes -> [Legs -> Leg]] /\ row[q][leg] \in Leg
  BY <1>1 DEF TypeOK
<1>3. x \in Leg /\ [row[q][leg] EXCEPT !.status = task[p].verdict] = x
  BY <1>1, <1>2 DEF Leg
<1>4. row' = [row EXCEPT ![q][leg] = [row[q][leg] EXCEPT !.status = task[p].verdict]]
  BY <1>1, <1>2 DEF WriteStatus
<1>5. row' = [row EXCEPT ![q][leg] = x]
  BY <1>3, <1>4
<1>6. x \in Leg
  BY <1>3
<1> HIDE DEF q, leg, x
<1>7. /\ row' \in [Quotes -> [Legs -> Leg]]
      /\ row'[q][leg] = x
      /\ \A q2 \in Quotes, leg2 \in Legs : q2 # q \/ leg2 # leg => row'[q2][leg2] = row[q2][leg2]
  <2>1. SetsLeg(q, leg, x)
    BY <1>5 DEF SetsLeg
  <2> QED BY <1>1, <1>6, <2>1, SetLegIs
<1> QED BY <1>7 DEF q, leg, x

\* The initial state is well typed.
LEMMA TypeInit == Init => TypeInv
BY NewTasks, DepthAssumption, ContentAssumption
   DEF Init, TypeInv, TypeOK, TaskBound, GoodTask, Receipt, Legs, Idle

\* Every step keeps the types and keeps busy processes bound to a quote and a hash.
LEMMA TypeStep == TypeInv /\ [Next]_vars => TypeInv'
<1> SUFFICES ASSUME TypeInv, [Next]_vars PROVE TypeInv'
  OBVIOUS
<1>0. Handlers \subseteq Processes /\ Worker \in Processes
  BY DEF Processes
<1>1. ASSUME NEW p \in Handlers, NEW q \in Quotes, NEW h \in Hashes, SubmitTransaction(p, q, h)
      PROVE TypeInv'
  <2> DEFINE t == Submitting("submitDetails", q, "swap", h)
  <2>1. GoodTask(t)
    BY NewTasks DEF PC, Legs
  <2> HIDE DEF t
  <2>2. task' = [task EXCEPT ![p] = t]
    BY <1>1 DEF SubmitTransaction, t
  <2>3. task' \in [Processes -> Task] /\ TaskBound'
    BY <1>0, <2>1, <2>2, SetTask
  <2> QED BY <1>1, <2>3 DEF SubmitTransaction, TypeInv, TypeOK
<1>2. ASSUME NEW p \in Handlers, SubmitDetails(p) PROVE TypeInv'
  <2>1. PICK visible : task' = [task EXCEPT ![p] =
                     IF visible => transactionMatchesQuote(task[p].hash, task[p].quote, "swap")
                     THEN [task[p] EXCEPT !.pc = "create"]
                     ELSE Idle]
    BY <1>2, <1>0 DEF SubmitDetails, TypeInv, TypeOK
  <2>2. GoodTask(task[p]) /\ task[p].pc # "idle"
    BY <1>0, <1>2, CurrentTask DEF SubmitDetails
  <2>3. GoodTask([task[p] EXCEPT !.pc = "create"])
    BY <2>2, NextTasks DEF PC
  <2>4. task' \in [Processes -> Task] /\ TaskBound'
    BY <1>0, <2>1, <2>3, NewTasks, SetTask
  <2> QED BY <1>2, <2>4 DEF SubmitDetails, TypeInv, TypeOK
<1>3. ASSUME NEW p \in Handlers, CreateRow(p) PROVE TypeInv'
  <2>1. GoodTask(task[p]) /\ task[p].pc # "idle"
    BY <1>0, <1>3, CurrentTask DEF CreateRow
  <2>2. task' \in [Processes -> Task] /\ TaskBound'
    BY <1>0, <1>3, NewTasks, SetTask DEF CreateRow
  <2>3. [hash |-> task[p].hash, status |-> "PENDING"] \in Leg
    BY <2>1 DEF GoodTask, Leg, TradeStatus
  <2>4. row' = row \/ row' = [row EXCEPT ![task[p].quote]["swap"] = [hash |-> task[p].hash, status |-> "PENDING"]]
    BY <1>3 DEF CreateRow
  <2>5. row' \in [Quotes -> [Legs -> Leg]]
    BY <2>1, <2>3, <2>4, SetLeg DEF TypeInv, TypeOK, GoodTask, Legs
  <2> QED BY <1>3, <2>2, <2>5 DEF CreateRow, TypeInv, TypeOK
<1>4. ASSUME NEW p \in Handlers, NEW q \in Quotes, NEW h \in Hashes, SubmitFeeTransaction(p, q, h)
      PROVE TypeInv'
  <2> DEFINE t == Submitting("feeDetails", q, "fee", h)
  <2>1. GoodTask(t)
    BY NewTasks DEF PC, Legs
  <2> HIDE DEF t
  <2>2. task' = [task EXCEPT ![p] = t]
    BY <1>4 DEF SubmitFeeTransaction, t
  <2>3. task' \in [Processes -> Task] /\ TaskBound'
    BY <1>0, <2>1, <2>2, SetTask
  <2> QED BY <1>4, <2>3 DEF SubmitFeeTransaction, TypeInv, TypeOK
<1>5. ASSUME NEW p \in Handlers, FeeDetails(p) PROVE TypeInv'
  <2>1. PICK visible : task' = [task EXCEPT ![p] =
                     IF visible => transactionMatchesQuote(task[p].hash, task[p].quote, "fee")
                     THEN [task[p] EXCEPT !.pc = "feeUpdate"]
                     ELSE Idle]
    BY <1>5, <1>0 DEF FeeDetails, TypeInv, TypeOK
  <2>2. GoodTask(task[p]) /\ task[p].pc # "idle"
    BY <1>0, <1>5, CurrentTask DEF FeeDetails
  <2>3. GoodTask([task[p] EXCEPT !.pc = "feeUpdate"])
    BY <2>2, NextTasks DEF PC
  <2>4. task' \in [Processes -> Task] /\ TaskBound'
    BY <1>0, <2>1, <2>3, NewTasks, SetTask
  <2> QED BY <1>5, <2>4 DEF FeeDetails, TypeInv, TypeOK
<1>6. ASSUME NEW p \in Handlers, FeeUpdate(p) PROVE TypeInv'
  <2>1. GoodTask(task[p]) /\ task[p].pc # "idle"
    BY <1>0, <1>6, CurrentTask DEF FeeUpdate
  <2>2. task' \in [Processes -> Task] /\ TaskBound'
    BY <1>0, <1>6, NewTasks, SetTask DEF FeeUpdate
  <2>3. [hash |-> task[p].hash, status |-> "PENDING"] \in Leg
    BY <2>1 DEF GoodTask, Leg, TradeStatus
  <2>4. row' = row \/ row' = [row EXCEPT ![task[p].quote]["fee"] = [hash |-> task[p].hash, status |-> "PENDING"]]
    BY <1>6 DEF FeeUpdate
  <2>5. row' \in [Quotes -> [Legs -> Leg]]
    BY <2>1, <2>3, <2>4, SetLeg DEF TypeInv, TypeOK, GoodTask, Legs
  <2>6. aged' \subseteq aged
    BY <1>6 DEF FeeUpdate
  <2> QED BY <1>6, <2>2, <2>5, <2>6 DEF FeeUpdate, TypeInv, TypeOK
<1>7. ASSUME NEW p \in Handlers, NEW q \in Quotes, GetTransaction(p, q) PROVE TypeInv'
  <2>1. row[q]["swap"] \in Leg /\ row[q]["fee"] \in Leg /\ row[q]["swap"].hash \in Hashes
    BY <1>7, RowLegs DEF GetTransaction, TypeInv, Leg
  <2>2. /\ GoodTask(Refreshing(q, "swap", row[q]["swap"].hash, row[q]["fee"]))
        /\ GoodTask(FeeRefresh(q, row[q]["fee"]))
    BY <2>1, NewTasks DEF Legs
  <2>3. task' \in [Processes -> Task] /\ TaskBound'
    BY <1>0, <1>7, <2>2, SetTask DEF GetTransaction
  <2> QED BY <1>7, <2>3 DEF GetTransaction, TypeInv, TypeOK
<1>8. ASSUME NEW leg \in Legs, SweepQuery(leg) PROVE TypeInv'
  <2>1. PendingRows(leg) \subseteq Quotes \X Legs \X Hashes
    BY DEF PendingRows, TypeInv, TypeOK, Leg
  <2> QED BY <1>8, <2>1 DEF SweepQuery, TypeInv, TypeOK, TaskBound
<1>9. CASE SweepRow
  <2>1. PICK b \in batch : /\ batch' = batch \ {b}
                           /\ task' = [task EXCEPT ![Worker] = Refreshing(b[1], b[2], b[3], NoLeg)]
    BY <1>9 DEF SweepRow
  <2>2. b[1] \in Quotes /\ b[2] \in Legs /\ b[3] \in Hashes
    BY DEF TypeInv, TypeOK
  <2>3. task' \in [Processes -> Task] /\ TaskBound'
    BY <1>0, <2>1, <2>2, NewTasks, SetTask
  <2> QED BY <1>9, <2>1, <2>3 DEF SweepRow, TypeInv, TypeOK
<1>10. ASSUME NEW p \in Processes, ReadReceipt(p) PROVE TypeInv'
  <2> DEFINE t == task[p]
  <2>1. GoodTask(t) /\ t.pc # "idle" /\ t.fee \in Leg
    BY <1>10, CurrentTask DEF ReadReceipt, GoodTask, Task
  <2>2. /\ GoodTask([t EXCEPT !.pc = "details"])
        /\ GoodTask([t EXCEPT !.pc = "write", !.verdict = "FAILED"])
        /\ GoodTask([t EXCEPT !.pc = "write", !.verdict = "EXPIRED"])
        /\ GoodTask(AfterLeg(t, t.fee))
    BY <2>1, NextTasks DEF PC, TradeStatus
  <2>3. PICK receipt \in Receipt :
          task' = [task EXCEPT ![p] =
                     CASE receipt = "success" -> [t EXCEPT !.pc = "details"]
                       [] receipt = "reverted" -> [t EXCEPT !.pc = "write", !.verdict = "FAILED"]
                       [] receipt = "none" ->
                            IF <<t.quote, t.leg, t.hash>> \in aged
                            THEN [t EXCEPT !.pc = "write", !.verdict = "EXPIRED"]
                            ELSE AfterLeg(t, t.fee)]
    BY <1>10, <2>1 DEF ReadReceipt, TypeInv, TypeOK, getTransactionReceiptStatus, GoodTask, Receipt
  <2> HIDE DEF t
  <2>4. task' \in [Processes -> Task] /\ TaskBound'
    BY <2>2, <2>3, SetTask DEF Receipt
  <2> QED BY <1>10, <2>4 DEF ReadReceipt, TypeInv, TypeOK
<1>11. ASSUME NEW p \in Processes, ReadDetails(p) PROVE TypeInv'
  <2> DEFINE t == task[p]
  <2>1. GoodTask(t) /\ t.pc # "idle"
    BY <1>11, CurrentTask DEF ReadDetails
  <2>2. /\ GoodTask([t EXCEPT !.pc = "confirmations"])
        /\ GoodTask([t EXCEPT !.pc = "write", !.verdict = "FAILED"])
    BY <2>1, NextTasks DEF PC, TradeStatus
  <2>3. PICK found :
          task' = [task EXCEPT ![p] =
                     IF found /\ transactionMatchesQuote(t.hash, t.quote, t.leg)
                     THEN [t EXCEPT !.pc = "confirmations"]
                     ELSE [t EXCEPT !.pc = "write", !.verdict = "FAILED"]]
    BY <1>11 DEF ReadDetails, TypeInv, TypeOK
  <2> HIDE DEF t
  <2>4. task' \in [Processes -> Task] /\ TaskBound'
    BY <2>2, <2>3, SetTask
  <2> QED BY <1>11, <2>4 DEF ReadDetails, TypeInv, TypeOK
<1>12. ASSUME NEW p \in Processes, ReadConfirmations(p) PROVE TypeInv'
  <2> DEFINE t == task[p]
             seen == [t EXCEPT !.pc = "head", !.depth = chain[t.hash].depth]
  <2>1. GoodTask(t) /\ t.pc # "idle"
    BY <1>12, CurrentTask DEF ReadConfirmations
  <2>2. GoodTask(seen)
    BY <2>1 DEF GoodTask, Task, PC, TypeInv, TypeOK
  <2>3. \/ task' = [task EXCEPT ![p] = seen]
        \/ \E deep : task' = [task EXCEPT ![p] = JudgeDepth(t, deep)]
    BY <1>12 DEF ReadConfirmations, TypeInv, TypeOK
  <2> HIDE DEF t, seen
  <2>4. task' \in [Processes -> Task] /\ TaskBound'
    BY <2>1, <2>2, <2>3, NextTasks, SetTask
  <2> QED BY <1>12, <2>4 DEF ReadConfirmations, TypeInv, TypeOK
<1>22. ASSUME NEW p \in Processes, ReadHead(p) PROVE TypeInv'
  <2>1. GoodTask(task[p]) /\ task[p].pc # "idle"
    BY <1>22, CurrentTask DEF ReadHead
  <2>2. PICK deep : task' = [task EXCEPT ![p] = JudgeDepth(task[p], deep)]
    BY <1>22 DEF ReadHead
  <2>3. task' \in [Processes -> Task] /\ TaskBound'
    BY <2>1, <2>2, NextTasks, SetTask
  <2> QED BY <1>22, <2>3 DEF ReadHead, TypeInv, TypeOK
<1>13. ASSUME NEW p \in Processes, WriteStatus(p) PROVE TypeInv'
  <2>1. GoodTask(task[p]) /\ task[p].pc # "idle"
    BY <1>13, CurrentTask DEF WriteStatus
  <2>2. (IF p = Worker THEN NoLeg ELSE row[task[p].quote]["fee"]) \in Leg
    BY <2>1, NewTasks, RowLegs DEF TypeInv, GoodTask
  <2>3. GoodTask(AfterLeg(task[p], IF p = Worker THEN NoLeg ELSE row[task[p].quote]["fee"]))
    BY <2>1, <2>2, NextTasks
  <2>4. task' \in [Processes -> Task] /\ TaskBound'
    BY <1>13, <2>3, SetTask DEF WriteStatus
  <2>5. row' \in [Quotes -> [Legs -> Leg]]
    BY <1>13, <2>1, SetStatus DEF TypeInv, GoodTask
  <2> QED BY <1>13, <2>4, <2>5 DEF WriteStatus, TypeInv, TypeOK
<1>14. ASSUME NEW p \in Processes, Abort(p) PROVE TypeInv'
  <2>1. task' \in [Processes -> Task] /\ TaskBound'
    BY <1>14, NewTasks, SetTask DEF Abort
  <2>2. batch' \subseteq batch
    BY <1>14 DEF Abort
  <2> QED BY <1>14, <2>1, <2>2 DEF Abort, TypeInv, TypeOK
<1>15. ASSUME NEW q \in Quotes, NEW leg \in Legs, AgeSubmission(q, leg) PROVE TypeInv'
  <2>1. <<q, leg, row[q][leg].hash>> \in Quotes \X Legs \X Hashes
    BY <1>15 DEF AgeSubmission, TypeInv, TypeOK, Leg
  <2> QED BY <1>15, <2>1 DEF AgeSubmission, TypeInv, TypeOK, TaskBound
<1>16. ASSUME NEW q \in Quotes, ExpireQuote(q) PROVE TypeInv'
  BY <1>16 DEF ExpireQuote, TypeInv, TypeOK, TaskBound
<1>17. ASSUME NEW a \in Addresses, UnlinkWallet(a) PROVE TypeInv'
  BY <1>17 DEF UnlinkWallet, TypeInv, TypeOK, TaskBound
<1>18. ASSUME NEW h \in Hashes, Mine(h) PROVE TypeInv'
  <2>1. chain' \in [Hashes -> [receipt : Receipt, depth : 0..MinConfirmations]]
    BY <1>18, DepthAssumption DEF Mine, TypeInv, TypeOK, Receipt
  <2> QED BY <1>18, <2>1 DEF Mine, TypeInv, TypeOK, TaskBound
<1>19. CASE NewBlock
  <2>1. \A d \in 0..MinConfirmations : Deeper(d) \in 0..MinConfirmations
    BY DepthAssumption DEF Deeper
  <2>2. chain' \in [Hashes -> [receipt : Receipt, depth : 0..MinConfirmations]]
    BY <1>19, <2>1 DEF NewBlock, TypeInv, TypeOK
  <2>3. \A p \in Processes : task'[p] \in Task /\ task'[p].pc = task[p].pc
                             /\ task'[p].quote = task[p].quote /\ task'[p].hash = task[p].hash
    BY <1>19, <2>1 DEF NewBlock, TypeInv, TypeOK, Task
  <2>4. task' \in [Processes -> Task] /\ TaskBound'
    BY <1>19, <2>3 DEF NewBlock, TypeInv, TaskBound
  <2> QED BY <1>19, <2>2, <2>4 DEF NewBlock, TypeInv, TypeOK
<1>20. ASSUME NEW blocks \in 1..ReorgDepth, Reorg(blocks) PROVE TypeInv'
  <2>1. chain' \in [Hashes -> [receipt : Receipt, depth : 0..MinConfirmations]]
    BY <1>20, DepthAssumption DEF Reorg, TypeInv, TypeOK, Receipt
  <2> QED BY <1>20, <2>1 DEF Reorg, TypeInv, TypeOK, TaskBound
<1>21. CASE UNCHANGED vars
  BY <1>21 DEF vars, TypeInv, TypeOK, TaskBound
<1> QED
  BY <1>1, <1>2, <1>3, <1>4, <1>5, <1>6, <1>7, <1>8, <1>9, <1>10, <1>11, <1>12, <1>13, <1>14,
     <1>15, <1>16, <1>17, <1>18, <1>19, <1>20, <1>21, <1>22
     DEF Next, HandlerStep, RefreshStep, SweepStep, Environment

\* Every reachable state of the trade lifecycle is well typed.
THEOREM TypeCorrect == Spec => []TypeOK
<1>1. TypeInv => TypeOK
  BY DEF TypeInv
<1> QED BY <1>1, TypeInit, TypeStep, PTL DEF Spec

-----------------------------------------------------------------------------
\* Going on with the fee leg, or stopping, claims nothing about the swap.
LEMMA AfterLegHolds ==
    /\ HoldsRowHash(Idle) /\ PassedGate(Idle)
    /\ \A q, fee : HoldsRowHash(FeeRefresh(q, fee)) /\ PassedGate(FeeRefresh(q, fee))
    /\ \A t, fee : HoldsRowHash(AfterLeg(t, fee)) /\ PassedGate(AfterLeg(t, fee))
BY DEF HoldsRowHash, PassedGate, Confirming, Idle, FeeRefresh, Refreshing, AfterLeg

\* A step that only moves one process on, to a task whose claims hold, keeps the invariant.
LEMMA TaskStep ==
    ASSUME IntegrityInv, TypeInv', NEW p \in Processes, NEW t,
           task' = [task EXCEPT ![p] = t], HoldsRowHash(t), PassedGate(t),
           row' = row, chain' = chain, batch' \subseteq batch
    PROVE  IntegrityInv'
<1>1. \A p2 \in Processes : task'[p2] = task[p2] \/ task'[p2] = t
  BY DEF IntegrityInv, TypeOK
<1>2. SnapshotsCurrent'
  BY <1>1 DEF IntegrityInv, SnapshotsCurrent, HoldsRowHash
<1>3. GatePassed'
  BY <1>1 DEF IntegrityInv, GatePassed, PassedGate, Settled, transactionMatchesQuote, ExpectedCall
<1>4. RowBound' /\ SwapIntegrity' /\ (SplitDepthRead \/ ConfirmedIsSettled')
  BY DEF IntegrityInv, RowBound, SwapIntegrity, ConfirmedIsSettled, Settled,
         transactionMatchesQuote, ExpectedCall
<1> QED BY <1>2, <1>3, <1>4 DEF IntegrityInv, TypeInv

\* A step that ends a process's task and leaves every swap leg alone keeps the invariant.
LEMMA SwapKept ==
    ASSUME IntegrityInv, TypeInv', NEW p \in Processes, NEW t, task' = [task EXCEPT ![p] = t],
           HoldsRowHash(t), PassedGate(t), chain' = chain, batch' \subseteq batch,
           \A q \in Quotes : row'[q]["swap"] = row[q]["swap"],
           t.pc # "idle" => t.quote \in Quotes
    PROVE  IntegrityInv'
<1>1. \A p2 \in Processes : task'[p2] = task[p2] \/ task'[p2] = t
  BY DEF IntegrityInv, TypeOK
<1>2. SnapshotsCurrent'
  <2>1. ASSUME NEW p2 \in Processes PROVE HoldsRowHash(task[p2])'
    BY <1>1 DEF IntegrityInv, SnapshotsCurrent, HoldsRowHash, TaskBound
  <2>2. ASSUME NEW b \in batch' PROVE b[2] = "swap" => row'[b[1]]["swap"].hash = b[3]
    BY DEF IntegrityInv, SnapshotsCurrent, TypeOK
  <2> QED BY <2>1, <2>2 DEF SnapshotsCurrent
<1>3. GatePassed'
  BY <1>1 DEF IntegrityInv, GatePassed, PassedGate, Settled, transactionMatchesQuote, ExpectedCall
<1>4. RowBound' /\ SwapIntegrity' /\ (SplitDepthRead \/ ConfirmedIsSettled')
  BY DEF IntegrityInv, RowBound, SwapIntegrity, ConfirmedIsSettled, Settled,
         transactionMatchesQuote, ExpectedCall
<1> QED BY <1>2, <1>3, <1>4 DEF IntegrityInv, TypeInv

\* A step that changes neither rows nor what a task claims, and unsettles no transaction,
\* keeps it too.
LEMMA ChainStep ==
    ASSUME IntegrityInv, TypeInv', row' = row, batch' = batch,
           \A p \in Processes : /\ task'[p].pc = task[p].pc /\ task'[p].quote = task[p].quote
                                /\ task'[p].leg = task[p].leg /\ task'[p].hash = task[p].hash
                                /\ task'[p].verdict = task[p].verdict,
           \A h \in Hashes : Settled(h) => Settled(h)'
    PROVE  IntegrityInv'
<1>1. SnapshotsCurrent' /\ RowBound' /\ SwapIntegrity'
  BY DEF IntegrityInv, SnapshotsCurrent, HoldsRowHash, RowBound, SwapIntegrity,
         transactionMatchesQuote, ExpectedCall
<1>2. SplitDepthRead \/ ConfirmedIsSettled'
  <2> SUFFICES ASSUME ~SplitDepthRead, NEW q \in Quotes, row[q]["swap"].status = "CONFIRMED"
               PROVE  Settled(row[q]["swap"].hash)'
    BY DEF ConfirmedIsSettled
  <2>1. row[q]["swap"].hash \in Hashes
    BY RowLegs DEF IntegrityInv, RowBound, Leg
  <2> QED BY <2>1 DEF IntegrityInv, ConfirmedIsSettled
<1>3. GatePassed'
  <2> SUFFICES ASSUME NEW p \in Processes PROVE PassedGate(task[p])'
    BY DEF GatePassed
  <2>1. Confirming(task[p]) => task[p].hash \in Hashes
    BY DEF IntegrityInv, TaskBound, Confirming
  <2> QED BY <2>1 DEF IntegrityInv, GatePassed, PassedGate, Confirming, transactionMatchesQuote, ExpectedCall
<1> QED BY <1>1, <1>2, <1>3 DEF IntegrityInv, TypeInv

\* Inserting a PENDING swap for a quote that has none keeps the invariant.
LEMMA InsertRow ==
    ASSUME IntegrityInv, TypeInv', NEW q \in Quotes, NEW h \in Hashes, row[q]["swap"].hash = None,
           row' = [row EXCEPT ![q]["swap"] = [hash |-> h, status |-> "PENDING"]],
           chain' = chain, batch' = batch,
           \A p \in Processes : task'[p] = task[p] \/ task'[p] = Idle
    PROVE  IntegrityInv'
<1> DEFINE new == [hash |-> h, status |-> "PENDING"]
<1>1. new \in Leg
  BY DEF Leg, TradeStatus
<1>2. row'[q]["swap"] = new /\ \A q2 \in Quotes : q2 # q => row'[q2]["swap"] = row[q2]["swap"]
  BY <1>1, SetLeg DEF IntegrityInv, Legs
<1>3. \A q2 \in Quotes : row[q2]["swap"].hash # None => row'[q2]["swap"] = row[q2]["swap"]
  BY <1>2
<1>4. SnapshotsCurrent'
  <2>1. ASSUME NEW p \in Processes PROVE HoldsRowHash(task[p])'
    <3>1. CASE task'[p] = Idle
      BY <3>1 DEF HoldsRowHash, Idle
    <3>2. CASE task'[p] = task[p]
      BY <1>3, <3>2, NoneAssumption DEF IntegrityInv, SnapshotsCurrent, HoldsRowHash, TaskBound
    <3> QED BY <3>1, <3>2
  <2>2. ASSUME NEW b \in batch, b[2] = "swap" PROVE row'[b[1]]["swap"].hash = b[3]
    <3>1. b[1] \in Quotes /\ b[3] \in Hashes
      BY DEF IntegrityInv, TypeOK
    <3> QED BY <1>3, <2>2, <3>1, NoneAssumption DEF IntegrityInv, SnapshotsCurrent
  <2> QED BY <2>1, <2>2 DEF SnapshotsCurrent
<1>5. GatePassed'
  BY DEF IntegrityInv, GatePassed, PassedGate, Confirming, Settled, Idle,
         transactionMatchesQuote, ExpectedCall
<1>6. RowBound'
  BY <1>2, NoneAssumption DEF IntegrityInv, RowBound
<1>7. SwapIntegrity' /\ (SplitDepthRead \/ ConfirmedIsSettled')
  <2>1. new.status # "CONFIRMED"
    OBVIOUS
  <2> HIDE DEF new
  <2>2. \A q2 \in Quotes : row'[q2]["swap"].status = "CONFIRMED" => row'[q2]["swap"] = row[q2]["swap"]
    BY <1>2, <2>1
  <2>3. SwapIntegrity'
    BY <2>2 DEF IntegrityInv, SwapIntegrity, transactionMatchesQuote, ExpectedCall
  <2>4. SplitDepthRead \/ ConfirmedIsSettled'
    BY <2>2 DEF IntegrityInv, ConfirmedIsSettled, Settled
  <2> QED BY <2>3, <2>4
<1> QED BY <1>4, <1>5, <1>6, <1>7 DEF IntegrityInv, TypeInv

\* The invariant holds initially.
LEMMA IntegrityInit == Init => IntegrityInv
<1> SUFFICES ASSUME Init PROVE IntegrityInv
  OBVIOUS
<1>1. TypeOK /\ TaskBound
  BY TypeInit DEF TypeInv
<1>2. SnapshotsCurrent /\ GatePassed
  BY AfterLegHolds DEF Init, SnapshotsCurrent, GatePassed
<1>3. RowBound /\ SwapIntegrity /\ ConfirmedIsSettled
  BY DEF Init, RowBound, SwapIntegrity, ConfirmedIsSettled, NoLeg, Legs
<1> QED BY <1>1, <1>2, <1>3 DEF IntegrityInv

\* Every step preserves it.
LEMMA IntegrityStep == IntegrityInv /\ [Next]_vars => IntegrityInv'
<1> SUFFICES ASSUME IntegrityInv, [Next]_vars PROVE IntegrityInv'
  OBVIOUS
<1>a. TypeInv /\ TypeInv'
  BY TypeStep DEF IntegrityInv, TypeInv
<1>b. Handlers \subseteq Processes /\ Worker \in Processes
  BY DEF Processes
<1>1. ASSUME NEW p \in Handlers, NEW q \in Quotes, NEW h \in Hashes, SubmitTransaction(p, q, h)
      PROVE IntegrityInv'
  <2> DEFINE t == Submitting("submitDetails", q, "swap", h)
  <2>1. HoldsRowHash(t) /\ PassedGate(t)
    BY DEF HoldsRowHash, PassedGate, Confirming, Submitting
  <2> QED BY <1>1, <1>a, <1>b, <2>1, TaskStep DEF SubmitTransaction
<1>2. ASSUME NEW p \in Handlers, SubmitDetails(p) PROVE IntegrityInv'
  <2> DEFINE t == task'[p]
  <2>1. task' = [task EXCEPT ![p] = t] /\ (t = Idle \/ t.pc = "create")
    BY <1>2, <1>a, <1>b, CurrentTask DEF SubmitDetails, TypeInv, TypeOK, GoodTask, Task
  <2>2. HoldsRowHash(t) /\ PassedGate(t)
    BY <2>1, AfterLegHolds DEF HoldsRowHash, PassedGate, Confirming
  <2> QED BY <1>2, <1>a, <1>b, <2>1, <2>2, TaskStep DEF SubmitDetails
<1>3. ASSUME NEW p \in Handlers, CreateRow(p) PROVE IntegrityInv'
  <2> DEFINE q == task[p].quote
  <2>1. q \in Quotes /\ task[p].hash \in Hashes
    BY <1>3, <1>b DEF CreateRow, IntegrityInv, TaskBound
  <2>2. task' = [task EXCEPT ![p] = Idle] /\ chain' = chain /\ batch' = batch
    BY <1>3 DEF CreateRow
  <2>3. \A p2 \in Processes : task'[p2] = task[p2] \/ task'[p2] = Idle
    BY <2>2 DEF IntegrityInv, TypeOK
  <2>4. CASE row' = row
    BY <1>a, <1>b, <2>2, <2>4, AfterLegHolds, TaskStep
  <2>5. CASE /\ row[q]["swap"].hash = None
             /\ row' = [row EXCEPT ![q]["swap"] = [hash |-> task[p].hash, status |-> "PENDING"]]
    BY <1>a, <2>1, <2>2, <2>3, <2>5, InsertRow
  <2> QED BY <1>3, <2>4, <2>5 DEF CreateRow
<1>4. ASSUME NEW p \in Handlers, NEW q \in Quotes, NEW h \in Hashes, SubmitFeeTransaction(p, q, h)
      PROVE IntegrityInv'
  <2> DEFINE t == Submitting("feeDetails", q, "fee", h)
  <2>1. HoldsRowHash(t) /\ PassedGate(t)
    BY DEF HoldsRowHash, PassedGate, Confirming, Submitting
  <2> QED BY <1>4, <1>a, <1>b, <2>1, TaskStep DEF SubmitFeeTransaction
<1>5. ASSUME NEW p \in Handlers, FeeDetails(p) PROVE IntegrityInv'
  <2> DEFINE t == task'[p]
  <2>1. task' = [task EXCEPT ![p] = t] /\ (t = Idle \/ t.pc = "feeUpdate")
    BY <1>5, <1>a, <1>b, CurrentTask DEF FeeDetails, TypeInv, TypeOK, GoodTask, Task
  <2>2. HoldsRowHash(t) /\ PassedGate(t)
    BY <2>1, AfterLegHolds DEF HoldsRowHash, PassedGate, Confirming
  <2> QED BY <1>5, <1>a, <1>b, <2>1, <2>2, TaskStep DEF FeeDetails
<1>6. ASSUME NEW p \in Handlers, FeeUpdate(p) PROVE IntegrityInv'
  <2> DEFINE q == task[p].quote
             new == [hash |-> task[p].hash, status |-> "PENDING"]
  <2>1. q \in Quotes /\ task[p].hash \in Hashes /\ new \in Leg
    BY <1>6, <1>b DEF FeeUpdate, IntegrityInv, TaskBound, Leg, TradeStatus
  <2>2. task' = [task EXCEPT ![p] = Idle] /\ chain' = chain /\ batch' = batch
    BY <1>6 DEF FeeUpdate
  <2>3. \A q2 \in Quotes : row'[q2]["swap"] = row[q2]["swap"]
    BY <1>6, <2>1, SetLeg DEF FeeUpdate, IntegrityInv, Legs
  <2>4. Idle.pc = "idle"
    BY DEF Idle
  <2> QED BY <1>a, <1>b, <2>2, <2>3, <2>4, AfterLegHolds, SwapKept
<1>7. ASSUME NEW p \in Handlers, NEW q \in Quotes, GetTransaction(p, q) PROVE IntegrityInv'
  <2> DEFINE t == Refreshing(q, "swap", row[q]["swap"].hash, row[q]["fee"])
  <2>1. HoldsRowHash(t) /\ PassedGate(t)
    BY DEF HoldsRowHash, PassedGate, Confirming, Refreshing
  <2> HIDE DEF t
  <2>2. task' = [task EXCEPT ![p] = t] \/ task' = [task EXCEPT ![p] = FeeRefresh(q, row[q]["fee"])]
    BY <1>7 DEF GetTransaction, t
  <2>3. row' = row /\ chain' = chain /\ batch' \subseteq batch
    BY <1>7 DEF GetTransaction
  <2> QED BY <1>a, <1>b, <2>1, <2>2, <2>3, AfterLegHolds, TaskStep
<1>8. ASSUME NEW leg \in Legs, SweepQuery(leg) PROVE IntegrityInv'
  <2>1. \A b \in batch' : b[2] = "swap" => row[b[1]]["swap"].hash = b[3]
    BY <1>8 DEF SweepQuery, PendingRows
  <2>2. SnapshotsCurrent'
    BY <1>8, <2>1 DEF SweepQuery, IntegrityInv, SnapshotsCurrent, HoldsRowHash
  <2>3. GatePassed' /\ RowBound' /\ SwapIntegrity' /\ (SplitDepthRead \/ ConfirmedIsSettled')
    BY <1>8 DEF SweepQuery, IntegrityInv, GatePassed, PassedGate, RowBound, SwapIntegrity,
                ConfirmedIsSettled, Settled, transactionMatchesQuote, ExpectedCall
  <2> QED BY <1>a, <2>2, <2>3 DEF IntegrityInv, TypeInv
<1>9. CASE SweepRow
  <2>1. PICK b \in batch : /\ batch' = batch \ {b}
                           /\ task' = [task EXCEPT ![Worker] = Refreshing(b[1], b[2], b[3], NoLeg)]
    BY <1>9 DEF SweepRow
  <2> DEFINE t == Refreshing(b[1], b[2], b[3], NoLeg)
  <2>2. HoldsRowHash(t) /\ PassedGate(t)
    BY DEF IntegrityInv, SnapshotsCurrent, HoldsRowHash, PassedGate, Confirming, Refreshing
  <2> HIDE DEF t
  <2>3. task' = [task EXCEPT ![Worker] = t] /\ row' = row /\ chain' = chain /\ batch' \subseteq batch
    BY <1>9, <2>1 DEF SweepRow, t
  <2> QED BY <1>a, <1>b, <2>2, <2>3, TaskStep
<1>10. ASSUME NEW p \in Processes, ReadReceipt(p) PROVE IntegrityInv'
  <2> DEFINE t == task[p]
  <2>1. GoodTask(t) /\ t.pc = "receipt" /\ HoldsRowHash(t)
    BY <1>10, <1>a, CurrentTask DEF ReadReceipt, IntegrityInv, SnapshotsCurrent
  <2>2. PICK receipt \in Receipt :
          task' = [task EXCEPT ![p] =
                     CASE receipt = "success" -> [t EXCEPT !.pc = "details"]
                       [] receipt = "reverted" -> [t EXCEPT !.pc = "write", !.verdict = "FAILED"]
                       [] receipt = "none" ->
                            IF <<t.quote, t.leg, t.hash>> \in aged
                            THEN [t EXCEPT !.pc = "write", !.verdict = "EXPIRED"]
                            ELSE AfterLeg(t, t.fee)]
    BY <1>10, <1>a, <2>1 DEF ReadReceipt, TypeInv, TypeOK, getTransactionReceiptStatus, GoodTask, Receipt
  <2>3. row' = row /\ chain' = chain /\ batch' \subseteq batch
    BY <1>10 DEF ReadReceipt
  <2>4. \A v \in {"FAILED", "EXPIRED"} :
          HoldsRowHash([t EXCEPT !.pc = "write", !.verdict = v]) /\ PassedGate([t EXCEPT !.pc = "write", !.verdict = v])
    BY <2>1 DEF HoldsRowHash, PassedGate, Confirming, GoodTask, Task
  <2>5. HoldsRowHash([t EXCEPT !.pc = "details"]) /\ PassedGate([t EXCEPT !.pc = "details"])
    BY <2>1 DEF HoldsRowHash, PassedGate, Confirming, GoodTask, Task
  <2> HIDE DEF t
  <2> QED BY <1>a, <2>2, <2>3, <2>4, <2>5, AfterLegHolds, TaskStep DEF Receipt
<1>11. ASSUME NEW p \in Processes, ReadDetails(p) PROVE IntegrityInv'
  <2> DEFINE t == task[p]
             pass == [t EXCEPT !.pc = "confirmations"]
             fail == [t EXCEPT !.pc = "write", !.verdict = "FAILED"]
  <2>1. GoodTask(t) /\ t.pc = "details" /\ HoldsRowHash(t)
    BY <1>11, <1>a, CurrentTask DEF ReadDetails, IntegrityInv, SnapshotsCurrent
  <2>2. \/ transactionMatchesQuote(t.hash, t.quote, t.leg) /\ task' = [task EXCEPT ![p] = pass]
        \/ task' = [task EXCEPT ![p] = fail]
    BY <1>11 DEF ReadDetails
  <2>3. row' = row /\ chain' = chain /\ batch' \subseteq batch
    BY <1>11 DEF ReadDetails
  <2>4. HoldsRowHash(fail) /\ PassedGate(fail) /\ HoldsRowHash(pass)
    BY <2>1 DEF HoldsRowHash, PassedGate, Confirming, GoodTask, Task
  <2>5. transactionMatchesQuote(t.hash, t.quote, t.leg) => PassedGate(pass)
    BY <2>1 DEF PassedGate, Confirming, GoodTask, Task
  <2> HIDE DEF t, pass, fail
  <2> QED BY <1>a, <2>2, <2>3, <2>4, <2>5, TaskStep
<1>12. ASSUME NEW p \in Processes, ReadConfirmations(p) PROVE IntegrityInv'
  <2> DEFINE t == task[p]
             pass == [t EXCEPT !.pc = "write", !.verdict = "CONFIRMED"]
             seen == [t EXCEPT !.pc = "head", !.depth = chain[t.hash].depth]
  <2>1. GoodTask(t) /\ t.pc = "confirmations" /\ HoldsRowHash(t) /\ PassedGate(t)
    BY <1>12, <1>a, CurrentTask DEF ReadConfirmations, IntegrityInv, SnapshotsCurrent, GatePassed
  <2>2. \/ SplitDepthRead /\ task' = [task EXCEPT ![p] = seen]
        \/ Settled(t.hash) /\ task' = [task EXCEPT ![p] = pass]
        \/ task' = [task EXCEPT ![p] = AfterLeg(t, t.fee)]
    <3>1. CASE chain[t.hash].receipt = "none"
      BY <1>12, <3>1 DEF ReadConfirmations, JudgeDepth
    <3>2. CASE chain[t.hash].receipt # "none" /\ SplitDepthRead
      BY <1>12, <1>a, <3>2 DEF ReadConfirmations, TypeInv, TypeOK
    <3>3. CASE chain[t.hash].receipt # "none" /\ ~SplitDepthRead
      BY <1>12, <3>3 DEF ReadConfirmations, JudgeDepth, getConfirmationCount, Settled
    <3> QED BY <3>1, <3>2, <3>3
  <2>3. row' = row /\ chain' = chain /\ batch' \subseteq batch
    BY <1>12 DEF ReadConfirmations
  <2>4. HoldsRowHash(pass) /\ (Settled(t.hash) => PassedGate(pass))
    BY <2>1 DEF HoldsRowHash, PassedGate, Confirming, GoodTask, Task
  <2>5. HoldsRowHash(seen) /\ (SplitDepthRead => PassedGate(seen))
    BY <2>1 DEF HoldsRowHash, PassedGate, Confirming, GoodTask, Task
  <2> HIDE DEF t, pass, seen
  <2> QED BY <1>a, <2>2, <2>3, <2>4, <2>5, AfterLegHolds, TaskStep
<1>22. ASSUME NEW p \in Processes, ReadHead(p) PROVE IntegrityInv'
  <2> DEFINE t == task[p]
             pass == [t EXCEPT !.pc = "write", !.verdict = "CONFIRMED"]
  <2>1. GoodTask(t) /\ t.pc = "head" /\ HoldsRowHash(t) /\ PassedGate(t)
    BY <1>22, <1>a, CurrentTask DEF ReadHead, IntegrityInv, SnapshotsCurrent, GatePassed
  <2>2. task' = [task EXCEPT ![p] = pass] \/ task' = [task EXCEPT ![p] = AfterLeg(t, t.fee)]
    BY <1>22 DEF ReadHead, JudgeDepth
  <2>3. row' = row /\ chain' = chain /\ batch' \subseteq batch
    BY <1>22 DEF ReadHead
  <2>4. HoldsRowHash(pass) /\ PassedGate(pass)
    BY <2>1 DEF HoldsRowHash, PassedGate, Confirming, GoodTask, Task
  <2> HIDE DEF t, pass
  <2> QED BY <1>a, <2>2, <2>3, <2>4, AfterLegHolds, TaskStep
<1>13. ASSUME NEW p \in Processes, WriteStatus(p) PROVE IntegrityInv'
  <2> DEFINE t == task[p]
             next == AfterLeg(t, IF p = Worker THEN NoLeg ELSE row[t.quote]["fee"])
  <2>1. GoodTask(t) /\ t.pc = "write" /\ HoldsRowHash(t) /\ PassedGate(t)
    BY <1>13, <1>a, CurrentTask DEF WriteStatus, IntegrityInv, SnapshotsCurrent, GatePassed
  <2>2. t.quote \in Quotes /\ t.hash \in Hashes /\ t.leg \in Legs /\ t.verdict \in TradeStatus
    BY <2>1 DEF GoodTask, Task
  <2>3. /\ row'[t.quote][t.leg] = [hash |-> row[t.quote][t.leg].hash, status |-> t.verdict]
        /\ \A q2 \in Quotes, leg2 \in Legs :
              q2 # t.quote \/ leg2 # t.leg => row'[q2][leg2] = row[q2][leg2]
    BY <1>13, <2>1, SetStatus DEF IntegrityInv
  <2>4. task' = [task EXCEPT ![p] = next] /\ chain' = chain /\ batch' = batch
    BY <1>13 DEF WriteStatus
  <2>5. HoldsRowHash(next) /\ PassedGate(next) /\ (next = Idle \/ next.leg = "fee") /\ (next.pc # "idle" => next.quote \in Quotes)
    BY <2>2, AfterLegHolds DEF AfterLeg, FeeRefresh, Refreshing, Idle
  <2> HIDE DEF next
  <2>6. CASE t.leg = "fee"
    <3>1. \A q \in Quotes : row'[q]["swap"] = row[q]["swap"]
      BY <2>3, <2>6 DEF Legs
    <3> QED BY <1>a, <2>4, <2>5, <3>1, SwapKept
  <2>7. CASE t.leg = "swap"
    <3>1. row'[t.quote]["swap"] = [hash |-> t.hash, status |-> t.verdict]
      BY <2>1, <2>3, <2>7 DEF HoldsRowHash
    <3>2. \A q \in Quotes : q # t.quote => row'[q]["swap"] = row[q]["swap"]
      BY <2>3 DEF Legs
    <3>3. \A q \in Quotes : row'[q]["swap"].hash = row[q]["swap"].hash
      BY <2>1, <2>7, <3>1, <3>2 DEF HoldsRowHash
    <3>4. \A p2 \in Processes : task'[p2] = task[p2] \/ task'[p2] = next
      BY <2>4 DEF IntegrityInv, TypeOK
    <3>5. SnapshotsCurrent'
      <4>1. ASSUME NEW p2 \in Processes PROVE HoldsRowHash(task[p2])'
        BY <2>5, <3>3, <3>4 DEF IntegrityInv, SnapshotsCurrent, HoldsRowHash, TaskBound, Idle
      <4>2. ASSUME NEW b \in batch' PROVE b[2] = "swap" => row'[b[1]]["swap"].hash = b[3]
        BY <2>4, <3>3 DEF IntegrityInv, SnapshotsCurrent, TypeOK
      <4> QED BY <4>1, <4>2 DEF SnapshotsCurrent
    <3>6. GatePassed'
      BY <2>4, <2>5, <3>4 DEF IntegrityInv, GatePassed, PassedGate, Settled, transactionMatchesQuote, ExpectedCall
    <3>7. RowBound'
      BY <2>2, <3>1, <3>2, NoneAssumption DEF IntegrityInv, RowBound
    <3>8. SwapIntegrity'
      BY <2>1, <2>7, <3>1, <3>2 DEF IntegrityInv, SwapIntegrity, PassedGate, Confirming,
                                   transactionMatchesQuote, ExpectedCall
    <3>9. SplitDepthRead \/ ConfirmedIsSettled'
      <4>1. SUFFICES ASSUME ~SplitDepthRead, NEW q \in Quotes, row'[q]["swap"].status = "CONFIRMED"
                     PROVE  Settled(row[q]["swap"].hash)'
        BY DEF ConfirmedIsSettled
      <4>2. CASE q # t.quote
        BY <2>4, <3>2, <4>1, <4>2 DEF IntegrityInv, ConfirmedIsSettled, Settled
      <4>3. CASE q = t.quote
        <5>1. t.verdict = "CONFIRMED" /\ row'[q]["swap"].hash = t.hash
          BY <3>1, <4>1, <4>3
        <5>2. Settled(t.hash)
          BY <2>1, <2>7, <4>1, <5>1 DEF PassedGate, Confirming
        <5> QED BY <2>4, <5>1, <5>2 DEF Settled
      <4> QED BY <4>2, <4>3
    <3> QED BY <1>a, <3>5, <3>6, <3>7, <3>8, <3>9 DEF IntegrityInv, TypeInv
  <2> QED BY <2>2, <2>6, <2>7 DEF Legs
<1>14. ASSUME NEW p \in Processes, Abort(p) PROVE IntegrityInv'
  <2>1. task' = [task EXCEPT ![p] = Idle] /\ row' = row /\ chain' = chain /\ batch' \subseteq batch
    BY <1>14 DEF Abort
  <2> QED BY <1>a, <2>1, AfterLegHolds, TaskStep
<1>15. ASSUME NEW q \in Quotes, NEW leg \in Legs, AgeSubmission(q, leg) PROVE IntegrityInv'
  BY <1>15, <1>a, ChainStep DEF AgeSubmission, Settled
<1>16. ASSUME NEW q \in Quotes, ExpireQuote(q) PROVE IntegrityInv'
  BY <1>16, <1>a, ChainStep DEF ExpireQuote, Settled
<1>17. ASSUME NEW a \in Addresses, UnlinkWallet(a) PROVE IntegrityInv'
  BY <1>17, <1>a, ChainStep DEF UnlinkWallet, Settled
<1>18. ASSUME NEW h \in Hashes, Mine(h) PROVE IntegrityInv'
  <2>1. \A h2 \in Hashes : Settled(h2) => Settled(h2)'
    BY <1>18 DEF Mine, Settled, IntegrityInv, TypeOK
  <2> QED BY <1>18, <1>a, <2>1, ChainStep DEF Mine
<1>19. CASE NewBlock
  <2>1. \A h \in Hashes : Settled(h) => Settled(h)'
    BY <1>19, DepthAssumption DEF NewBlock, Deeper, Settled, IntegrityInv, TypeOK
  <2>2. \A p \in Processes : /\ task'[p].pc = task[p].pc /\ task'[p].quote = task[p].quote
                             /\ task'[p].leg = task[p].leg /\ task'[p].hash = task[p].hash
                             /\ task'[p].verdict = task[p].verdict
    BY <1>19 DEF NewBlock, IntegrityInv, TypeOK, Task
  <2> QED BY <1>19, <1>a, <2>1, <2>2, ChainStep DEF NewBlock
<1>20. ASSUME NEW blocks \in 1..ReorgDepth, Reorg(blocks) PROVE IntegrityInv'
  <2>1. \A h \in Hashes : Settled(h) => Settled(h)'
    BY <1>20, DepthAssumption DEF Reorg, Settled, IntegrityInv, TypeOK
  <2> QED BY <1>20, <1>a, <2>1, ChainStep DEF Reorg
<1>21. CASE UNCHANGED vars
  BY <1>21, <1>a, ChainStep DEF vars, Settled
<1> QED
  BY <1>1, <1>2, <1>3, <1>4, <1>5, <1>6, <1>7, <1>8, <1>9, <1>10, <1>11, <1>12, <1>13, <1>14,
     <1>15, <1>16, <1>17, <1>18, <1>19, <1>20, <1>21, <1>22
     DEF Next, HandlerStep, RefreshStep, SweepStep, Environment

\* The inductive invariant holds in every reachable state.
LEMMA IntegrityHolds == Spec => []IntegrityInv
BY IntegrityInit, IntegrityStep, PTL DEF Spec

\* A swap is CONFIRMED only if its recorded hash is the quoted transaction, whatever
\* refreshes, sweeps and submissions interleave, and whatever the RPC and the chain do.
THEOREM SwapIntegrityHolds == Spec => []SwapIntegrity
<1>1. IntegrityInv => SwapIntegrity
  BY DEF IntegrityInv
<1> QED BY <1>1, IntegrityHolds, PTL

\* A CONFIRMED swap stays mined at minConfirmations for good, as long as the chain
\* reorganises no deeper than that and the depth is read off one view of the chain.
THEOREM ConfirmedIsSettledHolds ==
    ASSUME ~SplitDepthRead
    PROVE  Spec => []ConfirmedIsSettled
<1>1. IntegrityInv => ConfirmedIsSettled
  BY DEF IntegrityInv
<1> QED BY <1>1, IntegrityHolds, PTL

-----------------------------------------------------------------------------
\* The rows change in three ways: a swap is inserted for a free quote under a free hash,
\* a fee hash that no other row has is put on a row, a status is written.
RowChange ==
    \/ row' = row
    \/ \E q \in Quotes, h \in Hashes :
          /\ row[q]["swap"].hash = None
          /\ \A q2 \in Quotes : row[q2]["swap"].hash # h
          /\ row' = [row EXCEPT ![q]["swap"] = [hash |-> h, status |-> "PENDING"]]
    \/ \E q \in Quotes, h \in Hashes :
          /\ \A q2 \in Quotes \ {q} : row[q2]["fee"].hash # h
          /\ row' = [row EXCEPT ![q]["fee"] = [hash |-> h, status |-> "PENDING"]]
    \/ \A q \in Quotes, leg \in Legs : row'[q][leg].hash = row[q][leg].hash

\* Every step changes the rows in one of these ways.
LEMMA RowChanges == TypeInv /\ [Next]_vars => RowChange
<1> SUFFICES ASSUME TypeInv, [Next]_vars PROVE RowChange
  OBVIOUS
<1>1. ASSUME NEW p \in Handlers, CreateRow(p) PROVE RowChange
  <2>1. task[p].quote \in Quotes /\ task[p].hash \in Hashes
    BY <1>1 DEF CreateRow, TypeInv, TaskBound, Processes
  <2> QED BY <1>1, <2>1 DEF CreateRow, RowChange, HashRecorded
<1>2. ASSUME NEW p \in Handlers, FeeUpdate(p) PROVE RowChange
  <2>1. task[p].quote \in Quotes /\ task[p].hash \in Hashes
    BY <1>2 DEF FeeUpdate, TypeInv, TaskBound, Processes
  <2> QED BY <1>2, <2>1 DEF FeeUpdate, RowChange
<1>3. ASSUME NEW p \in Processes, WriteStatus(p) PROVE RowChange
  <2> DEFINE t == task[p]
  <2>1. GoodTask(t)
    BY CurrentTask
  <2>2. /\ row'[t.quote][t.leg] = [hash |-> row[t.quote][t.leg].hash, status |-> t.verdict]
        /\ \A q \in Quotes, leg \in Legs :
              q # t.quote \/ leg # t.leg => row'[q][leg] = row[q][leg]
    BY <1>3, <2>1, SetStatus DEF TypeInv
  <2>3. \A q \in Quotes, leg \in Legs : row'[q][leg].hash = row[q][leg].hash
    BY <2>2
  <2> QED BY <2>3 DEF RowChange
<1>4. ASSUME NEW p \in Handlers, HandlerStep(p) PROVE RowChange
  BY <1>1, <1>2, <1>4 DEF HandlerStep, SubmitTransaction, SubmitDetails, SubmitFeeTransaction,
                          FeeDetails, GetTransaction, RowChange
<1>5. ASSUME NEW p \in Processes, RefreshStep(p) \/ Abort(p) PROVE RowChange
  BY <1>3, <1>5 DEF RefreshStep, ReadReceipt, ReadDetails, ReadConfirmations, ReadHead, Abort, RowChange
<1>6. CASE SweepStep \/ Environment \/ UNCHANGED vars
  BY <1>6 DEF SweepStep, SweepQuery, SweepRow, Environment, AgeSubmission, ExpireQuote,
              UnlinkWallet, Mine, NewBlock, Reorg, vars, RowChange
<1> QED BY <1>4, <1>5, <1>6 DEF Next

\* Such a change keeps the two unique keys of the table: no hash on two rows.
LEMMA OneRowKept == TypeInv /\ OneRowPerTransaction /\ RowChange => OneRowPerTransaction'
<1> SUFFICES ASSUME TypeInv, OneRowPerTransaction, RowChange PROVE OneRowPerTransaction'
  OBVIOUS
<1>1. CASE row' = row
  BY <1>1 DEF OneRowPerTransaction
<1>2. ASSUME NEW q \in Quotes, NEW h \in Hashes, \A q2 \in Quotes : row[q2]["swap"].hash # h,
             row' = [row EXCEPT ![q]["swap"] = [hash |-> h, status |-> "PENDING"]]
      PROVE  OneRowPerTransaction'
  <2> DEFINE new == [hash |-> h, status |-> "PENDING"]
  <2>1. new \in Leg /\ new.hash = h
    BY DEF Leg, TradeStatus
  <2> HIDE DEF new
  <2>2. row' = [row EXCEPT ![q]["swap"] = new]
    BY <1>2 DEF new
  <2>3. /\ row'[q]["swap"].hash = h
        /\ \A q2 \in Quotes, leg2 \in Legs : q2 # q \/ leg2 # "swap" => row'[q2][leg2] = row[q2][leg2]
    BY <2>1, <2>2, SetLeg DEF TypeInv, Legs
  <2> QED BY <1>2, <2>3 DEF OneRowPerTransaction, Legs
<1>3. ASSUME NEW q \in Quotes, NEW h \in Hashes, \A q2 \in Quotes \ {q} : row[q2]["fee"].hash # h,
             row' = [row EXCEPT ![q]["fee"] = [hash |-> h, status |-> "PENDING"]]
      PROVE  OneRowPerTransaction'
  <2> DEFINE new == [hash |-> h, status |-> "PENDING"]
  <2>1. new \in Leg /\ new.hash = h
    BY DEF Leg, TradeStatus
  <2> HIDE DEF new
  <2>2. row' = [row EXCEPT ![q]["fee"] = new]
    BY <1>3 DEF new
  <2>3. /\ row'[q]["fee"].hash = h
        /\ \A q2 \in Quotes, leg2 \in Legs : q2 # q \/ leg2 # "fee" => row'[q2][leg2] = row[q2][leg2]
    BY <2>1, <2>2, SetLeg DEF TypeInv, Legs
  <2> QED BY <1>3, <2>3 DEF OneRowPerTransaction, Legs
<1>4. CASE \A q \in Quotes, leg \in Legs : row'[q][leg].hash = row[q][leg].hash
  BY <1>4 DEF OneRowPerTransaction
<1> QED BY <1>1, <1>2, <1>3, <1>4 DEF RowChange

\* No on-chain transaction stands for two trades, however submissions race.
THEOREM OneRowPerTransactionHolds == Spec => []OneRowPerTransaction
<1>1. Init => OneRowPerTransaction
  BY DEF Init, OneRowPerTransaction, NoLeg
<1> QED BY <1>1, TypeInit, TypeStep, RowChanges, OneRowKept, PTL DEF Spec

\* Nor does it change the hash of a recorded swap.
LEMMA HashKept ==
    ASSUME TypeInv, RowChange
    PROVE  \A q \in Quotes : row[q]["swap"].hash # None => row'[q]["swap"].hash = row[q]["swap"].hash
<1>1. ASSUME NEW q \in Quotes, NEW h \in Hashes, NEW leg \in Legs,
             row' = [row EXCEPT ![q][leg] = [hash |-> h, status |-> "PENDING"]]
      PROVE  \A q2 \in Quotes, leg2 \in Legs : q2 # q \/ leg2 # leg => row'[q2][leg2] = row[q2][leg2]
  <2>1. [hash |-> h, status |-> "PENDING"] \in Leg
    BY DEF Leg, TradeStatus
  <2> QED BY <1>1, <2>1, SetLeg DEF TypeInv
<1> QED BY <1>1 DEF RowChange, Legs

\* The hash a trade was opened with never changes.
THEOREM SwapHashImmutableHolds == Spec => SwapHashImmutable
<1>1. ASSUME TypeInv, [Next]_vars
      PROVE  [\A q \in Quotes : row[q]["swap"].hash # None
                 => row'[q]["swap"].hash = row[q]["swap"].hash]_vars
  BY <1>1, RowChanges, HashKept
<1> QED BY <1>1, TypeInit, TypeStep, PTL DEF Spec, SwapHashImmutable

-----------------------------------------------------------------------------
\* A process that has stopped, submits, or starts to read has concluded nothing yet.
LEMMA NothingConcluded ==
    ASSUME NEW t, t.pc \in {"idle", "submitDetails", "create", "feeDetails", "feeUpdate", "receipt"}
    PROVE  ConcludedTruly(t)
BY DEF ConcludedTruly, Confirming

\* Nor has one that goes on with the fee leg or stops.
LEMMA AfterLegStarts ==
    /\ Idle.pc = "idle"
    /\ \A q, leg, h, fee : Refreshing(q, leg, h, fee).pc = "receipt"
    /\ \A q, fee : FeeRefresh(q, fee).pc \in {"idle", "receipt"}
    /\ \A t, fee : AfterLeg(t, fee).pc \in {"idle", "receipt"}
BY DEF AfterLeg, FeeRefresh, Refreshing, Idle

\* Moving one process to a task that has concluded truly, with no new verdict in the rows.
LEMMA VerdictTaskStep ==
    ASSUME IntegrityInv, VerdictInv, NEW p \in Processes, NEW t, task' = [task EXCEPT ![p] = t],
           ConcludedTruly(t), chain' = chain,
           \A q \in Quotes : \/ row'[q]["swap"] = row[q]["swap"]
                             \/ row'[q]["swap"].status \notin {"CONFIRMED", "FAILED"}
    PROVE  VerdictInv'
<1>1. \A p2 \in Processes : task'[p2] = task[p2] \/ task'[p2] = t
  BY DEF IntegrityInv, TypeOK
<1>2. \A p2 \in Processes : ConcludedTruly(task[p2])'
  BY <1>1 DEF VerdictInv, ConcludedTruly, Confirming, transactionMatchesQuote, ExpectedCall
<1>3. VerdictsTrue'
  BY DEF VerdictInv, VerdictsTrue, ConfirmedSucceeded, FailedOnEvidence, transactionMatchesQuote, ExpectedCall
<1> QED BY <1>2, <1>3 DEF VerdictInv

\* A step of the chain that takes no receipt back, and of the clocks.
LEMMA VerdictChainStep ==
    ASSUME IntegrityInv, VerdictInv, row' = row,
           \A p \in Processes : /\ task'[p].pc = task[p].pc /\ task'[p].quote = task[p].quote
                                /\ task'[p].leg = task[p].leg /\ task'[p].hash = task[p].hash
                                /\ task'[p].verdict = task[p].verdict,
           \A h \in Hashes : chain[h].receipt # "none" => chain'[h].receipt = chain[h].receipt
    PROVE  VerdictInv'
<1>1. ASSUME NEW p \in Processes PROVE ConcludedTruly(task[p])'
  <2>1. CASE task[p].pc = "idle"
    BY <2>1 DEF ConcludedTruly, Confirming
  <2>2. CASE task[p].pc # "idle"
    <3>1. task[p].hash \in Hashes
      BY <2>2 DEF IntegrityInv, TaskBound
    <3> QED BY <3>1 DEF VerdictInv, ConcludedTruly, Confirming, transactionMatchesQuote, ExpectedCall
  <2> QED BY <2>1, <2>2
<1>2. ASSUME NEW q \in Quotes, row[q]["swap"].status \in {"CONFIRMED", "FAILED"}
      PROVE  row[q]["swap"].hash \in Hashes
  BY <1>2, RowLegs DEF IntegrityInv, RowBound, Leg
<1>3. VerdictsTrue'
  BY <1>2 DEF VerdictInv, VerdictsTrue, ConfirmedSucceeded, FailedOnEvidence, transactionMatchesQuote, ExpectedCall
<1> QED BY <1>1, <1>3 DEF VerdictInv

\* Every step preserves the truth of what was concluded and written.
LEMMA VerdictStep ==
    ASSUME ReorgDepth = 0, ~RpcHiccups, IntegrityInv, VerdictInv, [Next]_vars
    PROVE  VerdictInv'
<1>a. TypeInv
  BY DEF IntegrityInv, TypeInv
<1>b. Handlers \subseteq Processes /\ Worker \in Processes
  BY DEF Processes
<1>1. ASSUME NEW p \in Handlers, HandlerStep(p) PROVE VerdictInv'
  <2>1. PICK t : task' = [task EXCEPT ![p] = t] /\ t.pc \in {"idle", "submitDetails", "create", "feeDetails", "feeUpdate", "receipt"}
    <3>1. GoodTask(task[p])
      BY <1>a, <1>b, CurrentTask
    <3>2. ASSUME NEW q \in Quotes, NEW h \in Hashes, SubmitTransaction(p, q, h) \/ SubmitFeeTransaction(p, q, h)
          PROVE  \E t : task' = [task EXCEPT ![p] = t] /\ t.pc \in {"submitDetails", "feeDetails"}
      <4>1. \A pc, leg : Submitting(pc, q, leg, h).pc = pc
        BY DEF Submitting
      <4> QED BY <3>2, <4>1 DEF SubmitTransaction, SubmitFeeTransaction
    <3>3. ASSUME SubmitDetails(p) \/ FeeDetails(p)
          PROVE  \E t : task' = [task EXCEPT ![p] = t] /\ t.pc \in {"create", "feeUpdate", "idle"}
      <4>1. \A pc : [task[p] EXCEPT !.pc = pc].pc = pc
        BY <3>1 DEF GoodTask, Task
      <4>2. Idle.pc = "idle"
        BY AfterLegStarts
      <4>3. CASE SubmitDetails(p)
        BY <4>1, <4>2, <4>3, <1>a, <1>b DEF SubmitDetails, TypeInv, TypeOK
      <4>4. CASE FeeDetails(p)
        BY <4>1, <4>2, <4>4, <1>a, <1>b DEF FeeDetails, TypeInv, TypeOK
      <4> QED BY <3>3, <4>3, <4>4
    <3>4. ASSUME CreateRow(p) \/ FeeUpdate(p)
          PROVE  \E t : task' = [task EXCEPT ![p] = t] /\ t.pc = "idle"
      BY <3>4, AfterLegStarts DEF CreateRow, FeeUpdate
    <3>5. ASSUME NEW q \in Quotes, GetTransaction(p, q)
          PROVE  \E t : task' = [task EXCEPT ![p] = t] /\ t.pc \in {"idle", "receipt"}
      <4>1. PICK t : /\ task' = [task EXCEPT ![p] = t]
                     /\ \/ t = Refreshing(q, "swap", row[q]["swap"].hash, row[q]["fee"])
                        \/ t = FeeRefresh(q, row[q]["fee"])
        BY <3>5 DEF GetTransaction
      <4>2. t.pc \in {"idle", "receipt"}
        <5>1. CASE t = Refreshing(q, "swap", row[q]["swap"].hash, row[q]["fee"])
          BY <5>1, AfterLegStarts
        <5>2. CASE t = FeeRefresh(q, row[q]["fee"])
          BY <5>2, AfterLegStarts
        <5> QED BY <4>1, <5>1, <5>2
      <4> QED BY <4>1, <4>2
    <3> QED BY <1>1, <3>2, <3>3, <3>4, <3>5 DEF HandlerStep
  <2>2. ConcludedTruly(t)
    BY <2>1, NothingConcluded
  <2>3. chain' = chain
    BY <1>1 DEF HandlerStep, SubmitTransaction, SubmitDetails, CreateRow, SubmitFeeTransaction,
                FeeDetails, FeeUpdate, GetTransaction
  <2>4. \A q \in Quotes : \/ row'[q]["swap"] = row[q]["swap"]
                          \/ row'[q]["swap"].status \notin {"CONFIRMED", "FAILED"}
    <3>1. ASSUME NEW q \in Quotes, NEW h \in Hashes, NEW leg \in Legs,
                 row' = [row EXCEPT ![q][leg] = [hash |-> h, status |-> "PENDING"]]
          PROVE  \A q2 \in Quotes : \/ row'[q2]["swap"] = row[q2]["swap"]
                                    \/ row'[q2]["swap"].status = "PENDING"
      <4> DEFINE new == [hash |-> h, status |-> "PENDING"]
      <4>0. TypeOK /\ new \in Leg
        BY <1>a DEF TypeInv, Leg, TradeStatus
      <4>1. new.status = "PENDING" /\ row' = [row EXCEPT ![q][leg] = new]
        BY <3>1
      <4> HIDE DEF new
      <4>2. /\ row'[q][leg] = new
            /\ \A q2 \in Quotes, leg2 \in Legs : q2 # q \/ leg2 # leg => row'[q2][leg2] = row[q2][leg2]
        <5>1. SetsLeg(q, leg, new)
          BY <4>1 DEF SetsLeg
        <5> QED BY <4>0, <5>1, SetLegIs
      <4> QED BY <4>1, <4>2 DEF Legs
    <3>2. CASE CreateRow(p) \/ FeeUpdate(p)
      <4>1. task[p].quote \in Quotes /\ task[p].hash \in Hashes
        BY <3>2, <1>a, <1>b DEF CreateRow, FeeUpdate, TypeInv, TaskBound
      <4>2. \/ row' = row
            \/ \E leg \in Legs : row' = [row EXCEPT ![task[p].quote][leg] = [hash |-> task[p].hash, status |-> "PENDING"]]
        BY <3>2 DEF CreateRow, FeeUpdate, Legs
      <4> QED BY <3>1, <4>1, <4>2
    <3>3. CASE ~(CreateRow(p) \/ FeeUpdate(p))
      BY <1>1, <3>3 DEF HandlerStep, SubmitTransaction, SubmitDetails, SubmitFeeTransaction,
                        FeeDetails, GetTransaction
    <3> QED BY <3>2, <3>3
  <2> QED BY <1>b, <2>1, <2>2, <2>3, <2>4, VerdictTaskStep
<1>2. CASE SweepStep
  <2>1. CASE \E leg \in Legs : SweepQuery(leg)
    BY <2>1, VerdictChainStep DEF SweepQuery
  <2>2. CASE SweepRow
    <3>1. PICK b \in batch : task' = [task EXCEPT ![Worker] = Refreshing(b[1], b[2], b[3], NoLeg)]
      BY <2>2 DEF SweepRow
    <3>2. ConcludedTruly(Refreshing(b[1], b[2], b[3], NoLeg))
      BY AfterLegStarts, NothingConcluded
    <3> QED BY <1>b, <2>2, <3>1, <3>2, VerdictTaskStep DEF SweepRow
  <2> QED BY <1>2, <2>1, <2>2 DEF SweepStep
<1>3. ASSUME NEW p \in Processes, ReadReceipt(p) PROVE VerdictInv'
  <2>1. PICK t : t = task[p]
    OBVIOUS
  <2>2. GoodTask(t) /\ t.pc # "idle" /\ t.hash \in Hashes
    BY <1>3, <1>a, <2>1, CurrentTask DEF ReadReceipt, GoodTask
  <2>3. chain[t.hash].receipt \in Receipt
    BY <1>a, <2>2 DEF TypeInv, TypeOK
  <2> DEFINE good == [t EXCEPT !.pc = "details"]
             bad == [t EXCEPT !.pc = "write", !.verdict = "FAILED"]
             old == [t EXCEPT !.pc = "write", !.verdict = "EXPIRED"]
  <2>4. PICK x : /\ task' = [task EXCEPT ![p] = x]
                 /\ \/ chain[t.hash].receipt = "success" /\ x = good
                    \/ chain[t.hash].receipt = "reverted" /\ x = bad
                    \/ x = old
                    \/ x = AfterLeg(t, t.fee)
    BY <1>3, <1>a, <2>1, <2>3 DEF ReadReceipt, getTransactionReceiptStatus, TypeInv, TypeOK, Receipt
  <2>5. ConcludedTruly(x)
    <3>1. /\ good.pc = "details" /\ good.hash = t.hash
          /\ bad.pc = "write" /\ bad.verdict = "FAILED" /\ bad.hash = t.hash
          /\ old.pc = "write" /\ old.verdict = "EXPIRED"
      BY <2>2 DEF GoodTask, Task
    <3> HIDE DEF good, bad, old
    <3>2. CASE chain[t.hash].receipt = "success" /\ x = good
      BY <3>1, <3>2 DEF ConcludedTruly, Confirming
    <3>3. CASE chain[t.hash].receipt = "reverted" /\ x = bad
      BY <3>1, <3>3 DEF ConcludedTruly, Confirming
    <3>4. CASE x = old
      BY <3>1, <3>4 DEF ConcludedTruly, Confirming
    <3>5. CASE x = AfterLeg(t, t.fee)
      BY <3>5, AfterLegStarts, NothingConcluded
    <3> QED BY <2>4, <3>2, <3>3, <3>4, <3>5
  <2> QED BY <1>3, <2>4, <2>5, VerdictTaskStep DEF ReadReceipt
<1>4. ASSUME NEW p \in Processes, ReadDetails(p) PROVE VerdictInv'
  <2>1. PICK t : t = task[p]
    OBVIOUS
  <2>2. GoodTask(t) /\ t.pc = "details" /\ chain[t.hash].receipt = "success"
    BY <1>4, <1>a, <2>1, CurrentTask DEF ReadDetails, VerdictInv, ConcludedTruly
  <2> DEFINE pass == [t EXCEPT !.pc = "confirmations"]
             fail == [t EXCEPT !.pc = "write", !.verdict = "FAILED"]
  <2>3. getTransactionDetails(t.hash) = {TRUE}
    BY <2>2 DEF getTransactionDetails
  <2>4. PICK x : /\ task' = [task EXCEPT ![p] = x]
                 /\ \/ x = pass
                    \/ ~transactionMatchesQuote(t.hash, t.quote, t.leg) /\ x = fail
    <3>1. PICK found \in {TRUE} :
             task' = [task EXCEPT ![p] =
                        IF found /\ transactionMatchesQuote(t.hash, t.quote, t.leg) THEN pass ELSE fail]
      BY <1>4, <1>a, <2>1, <2>3 DEF ReadDetails, TypeInv, TypeOK
    <3> HIDE DEF pass, fail
    <3>2. CASE transactionMatchesQuote(t.hash, t.quote, t.leg)
      BY <3>1, <3>2
    <3>3. CASE ~transactionMatchesQuote(t.hash, t.quote, t.leg)
      BY <3>1, <3>3
    <3> QED BY <3>2, <3>3
  <2>5. ConcludedTruly(x)
    <3>1. /\ pass.pc = "confirmations" /\ pass.hash = t.hash
          /\ fail.pc = "write" /\ fail.verdict = "FAILED" /\ fail.hash = t.hash
          /\ fail.quote = t.quote /\ fail.leg = t.leg
      BY <2>2 DEF GoodTask, Task
    <3> HIDE DEF pass, fail
    <3> QED BY <2>2, <2>4, <3>1 DEF ConcludedTruly, Confirming
  <2> QED BY <1>4, <2>4, <2>5, VerdictTaskStep DEF ReadDetails
<1>5. ASSUME NEW p \in Processes, ReadConfirmations(p) \/ ReadHead(p) PROVE VerdictInv'
  <2>1. PICK t : t = task[p]
    OBVIOUS
  <2>2. GoodTask(t) /\ t.pc \in {"confirmations", "head"} /\ chain[t.hash].receipt = "success"
    BY <1>5, <1>a, <2>1, CurrentTask DEF ReadConfirmations, ReadHead, VerdictInv, ConcludedTruly
  <2> DEFINE pass == [t EXCEPT !.pc = "write", !.verdict = "CONFIRMED"]
             seen == [t EXCEPT !.pc = "head", !.depth = chain[t.hash].depth]
  <2>3. PICK x : task' = [task EXCEPT ![p] = x] /\ x \in {pass, seen, AfterLeg(t, t.fee)}
    <3>1. CASE ReadConfirmations(p)
      BY <1>a, <2>1, <2>2, <3>1 DEF ReadConfirmations, JudgeDepth, TypeInv, TypeOK
    <3>2. CASE ReadHead(p)
      BY <1>a, <2>1, <3>2 DEF ReadHead, JudgeDepth, TypeInv, TypeOK
    <3> QED BY <1>5, <3>1, <3>2
  <2>4. ConcludedTruly(x)
    <3>1. /\ pass.pc = "write" /\ pass.verdict = "CONFIRMED" /\ pass.hash = t.hash
          /\ seen.pc = "head" /\ seen.hash = t.hash
      BY <2>2 DEF GoodTask, Task
    <3> HIDE DEF pass, seen
    <3>2. CASE x = pass
      BY <2>2, <3>1, <3>2 DEF ConcludedTruly, Confirming
    <3>3. CASE x = seen
      BY <2>2, <3>1, <3>3 DEF ConcludedTruly, Confirming
    <3>4. CASE x = AfterLeg(t, t.fee)
      BY <3>4, AfterLegStarts, NothingConcluded
    <3> QED BY <2>3, <3>2, <3>3, <3>4
  <2> QED BY <1>5, <2>3, <2>4, VerdictTaskStep DEF ReadConfirmations, ReadHead
<1>6. ASSUME NEW p \in Processes, WriteStatus(p) PROVE VerdictInv'
  <2>1. PICK t : t = task[p]
    OBVIOUS
  <2>2. GoodTask(t) /\ t.pc = "write" /\ ConcludedTruly(t) /\ HoldsRowHash(t)
    BY <1>6, <1>a, <2>1, CurrentTask DEF WriteStatus, VerdictInv, IntegrityInv, SnapshotsCurrent
  <2>3. PICK x : task' = [task EXCEPT ![p] = x] /\ x.pc \in {"idle", "receipt"}
    BY <1>6, AfterLegStarts DEF WriteStatus
  <2>4. chain' = chain
    BY <1>6 DEF WriteStatus
  <2>5. \A p2 \in Processes : ConcludedTruly(task[p2])'
    <3>1. ConcludedTruly(x)
      BY <2>3, NothingConcluded
    <3>2. \A p2 \in Processes : task'[p2] = task[p2] \/ task'[p2] = x
      BY <1>a, <2>3 DEF TypeInv, TypeOK
    <3> QED BY <2>4, <3>1, <3>2 DEF VerdictInv, ConcludedTruly, Confirming, transactionMatchesQuote, ExpectedCall
  <2>6. VerdictsTrue'
    <3>1. /\ row'[t.quote][t.leg] = [hash |-> row[t.quote][t.leg].hash, status |-> t.verdict]
          /\ \A q2 \in Quotes, leg2 \in Legs :
                q2 # t.quote \/ leg2 # t.leg => row'[q2][leg2] = row[q2][leg2]
      BY <1>6, <1>a, <2>1, <2>2, SetStatus DEF TypeInv
    <3> SUFFICES ASSUME NEW q \in Quotes
                 PROVE  /\ row'[q]["swap"].status = "CONFIRMED"
                              => chain[row'[q]["swap"].hash].receipt = "success"
                        /\ row'[q]["swap"].status = "FAILED"
                              => \/ chain[row'[q]["swap"].hash].receipt = "reverted"
                                 \/ ~transactionMatchesQuote(row'[q]["swap"].hash, q, "swap")
      BY <2>4 DEF VerdictsTrue, ConfirmedSucceeded, FailedOnEvidence, transactionMatchesQuote, ExpectedCall
    <3>2. CASE q = t.quote /\ t.leg = "swap"
      <4>1. row'[q]["swap"].hash = t.hash /\ row'[q]["swap"].status = t.verdict
        BY <2>2, <3>1, <3>2 DEF HoldsRowHash
      <4> QED BY <2>2, <3>2, <4>1 DEF ConcludedTruly, Confirming
    <3>3. CASE ~(q = t.quote /\ t.leg = "swap")
      <4>1. row'[q]["swap"] = row[q]["swap"]
        BY <3>1, <3>3 DEF Legs
      <4> QED BY <4>1 DEF VerdictInv, VerdictsTrue, ConfirmedSucceeded, FailedOnEvidence
    <3> QED BY <3>2, <3>3
  <2> QED BY <2>5, <2>6 DEF VerdictInv
<1>7. ASSUME NEW p \in Processes, Abort(p) PROVE VerdictInv'
  <2>1. ConcludedTruly(Idle)
    BY AfterLegStarts, NothingConcluded
  <2> QED BY <1>7, <2>1, VerdictTaskStep DEF Abort
<1>8. CASE Environment
  <2>1. ASSUME NEW q \in Quotes, ExpireQuote(q) \/ (\E leg \in Legs : AgeSubmission(q, leg)) PROVE VerdictInv'
    BY <2>1, VerdictChainStep DEF ExpireQuote, AgeSubmission
  <2>2. ASSUME NEW a \in Addresses, UnlinkWallet(a) PROVE VerdictInv'
    BY <2>2, VerdictChainStep DEF UnlinkWallet
  <2>3. ASSUME NEW h \in Hashes, Mine(h) PROVE VerdictInv'
    <3>1. \A h2 \in Hashes : chain[h2].receipt # "none" => chain'[h2].receipt = chain[h2].receipt
      BY <1>a, <2>3 DEF Mine, TypeInv, TypeOK
    <3> QED BY <2>3, <3>1, VerdictChainStep DEF Mine
  <2>4. CASE NewBlock
    <3>1. \A h \in Hashes : chain'[h].receipt = chain[h].receipt
      BY <1>a, <2>4 DEF NewBlock, TypeInv, TypeOK
    <3>2. \A p \in Processes : /\ task'[p].pc = task[p].pc /\ task'[p].quote = task[p].quote
                               /\ task'[p].leg = task[p].leg /\ task'[p].hash = task[p].hash
                               /\ task'[p].verdict = task[p].verdict
      BY <1>a, <2>4 DEF NewBlock, TypeInv, TypeOK, Task
    <3> QED BY <2>4, <3>1, <3>2, VerdictChainStep DEF NewBlock
  <2>5. 1..ReorgDepth = {}
    OBVIOUS
  <2> QED BY <1>8, <2>1, <2>2, <2>3, <2>4, <2>5 DEF Environment
<1>9. CASE UNCHANGED vars
  BY <1>9, VerdictChainStep DEF vars
<1> QED BY <1>1, <1>2, <1>3, <1>4, <1>5, <1>6, <1>7, <1>8, <1>9 DEF Next, RefreshStep

\* So VerdictInv holds in every reachable state.
LEMMA VerdictInvHolds ==
    ASSUME ReorgDepth = 0, ~RpcHiccups
    PROVE  Spec => []VerdictInv
<1>1. Init => VerdictInv
  <2> SUFFICES ASSUME Init PROVE VerdictInv
    OBVIOUS
  <2>1. \A p \in Processes : ConcludedTruly(task[p])
    BY AfterLegStarts, NothingConcluded DEF Init
  <2>2. VerdictsTrue
    BY DEF Init, VerdictsTrue, ConfirmedSucceeded, FailedOnEvidence, NoLeg, Legs
  <2> QED BY <2>1, <2>2 DEF VerdictInv
<1>2. IntegrityInv /\ VerdictInv /\ [Next]_vars => VerdictInv'
  BY VerdictStep
<1> QED BY <1>1, <1>2, IntegrityHolds, PTL DEF Spec

\* On a chain that does not reorganise, with reads that do not fail, no CONFIRMED and no
\* FAILED contradicts the chain, whoever writes it and however late.
THEOREM VerdictsTrueHolds ==
    ASSUME ReorgDepth = 0, ~RpcHiccups
    PROVE  Spec => []VerdictsTrue
<1>1. VerdictInv => VerdictsTrue
  BY DEF VerdictInv
<1> QED BY <1>1, VerdictInvHolds, PTL

\* No step moves the chain and writes a row at once.
LEMMA ChainOrRow ==
    ASSUME [Next]_vars
    PROVE  chain' = chain \/ row' = row
BY DEF Next, HandlerStep, SubmitTransaction, SubmitDetails, CreateRow, SubmitFeeTransaction, FeeDetails,
       FeeUpdate, GetTransaction, RefreshStep, ReadReceipt, ReadDetails, ReadConfirmations, ReadHead,
       WriteStatus, SweepStep, SweepQuery, SweepRow, Abort, Environment, AgeSubmission, ExpireQuote,
       UnlinkWallet, Mine, NewBlock, Reorg, vars

\* Two verdicts on one hash that are both true of one chain are the same: no late write of a
\* handler or of the sweep turns CONFIRMED into FAILED or FAILED into CONFIRMED.
THEOREM VerdictsNeverFlipHolds ==
    ASSUME ReorgDepth = 0, ~RpcHiccups
    PROVE  Spec => VerdictsNeverFlip
<1>1. ASSUME IntegrityInv, VerdictInv, VerdictInv', IntegrityInv', [Next]_vars
      PROVE  [\A q \in Quotes : {row[q]["swap"].status, row'[q]["swap"].status} # {"CONFIRMED", "FAILED"}]_vars
  <2> SUFFICES ASSUME NEW q \in Quotes,
                      {row[q]["swap"].status, row'[q]["swap"].status} = {"CONFIRMED", "FAILED"}
               PROVE  FALSE
    OBVIOUS
  <2> DEFINE old == row[q]["swap"].status
             new == row'[q]["swap"].status
             h == row[q]["swap"].hash
  <2>1. /\ old \in {"CONFIRMED", "FAILED"} /\ new \in {"CONFIRMED", "FAILED"} /\ old # new
    OBVIOUS
  <2>2. chain' = chain
    BY <1>1, <2>1, ChainOrRow
  <2>3. h # None
    BY <1>1, <2>1 DEF IntegrityInv, RowBound
  <2>4. row'[q]["swap"].hash = h
    BY <1>1, <2>3, RowChanges, HashKept DEF IntegrityInv, TypeInv
  <2>5. /\ old = "CONFIRMED" => transactionMatchesQuote(h, q, "swap") /\ chain[h].receipt = "success"
        /\ old = "FAILED" => ~transactionMatchesQuote(h, q, "swap") \/ chain[h].receipt = "reverted"
    BY <1>1 DEF IntegrityInv, SwapIntegrity, VerdictInv, VerdictsTrue, ConfirmedSucceeded, FailedOnEvidence
  <2>6. /\ new = "CONFIRMED" => transactionMatchesQuote(h, q, "swap") /\ chain[h].receipt = "success"
        /\ new = "FAILED" => ~transactionMatchesQuote(h, q, "swap") \/ chain[h].receipt = "reverted"
    BY <1>1, <2>2, <2>4
    DEF IntegrityInv, SwapIntegrity, VerdictInv, VerdictsTrue, ConfirmedSucceeded, FailedOnEvidence,
        transactionMatchesQuote, ExpectedCall
  <2> QED BY <2>1, <2>5, <2>6
<1>2. IntegrityInv /\ VerdictInv /\ [Next]_vars => IntegrityInv' /\ VerdictInv'
  BY IntegrityStep, VerdictStep
<1> QED BY <1>1, <1>2, IntegrityHolds, VerdictInvHolds, PTL DEF Spec, VerdictsNeverFlip

-----------------------------------------------------------------------------
\* Going on with the fee leg of a row that still has that fee hash, or stopping.
LEMMA FeeRefreshHolds ==
    ASSUME NEW q \in Quotes, NEW fee \in Leg, fee.hash # None => row[q]["fee"].hash = fee.hash
    PROVE  /\ HoldsFeeHash(Idle) /\ Idle.pc = "idle"
           /\ HoldsFeeHash(FeeRefresh(q, fee)) /\ FeeRefresh(q, fee).pc \in {"idle", "receipt"}
BY DEF HoldsFeeHash, FeeRefresh, FeeRefreshable, Refreshing, Idle, NoLeg

\* So does a refresh that ends its leg.
LEMMA AfterLegHoldsFee ==
    ASSUME NEW t, GoodTask(t), t.pc # "idle", NEW fee \in Leg,
           fee.hash # None /\ t.leg = "swap" => row[t.quote]["fee"].hash = fee.hash
    PROVE  HoldsFeeHash(AfterLeg(t, fee)) /\ AfterLeg(t, fee).pc \in {"idle", "receipt"}
<1>1. t.quote \in Quotes /\ NoLeg \in Leg /\ NoLeg.hash = None
  BY NewTasks DEF GoodTask, NoLeg
<1>2. CASE t.leg = "swap"
  BY <1>1, <1>2, FeeRefreshHolds DEF AfterLeg
<1>3. CASE t.leg # "swap"
  BY <1>1, <1>3, FeeRefreshHolds DEF AfterLeg
<1> QED BY <1>2, <1>3

\* A step that moves one process on, replaces no fee hash, and confirms no fee but a quoted one.
LEMMA FeeTaskStep ==
    ASSUME IntegrityInv, FeeInv, NEW p \in Processes, NEW t, task' = [task EXCEPT ![p] = t],
           HoldsFeeHash(t), t.pc # "idle" => t.quote \in Quotes, batch' \subseteq batch,
           p = Worker => t.pc \notin {"feeDetails", "feeUpdate"},
           \A q \in Quotes : row'[q]["fee"].hash = row[q]["fee"].hash,
           \A q \in Quotes : row'[q]["fee"].status = "CONFIRMED"
              => row[q]["fee"].status = "CONFIRMED" \/ transactionMatchesQuote(row[q]["fee"].hash, q, "fee")
    PROVE  FeeInv'
<1>1. \A p2 \in Processes : task'[p2] = task[p2] \/ task'[p2] = t
  BY DEF IntegrityInv, TypeOK
<1>2. ASSUME NEW p2 \in Processes PROVE HoldsFeeHash(task[p2])'
  <2>1. PICK x : x = task'[p2]
    OBVIOUS
  <2>2. HoldsFeeHash(x) /\ (x.pc # "idle" => x.quote \in Quotes)
    BY <1>1, <2>1 DEF FeeInv, IntegrityInv, TaskBound
  <2>3. CASE x.pc = "idle"
    BY <2>1, <2>3 DEF HoldsFeeHash
  <2>4. CASE x.pc # "idle"
    BY <2>1, <2>2, <2>4 DEF HoldsFeeHash
  <2> QED BY <2>3, <2>4
<1>3. task'[Worker].pc \notin {"feeDetails", "feeUpdate"}
  BY DEF FeeInv, IntegrityInv, TypeOK, Processes
<1>4. \A b \in batch' : b[2] = "fee" => row'[b[1]]["fee"].hash = b[3]
  BY DEF FeeInv, IntegrityInv, TypeOK
<1>5. FeeIntegrity'
  BY DEF FeeInv, FeeIntegrity, transactionMatchesQuote, ExpectedCall
<1> QED BY <1>2, <1>3, <1>4, <1>5 DEF FeeInv

\* A step that leaves rows, batch and what tasks hold alone.
LEMMA FeeIdleStep ==
    ASSUME FeeInv, row' = row, batch' = batch, Worker \in Processes,
           \A p \in Processes : /\ task'[p].pc = task[p].pc /\ task'[p].quote = task[p].quote
                                /\ task'[p].leg = task[p].leg /\ task'[p].hash = task[p].hash
                                /\ task'[p].fee = task[p].fee
    PROVE  FeeInv'
BY DEF FeeInv, HoldsFeeHash, FeeIntegrity, transactionMatchesQuote, ExpectedCall

\* A read moves a refresh to its next stage, with the leg, the hashes and the row it holds.
LEMMA NextStageHoldsFee ==
    ASSUME NEW t, GoodTask(t), HoldsFeeHash(t), t.pc \in {"receipt", "details", "confirmations", "head", "write"},
           NEW x, x.pc \in {"details", "confirmations", "head", "write"},
           x.quote = t.quote, x.leg = t.leg, x.hash = t.hash, x.fee = t.fee
    PROVE  HoldsFeeHash(x) /\ x.quote \in Quotes /\ x.pc \notin {"feeDetails", "feeUpdate"}
BY DEF HoldsFeeHash, GoodTask

\* No two submissions of a fee for one trade are under way at once.
FeeSubmitting(p) == task[p].pc \in {"feeDetails", "feeUpdate"}
OneFeeSubmission ==
    \A p1, p2 \in Handlers :
        FeeSubmitting(p1) /\ FeeSubmitting(p2) /\ task[p1].quote = task[p2].quote => p1 = p2

\* As long as that is so, every step preserves the invariant of the fee leg.
LEMMA FeeStep ==
    ASSUME OneFeeSubmission, IntegrityInv, FeeInv, [Next]_vars
    PROVE  FeeInv'
<1>a. TypeInv /\ TypeOK
  BY DEF IntegrityInv, TypeInv
<1>b. Handlers \subseteq Processes /\ Worker \in Processes /\ Worker \notin Handlers
  BY WorkerAssumption DEF Processes
<1>c. HoldsFeeHash(Idle) /\ Idle.pc = "idle"
  BY DEF HoldsFeeHash, Idle
<1>1. ASSUME NEW p \in Handlers, NEW q \in Quotes, NEW h \in Hashes,
             SubmitTransaction(p, q, h) \/ SubmitFeeTransaction(p, q, h)
      PROVE  FeeInv'
  <2>1. PICK t : /\ task' = [task EXCEPT ![p] = t] /\ t.quote = q
                 /\ t.pc = "submitDetails" \/ (t.pc = "feeDetails" /\ row[q]["fee"].hash = None)
    <3>1. \A pc, leg : Submitting(pc, q, leg, h).pc = pc /\ Submitting(pc, q, leg, h).quote = q
      BY DEF Submitting
    <3>2. CASE SubmitTransaction(p, q, h)
      <4> DEFINE s == Submitting("submitDetails", q, "swap", h)
      <4>1. task' = [task EXCEPT ![p] = s] /\ s.pc = "submitDetails" /\ s.quote = q
        BY <3>1, <3>2 DEF SubmitTransaction
      <4> HIDE DEF s
      <4> QED BY <4>1
    <3>3. CASE SubmitFeeTransaction(p, q, h)
      <4> DEFINE s == Submitting("feeDetails", q, "fee", h)
      <4>1. /\ task' = [task EXCEPT ![p] = s] /\ s.pc = "feeDetails" /\ s.quote = q
            /\ row[q]["fee"].hash = None
        BY <3>1, <3>3 DEF SubmitFeeTransaction
      <4> HIDE DEF s
      <4> QED BY <4>1
    <3> QED BY <1>1, <3>2, <3>3
  <2>2. HoldsFeeHash(t)
    BY <2>1 DEF HoldsFeeHash
  <2>3. row' = row /\ batch' = batch
    BY <1>1 DEF SubmitTransaction, SubmitFeeTransaction
  <2> QED BY <1>b, <2>1, <2>2, <2>3, FeeTaskStep
<1>2. ASSUME NEW p \in Handlers, SubmitDetails(p) \/ FeeDetails(p) PROVE FeeInv'
  <2>1. GoodTask(task[p]) /\ task[p].pc # "idle" /\ HoldsFeeHash(task[p])
    BY <1>2, <1>a, <1>b, CurrentTask DEF SubmitDetails, FeeDetails, FeeInv
  <2>2. PICK t : /\ task' = [task EXCEPT ![p] = t]
                 /\ \/ t = Idle
                    \/ t.pc = "create" /\ t.quote = task[p].quote
                    \/ task[p].pc = "feeDetails" /\ t.pc = "feeUpdate" /\ t.quote = task[p].quote
    <3>1. \A pc : [task[p] EXCEPT !.pc = pc].pc = pc /\ [task[p] EXCEPT !.pc = pc].quote = task[p].quote
      BY <2>1 DEF GoodTask, Task
    <3>2. CASE SubmitDetails(p)
      BY <1>a, <1>b, <3>1, <3>2 DEF SubmitDetails, TypeOK
    <3>3. CASE FeeDetails(p)
      BY <1>a, <1>b, <3>1, <3>3 DEF FeeDetails, TypeOK
    <3> QED BY <1>2, <3>2, <3>3
  <2>3. HoldsFeeHash(t) /\ (t.pc # "idle" => t.quote \in Quotes)
    BY <1>c, <2>1, <2>2 DEF HoldsFeeHash, GoodTask
  <2>4. row' = row /\ batch' = batch
    BY <1>2 DEF SubmitDetails, FeeDetails
  <2> QED BY <1>b, <2>2, <2>3, <2>4, FeeTaskStep
<1>3. ASSUME NEW p \in Handlers, CreateRow(p) PROVE FeeInv'
  <2>1. task[p].quote \in Quotes /\ task[p].hash \in Hashes
    BY <1>3, <1>b DEF CreateRow, IntegrityInv, TaskBound
  <2>2. task' = [task EXCEPT ![p] = Idle] /\ batch' = batch
    BY <1>3 DEF CreateRow
  <2>3. \A q \in Quotes : row'[q]["fee"] = row[q]["fee"]
    <3>1. CASE row' = row
      BY <3>1
    <3>2. CASE row' = [row EXCEPT ![task[p].quote]["swap"] = [hash |-> task[p].hash, status |-> "PENDING"]]
      <4>1. [hash |-> task[p].hash, status |-> "PENDING"] \in Leg
        BY <2>1 DEF Leg, TradeStatus
      <4> QED BY <1>a, <2>1, <3>2, <4>1, SetLeg DEF Legs
    <3> QED BY <1>3, <3>1, <3>2 DEF CreateRow
  <2> QED BY <1>b, <1>c, <2>2, <2>3, FeeTaskStep
<1>4. ASSUME NEW p \in Handlers, FeeUpdate(p) PROVE FeeInv'
  <2>1. PICK q, h : q = task[p].quote /\ h = task[p].hash
    OBVIOUS
  <2>2. q \in Quotes /\ h \in Hashes /\ row[q]["fee"].hash = None
    BY <1>4, <1>b, <2>1 DEF FeeUpdate, IntegrityInv, TaskBound, FeeInv, HoldsFeeHash
  <2>3. task' = [task EXCEPT ![p] = Idle] /\ batch' = batch
    BY <1>4 DEF FeeUpdate
  <2>4. CASE row' = row
    BY <1>b, <1>c, <2>3, <2>4, FeeTaskStep
  <2>5. CASE row' = [row EXCEPT ![q]["fee"] = [hash |-> h, status |-> "PENDING"]]
    <3> DEFINE new == [hash |-> h, status |-> "PENDING"]
    <3>1. new \in Leg /\ new.status = "PENDING" /\ row' = [row EXCEPT ![q]["fee"] = new]
      BY <2>2, <2>5 DEF Leg, TradeStatus
    <3> HIDE DEF new
    <3>2. row'[q]["fee"] = new /\ \A q2 \in Quotes : q2 # q => row'[q2]["fee"] = row[q2]["fee"]
      BY <1>a, <2>2, <3>1, SetLeg DEF Legs
    <3>3. \A q2 \in Quotes : row[q2]["fee"].hash # None => row'[q2]["fee"] = row[q2]["fee"]
      BY <2>2, <3>2
    <3>4. ASSUME NEW p2 \in Processes, p2 # p, FeeSubmitting(p2) PROVE task[p2].quote # q
      <4>1. p2 \in Handlers
        BY <3>4 DEF FeeInv, FeeSubmitting, Processes
      <4> QED BY <1>4, <2>1, <3>4, <4>1 DEF OneFeeSubmission, FeeSubmitting, FeeUpdate
    <3>5. \A p2 \in Processes : HoldsFeeHash(task[p2])'
      <4> SUFFICES ASSUME NEW p2 \in Processes PROVE HoldsFeeHash(task[p2])'
        OBVIOUS
      <4>1. PICK x : x = task'[p2]
        OBVIOUS
      <4>2. CASE p2 = p
        <5>1. x = Idle
          BY <1>a, <1>b, <2>3, <4>1, <4>2 DEF TypeOK
        <5> QED BY <1>c, <4>1, <5>1 DEF HoldsFeeHash
      <4>3. CASE p2 # p
        <5>1. /\ x = task[p2] /\ HoldsFeeHash(x)
              /\ x.pc # "idle" => x.quote \in Quotes /\ x.hash \in Hashes
          BY <1>a, <1>b, <2>3, <4>1, <4>3 DEF TypeOK, FeeInv, IntegrityInv, TaskBound
        <5>2. x.hash \in Hashes => x.hash # None
          BY NoneAssumption
        <5>3. CASE FeeSubmitting(p2)
          <6>1. row'[x.quote]["fee"] = row[x.quote]["fee"]
            BY <3>2, <3>4, <4>3, <5>1, <5>3 DEF FeeSubmitting
          <6> QED BY <4>1, <5>1, <5>3, <6>1 DEF HoldsFeeHash, FeeSubmitting
        <5>4. CASE ~FeeSubmitting(p2)
          BY <3>3, <4>1, <5>1, <5>2, <5>4 DEF HoldsFeeHash, FeeSubmitting
        <5> QED BY <5>3, <5>4
      <4> QED BY <4>2, <4>3
    <3>6. task'[Worker].pc \notin {"feeDetails", "feeUpdate"}
      BY <1>a, <1>b, <2>3 DEF FeeInv, TypeOK
    <3>7. \A b \in batch' : b[2] = "fee" => row'[b[1]]["fee"].hash = b[3]
      <4> SUFFICES ASSUME NEW b \in batch, b[2] = "fee" PROVE row'[b[1]]["fee"].hash = b[3]
        BY <2>3
      <4>1. b[1] \in Quotes /\ b[3] \in Hashes
        BY <1>a DEF TypeOK
      <4> QED BY <3>3, <4>1, NoneAssumption DEF FeeInv
    <3>8. FeeIntegrity'
      BY <3>1, <3>2 DEF FeeInv, FeeIntegrity, transactionMatchesQuote, ExpectedCall
    <3> QED BY <3>5, <3>6, <3>7, <3>8 DEF FeeInv
  <2> QED BY <1>4, <2>1, <2>4, <2>5 DEF FeeUpdate
<1>5. ASSUME NEW p \in Handlers, NEW q \in Quotes, GetTransaction(p, q) PROVE FeeInv'
  <2>1. PICK fee : fee = row[q]["fee"]
    OBVIOUS
  <2>2. fee \in Leg /\ row' = row /\ batch' = batch
    BY <1>5, <1>a, <2>1, RowLegs DEF GetTransaction
  <2>3. PICK t : /\ task' = [task EXCEPT ![p] = t]
                 /\ t = Refreshing(q, "swap", row[q]["swap"].hash, fee) \/ t = FeeRefresh(q, fee)
    BY <1>5, <2>1 DEF GetTransaction
  <2>4. CASE t = Refreshing(q, "swap", row[q]["swap"].hash, fee)
    <3>1. HoldsFeeHash(t) /\ t.quote = q
      BY <2>1, <2>4 DEF HoldsFeeHash, Refreshing
    <3> QED BY <1>b, <2>2, <2>3, <3>1, FeeTaskStep
  <2>5. CASE t = FeeRefresh(q, fee)
    <3>1. HoldsFeeHash(t) /\ (t.pc # "idle" => t.quote \in Quotes)
      BY <2>1, <2>2, <2>5, FeeRefreshHolds, NewTasks DEF GoodTask
    <3> QED BY <1>b, <2>2, <2>3, <3>1, FeeTaskStep
  <2> QED BY <2>3, <2>4, <2>5
<1>6. ASSUME NEW leg \in Legs, SweepQuery(leg) PROVE FeeInv'
  <2>1. row' = row /\ task' = task /\ batch' = PendingRows(leg)
    BY <1>6 DEF SweepQuery
  <2>2. \A b \in batch' : b[2] = "fee" => row[b[1]]["fee"].hash = b[3]
    BY <2>1 DEF PendingRows
  <2> QED BY <2>1, <2>2 DEF FeeInv, HoldsFeeHash, FeeIntegrity, transactionMatchesQuote, ExpectedCall
<1>7. CASE SweepRow
  <2>1. PICK b \in batch : /\ batch' = batch \ {b}
                           /\ task' = [task EXCEPT ![Worker] = Refreshing(b[1], b[2], b[3], NoLeg)]
    BY <1>7 DEF SweepRow
  <2>2. PICK t : t = Refreshing(b[1], b[2], b[3], NoLeg)
    OBVIOUS
  <2>3. b[1] \in Quotes /\ (b[2] = "fee" => row[b[1]]["fee"].hash = b[3])
    BY <1>a DEF TypeOK, FeeInv
  <2>4. HoldsFeeHash(t) /\ t.quote \in Quotes /\ t.pc = "receipt"
    BY <2>2, <2>3 DEF HoldsFeeHash, Refreshing, NoLeg
  <2>5. row' = row
    BY <1>7 DEF SweepRow
  <2> QED BY <1>b, <2>1, <2>2, <2>4, <2>5, FeeTaskStep
<1>8. ASSUME NEW p \in Processes, ReadReceipt(p) \/ ReadDetails(p) \/ ReadConfirmations(p) \/ ReadHead(p)
      PROVE  FeeInv'
  <2>1. PICK t : t = task[p]
    OBVIOUS
  <2>2. GoodTask(t) /\ HoldsFeeHash(t) /\ t.pc \in {"receipt", "details", "confirmations", "head"}
    BY <1>8, <1>a, <2>1, CurrentTask DEF ReadReceipt, ReadDetails, ReadConfirmations, ReadHead, FeeInv
  <2> DEFINE Same(x) == x.quote = t.quote /\ x.leg = t.leg /\ x.hash = t.hash /\ x.fee = t.fee
  <2> DEFINE details == [t EXCEPT !.pc = "details"]
             depth == [t EXCEPT !.pc = "confirmations"]
             head == [t EXCEPT !.pc = "head", !.depth = chain[t.hash].depth]
             confirmed == [t EXCEPT !.pc = "write", !.verdict = "CONFIRMED"]
             failed == [t EXCEPT !.pc = "write", !.verdict = "FAILED"]
             late == [t EXCEPT !.pc = "write", !.verdict = "EXPIRED"]
             Ahead(x) == Same(x) /\ x.pc \in {"details", "confirmations", "head", "write"}
  <2>3. /\ Ahead(details) /\ Ahead(depth) /\ Ahead(head)
        /\ Ahead(confirmed) /\ Ahead(failed) /\ Ahead(late)
    BY <2>2 DEF GoodTask, Task
  <2>4. PICK x : task' = [task EXCEPT ![p] = x] /\ (Ahead(x) \/ x = AfterLeg(t, t.fee))
    <3> HIDE DEF Same, Ahead
    <3>1. CASE ReadReceipt(p)
      <4>1. chain[t.hash].receipt \in Receipt
        BY <1>a, <2>2 DEF GoodTask, TypeOK
      <4>2. PICK receipt \in Receipt :
              task' = [task EXCEPT ![p] =
                         CASE receipt = "success" -> details
                           [] receipt = "reverted" -> failed
                           [] receipt = "none" ->
                                IF <<t.quote, t.leg, t.hash>> \in aged THEN late ELSE AfterLeg(t, t.fee)]
        BY <1>a, <2>1, <3>1, <4>1 DEF ReadReceipt, getTransactionReceiptStatus, TypeOK, Receipt
      <4> HIDE DEF details, failed, late
      <4>3. task' = [task EXCEPT ![p] = details] \/ task' = [task EXCEPT ![p] = failed]
               \/ task' = [task EXCEPT ![p] = late] \/ task' = [task EXCEPT ![p] = AfterLeg(t, t.fee)]
        BY <4>2 DEF Receipt
      <4> QED BY <2>3, <4>3
    <3>2. CASE ReadDetails(p)
      <4>1. task' = [task EXCEPT ![p] = depth] \/ task' = [task EXCEPT ![p] = failed]
        BY <1>a, <2>1, <3>2 DEF ReadDetails, TypeOK
      <4> HIDE DEF depth, failed
      <4> QED BY <2>3, <4>1
    <3>3. CASE ReadConfirmations(p)
      <4>1. task' = [task EXCEPT ![p] = head] \/ task' = [task EXCEPT ![p] = confirmed]
               \/ task' = [task EXCEPT ![p] = AfterLeg(t, t.fee)]
        BY <1>a, <2>1, <3>3 DEF ReadConfirmations, JudgeDepth, TypeOK
      <4> HIDE DEF head, confirmed
      <4> QED BY <2>3, <4>1
    <3>4. CASE ReadHead(p)
      <4>1. task' = [task EXCEPT ![p] = confirmed] \/ task' = [task EXCEPT ![p] = AfterLeg(t, t.fee)]
        BY <1>a, <2>1, <3>4 DEF ReadHead, JudgeDepth, TypeOK
      <4> HIDE DEF confirmed
      <4> QED BY <2>3, <4>1
    <3> QED BY <1>8, <3>1, <3>2, <3>3, <3>4
  <2>5. /\ HoldsFeeHash(x) /\ x.pc \notin {"feeDetails", "feeUpdate"}
        /\ x.pc # "idle" => x.quote \in Quotes
    <3>1. CASE Ahead(x)
      BY <2>2, <3>1, NextStageHoldsFee
    <3>2. CASE x = AfterLeg(t, t.fee)
      <4>1. t.fee \in Leg /\ t.pc # "idle"
        BY <2>2 DEF GoodTask, Task
      <4>2. t.fee.hash # None /\ t.leg = "swap" => row[t.quote]["fee"].hash = t.fee.hash
        BY <2>2 DEF HoldsFeeHash
      <4> QED BY <2>2, <3>2, <4>1, <4>2, AfterLegHoldsFee, NextTasks DEF GoodTask
    <3> QED BY <2>4, <3>1, <3>2
  <2>6. row' = row /\ batch' = batch
    BY <1>8 DEF ReadReceipt, ReadDetails, ReadConfirmations, ReadHead
  <2> QED BY <2>4, <2>5, <2>6, FeeTaskStep
<1>9. ASSUME NEW p \in Processes, WriteStatus(p) PROVE FeeInv'
  <2>1. PICK t : t = task[p]
    OBVIOUS
  <2>2. GoodTask(t) /\ HoldsFeeHash(t) /\ PassedGate(t) /\ t.pc = "write"
    BY <1>9, <1>a, <2>1, CurrentTask DEF WriteStatus, FeeInv, IntegrityInv, GatePassed
  <2>3. PICK fee : fee = IF p = Worker THEN NoLeg ELSE row[t.quote]["fee"]
    OBVIOUS
  <2>4. fee \in Leg /\ (fee.hash # None => row[t.quote]["fee"].hash = fee.hash)
    BY <1>a, <2>2, <2>3, NewTasks, RowLegs DEF GoodTask, NoLeg
  <2>5. PICK x : x = AfterLeg(t, fee) /\ task' = [task EXCEPT ![p] = x]
    BY <1>9, <2>1, <2>3 DEF WriteStatus
  <2>6. HoldsFeeHash(x) /\ x.pc \in {"idle", "receipt"} /\ (x.pc # "idle" => x.quote \in Quotes)
    BY <2>2, <2>4, <2>5, AfterLegHoldsFee, NextTasks DEF GoodTask
  <2>7. /\ row'[t.quote][t.leg] = [hash |-> row[t.quote][t.leg].hash, status |-> t.verdict]
        /\ \A q2 \in Quotes, leg2 \in Legs :
              q2 # t.quote \/ leg2 # t.leg => row'[q2][leg2] = row[q2][leg2]
    BY <1>9, <1>a, <2>1, <2>2, SetStatus
  <2>8. \A q \in Quotes : row'[q]["fee"].hash = row[q]["fee"].hash
    BY <2>2, <2>7 DEF Legs
  <2>9. ASSUME NEW q \in Quotes, row'[q]["fee"].status = "CONFIRMED"
        PROVE  row[q]["fee"].status = "CONFIRMED" \/ transactionMatchesQuote(row[q]["fee"].hash, q, "fee")
    <3>1. CASE q = t.quote /\ t.leg = "fee"
      <4>1. t.verdict = "CONFIRMED" /\ row[q]["fee"].hash = t.hash
        BY <2>2, <2>7, <2>9, <3>1 DEF HoldsFeeHash
      <4> QED BY <2>2, <3>1, <4>1 DEF PassedGate, Confirming
    <3>2. CASE ~(q = t.quote /\ t.leg = "fee")
      BY <2>7, <2>9, <3>2 DEF Legs
    <3> QED BY <3>1, <3>2
  <2>10. batch' = batch
    BY <1>9 DEF WriteStatus
  <2> QED BY <2>5, <2>6, <2>8, <2>9, <2>10, FeeTaskStep
<1>10. ASSUME NEW p \in Processes, Abort(p) PROVE FeeInv'
  <2>1. row' = row /\ task' = [task EXCEPT ![p] = Idle] /\ batch' \subseteq batch
    BY <1>10 DEF Abort
  <2> QED BY <1>c, <2>1, FeeTaskStep
<1>11. CASE Environment
  <2>1. CASE NewBlock
    <3>1. \A p \in Processes : /\ task'[p].pc = task[p].pc /\ task'[p].quote = task[p].quote
                               /\ task'[p].leg = task[p].leg /\ task'[p].hash = task[p].hash
                               /\ task'[p].fee = task[p].fee
      BY <1>a, <2>1 DEF NewBlock, TypeOK, Task
    <3> QED BY <1>b, <2>1, <3>1, FeeIdleStep DEF NewBlock
  <2>2. CASE ~NewBlock
    <3>1. row' = row /\ batch' = batch /\ task' = task
      BY <1>11, <2>2 DEF Environment, ExpireQuote, AgeSubmission, UnlinkWallet, Mine, Reorg
    <3> QED BY <1>b, <3>1, FeeIdleStep
  <2> QED BY <2>1, <2>2
<1>12. CASE UNCHANGED vars
  BY <1>b, <1>12, FeeIdleStep DEF vars
<1> QED BY <1>1, <1>2, <1>3, <1>4, <1>5, <1>6, <1>7, <1>8, <1>9, <1>10, <1>11, <1>12
        DEF Next, HandlerStep, RefreshStep, SweepStep

\* For any number of requests beside the sweep, any reorganisations and failing reads: a fee
\* is CONFIRMED only for the quoted transfer, unless two submissions of a fee for one trade
\* overlap.  When they do, the update of the second replaces a hash that a refresh of the
\* first is about to confirm.
THEOREM FeeIntegrityUnlessOverlap == Spec /\ []OneFeeSubmission => []FeeIntegrity
<1>1. Init => FeeInv
  BY DEF Init, FeeInv, HoldsFeeHash, FeeIntegrity, Idle, NoLeg, Legs, Processes
<1>2. OneFeeSubmission /\ IntegrityInv /\ FeeInv /\ [Next]_vars => FeeInv'
  BY FeeStep
<1>3. FeeInv => FeeIntegrity
  BY DEF FeeInv
<1> QED BY <1>1, <1>2, <1>3, IntegrityHolds, PTL DEF Spec

\* In particular with one request at a time.
THEOREM FeeIntegrityHolds ==
    ASSUME \A p1, p2 \in Handlers : p1 = p2
    PROVE  Spec => []FeeIntegrity
<1>1. OneFeeSubmission
  BY DEF OneFeeSubmission
<1> QED BY <1>1, FeeIntegrityUnlessOverlap, PTL
=============================================================================
