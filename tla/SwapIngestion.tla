--------------------------- MODULE SwapIngestion ---------------------------
(***************************************************************************)
(* Swap ingestion of one pool: MarketIngestionService                      *)
(* (apps/workers/src/market/ingestion.ts) with the alerts it fans out for  *)
(* large trades (apps/workers/src/notifications/                           *)
(* notification-fanout.service.ts).                                        *)
(*                                                                         *)
(* A tick reads the Swap events after the persisted cursor, inserts them,  *)
(* alerts users, moves the cursor and rebuilds the candles of the touched  *)
(* time range.  It may fail, or the worker may stop, between any two       *)
(* writes; the next tick starts from the cursor.  A block holds at most    *)
(* one swap and its number is its time; every swap is a large one.         *)
(***************************************************************************)
EXTENDS Integers, FiniteSets, FiniteSetsExt

CONSTANTS
  MaxBlock,          \* bound: height of the chain
  MaxBlocksPerTick,  \* MAX_BLOCKS_PER_TICK = LOG_CHUNK_BLOCKS
  MaxLagBlocks,      \* MAX_LAG_BLOCKS
  BucketBlocks,      \* BUCKET_MINUTES, in blocks
  MaxTickFailures,   \* bound: ticks that fail or are cut short
  Watchers           \* users who watch the token

ASSUME IngestionAssumption ==
  /\ {MaxBlock, MaxLagBlocks, MaxTickFailures} \subseteq Nat
  /\ MaxBlocksPerTick \in 1..MaxLagBlocks
  /\ BucketBlocks \in Nat \ {0}

VARIABLES
  tip,       \* latest block, MARKET_HEAD_LAG_BLOCKS behind the chain's
  swapBlocks, \* blocks with a swap of the pool
  swapRow,    \* rows of swaps
  cursorAt,   \* IngestionCursor.lastProcessedBlock
  candle,     \* per bucket: the swaps the candle was last computed from
  traders,    \* users with a CONFIRMED trade in the token
  alerts,     \* Notification rows
  alertCooling, \* per kind: swaps with an alert younger than the cooldown
  ing,        \* what the tick remembers
  givenUp,       \* history: swaps given up on purpose
  repeated,      \* history: swaps a later tick inserted once more
  tickFailures \* history: ticks that failed

ingestVars == <<tip, swapBlocks, swapRow, cursorAt, candle, traders, alerts, alertCooling, ing,
                givenUp, repeated, tickFailures>>
ingestHistory == <<givenUp, repeated, tickFailures>>
chainVars == <<tip, swapBlocks>>

Blocks == 1..MaxBlock
Bucket(b) == b \div BucketBlocks
Buckets == 0..Bucket(MaxBlock)
Kinds == {"whale", "watched"}
Alert == [user: Watchers, kind: Kinds, swap: Blocks]
IngestTask ==
  [pc: {"idle", "insert", "whale", "watched", "create", "cursor", "candles"},
   to: 0..MaxBlock, rows: SUBSET Blocks, kind: Kinds, audience: SUBSET Watchers]

IngestTypeOK ==
  /\ tip \in 0..MaxBlock /\ cursorAt \in 0..tip
  /\ swapBlocks \subseteq 1..tip /\ swapRow \subseteq swapBlocks
  /\ givenUp \subseteq swapBlocks /\ repeated \subseteq swapRow
  /\ candle \in [Buckets -> SUBSET swapRow]
  /\ traders \subseteq Watchers
  /\ alerts \subseteq Alert
  /\ alertCooling \in [Kinds -> SUBSET swapRow]
  /\ ing \in IngestTask
  /\ tickFailures \in 0..MaxTickFailures

IdleTick == [pc |-> "idle", to |-> 0, rows |-> {}, kind |-> "whale", audience |-> {}]

IngestInit ==
  /\ tip = 0 /\ cursorAt = 0
  /\ swapBlocks = {} /\ swapRow = {} /\ traders = {} /\ alerts = {}
  /\ candle = [k \in Buckets |-> {}]
  /\ alertCooling = [kind \in Kinds |-> {}]
  /\ ing = IdleTick
  /\ givenUp = {} /\ repeated = {} /\ tickFailures = 0

-----------------------------------------------------------------------------
(* A tick of the market. *)

\* A market too far behind skips to one tick's range before the head.
ResumeFrom == IF tip - cursorAt > MaxLagBlocks THEN tip - MaxBlocksPerTick ELSE cursorAt

\* A mutant: the cursor moves before the swaps are stored.
ReadEvents_MovesCursor(rows) ==
  LET from == ResumeFrom
      to == Min({tip, from + MaxBlocksPerTick})
      events == swapBlocks \cap ((from + 1)..to)
  IN /\ ing.pc = "idle" /\ tip > from
     /\ rows \subseteq events
     /\ ing' = [IdleTick EXCEPT !.pc = IF rows = {} THEN "cursor" ELSE "insert",
                                !.to = to, !.rows = rows]
     /\ givenUp' = givenUp \cup (events \ rows)
                     \cup {b \in swapBlocks \ swapRow : cursorAt < b /\ b <= from}
     /\ cursorAt' = to
     /\ UNCHANGED <<chainVars, swapRow, candle, traders, alerts, alertCooling, repeated, tickFailures>>

\* getSwapEvents answers, and the swaps whose block time cannot be read (the
\* anchors failed, then the block itself) are dropped.
ReadEvents(rows) ==
  LET from == ResumeFrom
      to == Min({tip, from + MaxBlocksPerTick})
      events == swapBlocks \cap ((from + 1)..to)
  IN /\ ing.pc = "idle" /\ tip > from
     /\ rows \subseteq events
     /\ ing' = [IdleTick EXCEPT !.pc = IF rows = {} THEN "cursor" ELSE "insert",
                                !.to = to, !.rows = rows]
     /\ givenUp' = givenUp \cup (events \ rows)
                     \cup {b \in swapBlocks \ swapRow : cursorAt < b /\ b <= from}
     /\ UNCHANGED <<chainVars, swapRow, cursorAt, candle, traders, alerts, alertCooling, repeated, tickFailures>>

\* swap.createMany with skipDuplicates.
InsertSwaps ==
  /\ ing.pc = "insert"
  /\ swapRow' = swapRow \cup ing.rows
  /\ repeated' = repeated \cup (swapRow \cap ing.rows)
  /\ ing' = [ing EXCEPT !.pc = "whale"]
  /\ UNCHANGED <<chainVars, cursorAt, candle, traders, alerts, alertCooling, givenUp, tickFailures>>

\* A mutant: watchers who traded the token hear of the swap twice.
Audience_All(kind) == IF kind = "whale" THEN traders ELSE Watchers

\* notifyWhaleTrades reaches users who traded the token, notifyWatchedTokenActivity
\* the watchers who did not.
Audience(kind) == IF kind = "whale" THEN traders ELSE Watchers \ traders

AfterFanout(kind) == IF kind = "whale" THEN "watched" ELSE "cursor"

\* A mutant: the cooldown is ignored.
ReadAudience_NoCooldown(kind) ==
  /\ ing.pc = kind
  /\ ing' = IF Audience(kind) = {}
            THEN [ing EXCEPT !.pc = AfterFanout(kind)]
            ELSE [ing EXCEPT !.pc = "create", !.kind = kind, !.audience = Audience(kind)]
  /\ UNCHANGED <<chainVars, swapRow, cursorAt, candle, traders, alerts, alertCooling, ingestHistory>>

\* Nobody to tell, or the token is on its cooldown; or the audience is known.
ReadAudience(kind) ==
  /\ ing.pc = kind
  /\ ing' = IF alertCooling[kind] # {} \/ Audience(kind) = {}
            THEN [ing EXCEPT !.pc = AfterFanout(kind)]
            ELSE [ing EXCEPT !.pc = "create", !.kind = kind, !.audience = Audience(kind)]
  /\ UNCHANGED <<chainVars, swapRow, cursorAt, candle, traders, alerts, alertCooling, ingestHistory>>

\* bulkCreate: alerts about one swap of the tick, to those who want them and did
\* not make the swap themselves; unique on (user, type, swap).
bulkCreate(swap, told) ==
  /\ ing.pc = "create" /\ swap \in ing.rows /\ told \subseteq ing.audience
  /\ alerts' = alerts \cup {[user |-> u, kind |-> ing.kind, swap |-> swap] : u \in told}
  /\ alertCooling' = IF alerts' = alerts THEN alertCooling
               ELSE [alertCooling EXCEPT ![ing.kind] = @ \cup {swap}]
  /\ ing' = [ing EXCEPT !.pc = AfterFanout(ing.kind), !.audience = {}, !.kind = "whale"]
  /\ UNCHANGED <<chainVars, swapRow, cursorAt, candle, traders, ingestHistory>>

\* An error in the fan-out is caught: indexing goes on.
FanoutFails ==
  /\ ing.pc \in Kinds \cup {"create"}
  /\ ing' = [ing EXCEPT !.pc = "cursor", !.audience = {}, !.kind = "whale"]
  /\ UNCHANGED <<chainVars, swapRow, cursorAt, candle, traders, alerts, alertCooling, ingestHistory>>

\* A mutant: the cursor is not saved.
AdvanceCursor_Stuck ==
  /\ ing.pc = "cursor"
  /\ cursorAt' = cursorAt
  /\ ing' = IF ing.rows = {} THEN IdleTick ELSE [ing EXCEPT !.pc = "candles"]
  /\ UNCHANGED <<chainVars, swapRow, candle, traders, alerts, alertCooling, ingestHistory>>

AdvanceCursor ==
  /\ ing.pc = "cursor"
  /\ cursorAt' = ing.to
  /\ ing' = IF ing.rows = {} THEN IdleTick ELSE [ing EXCEPT !.pc = "candles"]
  /\ UNCHANGED <<chainVars, swapRow, candle, traders, alerts, alertCooling, ingestHistory>>

\* A mutant: the rebuild starts at the first new swap.
InRange_NoPadding(rows) == {b \in swapRow : Min(rows) <= b /\ b <= Max(rows)}

\* The swaps a rebuild of the range looks at, one bucket before the first new one.
InRange(rows) == {b \in swapRow : Min(rows) - BucketBlocks <= b /\ b <= Max(rows)}

upsertCandlesFromSwaps ==
  LET grouped(k) == {b \in InRange(ing.rows) : Bucket(b) = k}
  IN /\ ing.pc = "candles"
     /\ candle' = [k \in Buckets |-> IF grouped(k) = {} THEN candle[k] ELSE grouped(k)]
     /\ ing' = IdleTick
     /\ UNCHANGED <<chainVars, swapRow, cursorAt, traders, alerts, alertCooling, ingestHistory>>

\* A read or write fails, which ends the market's turn, or the worker stops.
TickFails ==
  /\ ing.pc # "idle" /\ tickFailures < MaxTickFailures
  /\ ing' = IdleTick
  /\ tickFailures' = tickFailures + 1
  /\ UNCHANGED <<chainVars, swapRow, cursorAt, candle, traders, alerts, alertCooling, givenUp, repeated>>

-----------------------------------------------------------------------------
(* The chain, the users and time. *)

NewBlock(swap) ==
  /\ tip < MaxBlock
  /\ tip' = tip + 1
  /\ swapBlocks' = IF swap THEN swapBlocks \cup {tip + 1} ELSE swapBlocks
  /\ UNCHANGED <<swapRow, cursorAt, candle, traders, alerts, alertCooling, ing, ingestHistory>>

TradeConfirmed(u) ==
  /\ u \notin traders
  /\ traders' = traders \cup {u}
  /\ UNCHANGED <<chainVars, swapRow, cursorAt, candle, alerts, alertCooling, ing, ingestHistory>>

CooldownOver(kind) ==
  /\ alertCooling[kind] # {}
  /\ alertCooling' = [alertCooling EXCEPT ![kind] = {}]
  /\ UNCHANGED <<chainVars, swapRow, cursorAt, candle, traders, alerts, ing, ingestHistory>>

Fanout ==
  \/ \E kind \in Kinds : ReadAudience(kind)
  \/ \E swap \in Blocks, told \in SUBSET Watchers : bulkCreate(swap, told)

IngestNext ==
  \/ \E rows \in SUBSET Blocks : ReadEvents(rows)
  \/ InsertSwaps \/ Fanout \/ FanoutFails \/ AdvanceCursor \/ upsertCandlesFromSwaps
  \/ TickFails
  \/ \E swap \in BOOLEAN : NewBlock(swap)
  \/ \E u \in Watchers : TradeConfirmed(u)
  \/ \E kind \in Kinds : CooldownOver(kind)

IngestSpec == IngestInit /\ [][IngestNext]_ingestVars

\* The ticker keeps ticking, and reads and writes that failed succeed in the end.
IngestFairness ==
  /\ WF_ingestVars(\E rows \in SUBSET Blocks : ReadEvents(rows))
  /\ WF_ingestVars(InsertSwaps \/ Fanout \/ FanoutFails \/ AdvanceCursor
                     \/ upsertCandlesFromSwaps)

-----------------------------------------------------------------------------
(* Properties. *)

\* Whatever fails and whenever the worker stops, the cursor never passes a swap
\* that is neither stored nor given up on purpose ("Persist first, advance the
\* cursor only once that succeeds", lines 671-694).
NoSwapSkipped == \A b \in swapBlocks : b <= cursorAt => b \in swapRow \cup givenUp

\* A rebuild makes every candle from the first new swap's bucket on complete up to
\* the last new swap, although earlier ticks stored part of that bucket and may
\* have failed before their own rebuild (upsertCandlesFromSwaps, lines 800-826).
FreshCandleComplete ==
  [][candle' # candle =>
       \A k \in Buckets : Bucket(Min(ing.rows)) <= k =>
         {b \in swapRow : Bucket(b) = k /\ b <= Max(ing.rows)} \subseteq candle'[k]]_ingestVars

\* No rebuild takes a swap out of a candle, but for the one candle in whose middle its
\* range begins: CandleKeepsSwaps below fails there, and only there.
CandleLossConfined ==
  [][\A k \in Buckets : ~(candle[k] \subseteq candle'[k])
        => k = Bucket(Min(ing.rows) - BucketBlocks)]_ingestVars

\* What a rebuild does to the candles: it completes the new ones and spoils at most one old.
CandleMoves == FreshCandleComplete /\ CandleLossConfined

\* A user gets both kinds of alert for one swap only when a tick that failed after
\* the fan-out had the swap alerted once more (the audiences are read apart,
\* notification-fanout.service.ts:205-208).
NeverBothAlerts ==
  \A u \in Watchers, b \in Blocks :
    (\A kind \in Kinds : [user |-> u, kind |-> kind, swap |-> b] \in alerts) => b \in repeated

\* Within a cooldown users hear of one swap of the token only, retries included
\* (notification-fanout.service.ts:112-114).
OneAlertPerCooldown == \A kind \in Kinds : Cardinality(alertCooling[kind]) <= 1

\* Every swap is stored in the end, unless it is given up on purpose.
SwapsIngested ==
  IngestFairness => \A b \in Blocks : b \in swapBlocks ~> b \in swapRow \cup givenUp

\* While nothing fails, a candle has all the swaps of its bucket that are stored
\* and were there when the bucket was rebuilt last.  It fails: the rebuild of a
\* later range starts in the middle of the bucket before it.
CandleKeepsSwaps ==
  tickFailures = 0 /\ ing.pc = "idle" =>
    \A b \in swapRow : b \in candle[Bucket(b)]

\* Retried ticks alert users of no second swap in a cooldown, and of no swap twice
\* over in both kinds.
AlertSafety == OneAlertPerCooldown /\ NeverBothAlerts
=============================================================================
