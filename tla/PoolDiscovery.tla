--------------------------- MODULE PoolDiscovery ---------------------------
(***************************************************************************)
(* Discovery of new markets: PoolDiscoveryService                          *)
(* (apps/workers/src/market/pool-discovery.ts) with createTrackedMarket    *)
(* (create-tracked-market.ts).                                             *)
(*                                                                         *)
(* A tick queues the pools the factory created after its cursor, queues    *)
(* candidates of GeckoTerminal, and checks a few of the pending pools,     *)
(* promoting those with enough liquidity.  It can fail, or the worker can  *)
(* stop, between any two writes.  Every pool has one token that is known   *)
(* and one, TokenOf, that is to be tracked.                                *)
(***************************************************************************)
EXTENDS Integers, FiniteSets, Sequences, SequencesExt

CONSTANTS
  Pools, TokenOf,
  FactoryPools,       \* pools created after the discovery started
  GeckoPools,         \* pools GeckoTerminal lists
  MaxPendingChecks,   \* MAX_PENDING_CHECKS_PER_TICK
  MaxDiscFailures     \* bound: failures of a check or of a tick

ASSUME DiscoveryAssumption ==
  /\ GeckoPools \cup FactoryPools \subseteq Pools /\ DOMAIN TokenOf = Pools
  /\ MaxPendingChecks \in Nat \ {0} /\ MaxDiscFailures \in Nat

VARIABLES
  factoryLog,   \* PoolCreated events, oldest first
  discCursor,   \* pool-discovery:cursor, as the number of events before it
  pendingPool,  \* keys of pool-discovery:pending
  viaGecko,     \* pending pools with source geckoterminal
  stalePool,    \* pending pools older than PENDING_MAX_AGE_MS
  checkedPool,  \* pending pools with lastCheckedAtMs, least recent first
  marketRow,    \* pools with a TokenMarket row
  marketCursor, \* pools with an IngestionCursor row
  pricedToken,  \* tokens with a market that has a price
  disc,         \* what the tick remembers
  handled,      \* history: pools queued, or skipped as redundant
  discFailures  \* history: number of failures

discVars == <<factoryLog, discCursor, pendingPool, viaGecko, stalePool, checkedPool,
              marketRow, marketCursor, pricedToken, disc, handled, discFailures>>
queueVars == <<pendingPool, viaGecko, stalePool, checkedPool>>
marketVars == <<marketRow, marketCursor, pricedToken>>

DiscTypeOK ==
  /\ factoryLog \in Seq(Pools) /\ IsInjective(factoryLog) /\ discCursor \in 0..Len(factoryLog)
  /\ pendingPool \subseteq Pools
  /\ viaGecko \subseteq pendingPool /\ stalePool \subseteq pendingPool
  /\ checkedPool \in Seq(pendingPool) /\ IsInjective(checkedPool)
  /\ marketCursor \subseteq marketRow /\ marketRow \subseteq Pools
  /\ pricedToken \subseteq {TokenOf[p] : p \in marketRow}
  /\ disc.pc \in {"idle", "queue", "gecko", "check", "pool", "cursor", "promoted"}
  /\ disc.events \in Seq(Pools) /\ disc.to \in Nat
  /\ disc.batch \subseteq pendingPool /\ disc.at \subseteq pendingPool
  /\ handled \subseteq Pools /\ discFailures \in 0..MaxDiscFailures

IdleDisc == [pc |-> "idle", events |-> <<>>, to |-> 0, batch |-> {}, at |-> {}]

DiscInit ==
  /\ factoryLog = <<>> /\ discCursor = 0
  /\ pendingPool = {} /\ viaGecko = {} /\ stalePool = {} /\ checkedPool = <<>>
  /\ marketRow = {} /\ marketCursor = {} /\ pricedToken = {}
  /\ disc = IdleDisc /\ handled = {} /\ discFailures = 0

\* knownSideOf is null: both tokens are tracked and priced already.
Redundant(p) == TokenOf[p] \in pricedToken

Forget(p) ==
  /\ pendingPool' = pendingPool \ {p}
  /\ viaGecko' = viaGecko \ {p} /\ stalePool' = stalePool \ {p}
  /\ checkedPool' = RemoveFirst(checkedPool, p)

-----------------------------------------------------------------------------
(* discoverNewPools and enqueueFromGeckoTerminal. *)

\* A mutant: the cursor is saved as soon as the events are read.
ReadFactory_SavesCursor(to) ==
  /\ disc.pc = "idle" /\ discCursor <= to
  /\ disc' = [IdleDisc EXCEPT !.pc = "queue", !.to = to,
                              !.events = SubSeq(factoryLog, discCursor + 1, to)]
  /\ discCursor' = to
  /\ UNCHANGED <<factoryLog, queueVars, marketVars, handled, discFailures>>

\* The events of the next blocks; none when there are no blocks or the read fails.
ReadFactory(to) ==
  /\ disc.pc = "idle" /\ discCursor <= to
  /\ disc' = [IdleDisc EXCEPT !.pc = "queue", !.to = to,
                              !.events = SubSeq(factoryLog, discCursor + 1, to)]
  /\ UNCHANGED <<factoryLog, discCursor, queueVars, marketVars, handled, discFailures>>

QueueEvent ==
  LET p == Head(disc.events)
  IN /\ disc.pc = "queue" /\ disc.events # <<>>
     /\ pendingPool' = IF Redundant(p) THEN pendingPool ELSE pendingPool \cup {p}
     /\ handled' = handled \cup {p}
     /\ disc' = [disc EXCEPT !.events = Tail(@)]
     /\ UNCHANGED <<factoryLog, discCursor, viaGecko, stalePool, checkedPool, marketVars,
                    discFailures>>

SaveCursor ==
  /\ disc.pc = "queue" /\ disc.events = <<>>
  /\ discCursor' = disc.to
  /\ disc' = [IdleDisc EXCEPT !.pc = "gecko"]
  /\ UNCHANGED <<factoryLog, queueVars, marketVars, handled, discFailures>>

QueueCandidate(p) ==
  /\ disc.pc = "gecko"
  /\ p \in GeckoPools \ (pendingPool \cup marketRow) /\ ~Redundant(p)
  /\ pendingPool' = pendingPool \cup {p} /\ viaGecko' = viaGecko \cup {p}
  /\ UNCHANGED <<factoryLog, discCursor, stalePool, checkedPool, marketVars, disc, handled,
                 discFailures>>

-----------------------------------------------------------------------------
(* checkPendingPools. *)

\* A mutant: candidates of GeckoTerminal first, in no further order.
Before_NoRotation(p, q) == p \in viaGecko /\ q \notin viaGecko

\* The order of the checks; pools that were never checked are alike.
Before(p, q) ==
  LET rank(r) == Max({0} \cup {i \in DOMAIN checkedPool : checkedPool[i] = r})
  IN IF (p \in viaGecko) = (q \in viaGecko) THEN rank(p) < rank(q) ELSE p \in viaGecko

PickBatch(batch) ==
  /\ disc.pc = "gecko"
  /\ batch \subseteq pendingPool
  /\ \/ batch = pendingPool /\ Cardinality(batch) <= MaxPendingChecks
     \/ Cardinality(batch) = MaxPendingChecks
  /\ \A p \in batch, q \in pendingPool \ batch : ~Before(q, p)
  /\ disc' = [IdleDisc EXCEPT !.pc = "check", !.batch = batch]
  /\ UNCHANGED <<factoryLog, discCursor, queueVars, marketVars, handled, discFailures>>

\* A pool that became redundant or too old is dropped.
NextPending(p) ==
  LET drop == Redundant(p) \/ p \in stalePool
  IN /\ disc.pc = "check" /\ p \in disc.batch
     /\ IF drop THEN Forget(p) ELSE UNCHANGED queueVars
     /\ disc' = [disc EXCEPT !.batch = @ \ {p}, !.pc = IF drop THEN "check" ELSE "pool",
                             !.at = IF drop THEN {} ELSE {p}]
     /\ UNCHANGED <<factoryLog, discCursor, marketVars, handled, discFailures>>

\* Too little liquidity, or something cannot be read.
NotReady ==
  \E p \in disc.at :
    /\ disc.pc = "pool"
    /\ checkedPool' = Append(RemoveFirst(checkedPool, p), p)
    /\ disc' = [disc EXCEPT !.pc = "check", !.at = {}]
    /\ UNCHANGED <<factoryLog, discCursor, pendingPool, viaGecko, stalePool, marketVars, handled,
                   discFailures>>

\* A mutant: the market is taken for complete without its cursor.
UpsertMarket_NoCursor ==
  /\ disc.pc = "pool"
  /\ marketRow' = marketRow \cup disc.at
  /\ disc' = [disc EXCEPT !.pc = "promoted"]
  /\ UNCHANGED <<factoryLog, discCursor, queueVars, marketCursor, pricedToken, handled,
                 discFailures>>

\* createTrackedMarket: the market, then its ingestion cursor ...
UpsertMarket ==
  /\ disc.pc = "pool"
  /\ marketRow' = marketRow \cup disc.at
  /\ disc' = [disc EXCEPT !.pc = "cursor"]
  /\ UNCHANGED <<factoryLog, discCursor, queueVars, marketCursor, pricedToken, handled,
                 discFailures>>

UpsertCursor ==
  /\ disc.pc = "cursor"
  /\ marketCursor' = marketCursor \cup disc.at
  /\ disc' = [disc EXCEPT !.pc = "promoted"]
  /\ UNCHANGED <<factoryLog, discCursor, queueVars, marketRow, pricedToken, handled, discFailures>>

\* ... and the pool is no longer pending.
Promoted ==
  \E p \in disc.at :
    /\ disc.pc = "promoted"
    /\ Forget(p)
    /\ disc' = [disc EXCEPT !.pc = "check", !.at = {}]
    /\ UNCHANGED <<factoryLog, discCursor, marketVars, handled, discFailures>>

\* The check of one pool throws: it stays pending as it was.
CheckThrows ==
  /\ disc.pc \in {"pool", "cursor"} /\ discFailures < MaxDiscFailures
  /\ disc' = [disc EXCEPT !.pc = "check", !.at = {}]
  /\ discFailures' = discFailures + 1
  /\ UNCHANGED <<factoryLog, discCursor, queueVars, marketVars, handled>>

TickEnds ==
  /\ disc.pc = "check" /\ disc.batch = {}
  /\ disc' = IdleDisc
  /\ UNCHANGED <<factoryLog, discCursor, queueVars, marketVars, handled, discFailures>>

\* Redis or the database fails, or the worker stops.
DiscDies ==
  /\ disc.pc # "idle" /\ discFailures < MaxDiscFailures
  /\ disc' = IdleDisc
  /\ discFailures' = discFailures + 1
  /\ UNCHANGED <<factoryLog, discCursor, queueVars, marketVars, handled>>

-----------------------------------------------------------------------------
(* The chain, time, and the price refresh of the ingestion. *)

PoolCreated(p) ==
  /\ p \in FactoryPools /\ ~Contains(factoryLog, p)
  /\ factoryLog' = Append(factoryLog, p)
  /\ UNCHANGED <<discCursor, queueVars, marketVars, disc, handled, discFailures>>

PoolAges(p) ==
  /\ p \in pendingPool \ stalePool
  /\ stalePool' = stalePool \cup {p}
  /\ UNCHANGED <<factoryLog, discCursor, pendingPool, viaGecko, checkedPool, marketVars, disc,
                 handled, discFailures>>

RefreshPrice(p) ==
  /\ p \in marketRow /\ ~Redundant(p)
  /\ pricedToken' = pricedToken \cup {TokenOf[p]}
  /\ UNCHANGED <<factoryLog, discCursor, queueVars, marketRow, marketCursor, disc, handled,
                 discFailures>>

DiscStep ==
  \/ \E to \in 0..Len(factoryLog) : ReadFactory(to)
  \/ QueueEvent \/ SaveCursor
  \/ \E batch \in SUBSET pendingPool : PickBatch(batch)
  \/ \E p \in Pools : NextPending(p)
  \/ NotReady \/ UpsertMarket \/ UpsertCursor \/ Promoted \/ TickEnds

DiscNext ==
  \/ DiscStep
  \/ \E p \in Pools : QueueCandidate(p) \/ PoolCreated(p) \/ PoolAges(p) \/ RefreshPrice(p)
  \/ CheckThrows \/ DiscDies

DiscSpec == DiscInit /\ [][DiscNext]_discVars

\* The ticker keeps ticking, and a tick ends.
DiscFairness == WF_discVars(DiscStep)

-----------------------------------------------------------------------------
(* Properties. *)

\* No pool the factory created is passed over, wherever a tick was cut short (the
\* cursor is saved after the events are queued, pool-discovery.ts:230-242).
NoPoolOverlooked == \A i \in 1..discCursor : factoryLog[i] \in handled

\* While fewer candidates of GeckoTerminal are pending than a tick checks, every
\* pending pool is checked again and again ("taking the hash's first N every tick
\* re-checked the same pools forever and starved everything behind them",
\* pool-discovery.ts:347-349).
PendingChecked ==
  DiscFairness => \A p \in Pools : []<>(p \notin pendingPool \/ p \in disc.batch)

\* Markets that were left without the cursor their swaps are read from.
Cursorless == marketRow \ (marketCursor \cup (IF disc.pc = "cursor" THEN disc.at ELSE {}))

\* Market and cursor are two writes: only a failure between them leaves a market without
\* a cursor, one market each, whatever was retried or dropped as redundant afterwards
\* (create-tracked-market.ts:123-146).
CursorPerMarket == Cardinality(Cursorless) <= discFailures

\* A market that discovery is done with has the cursor its swaps are read from.
\* It fails: when the check ends between the two upserts the market gets a price,
\* and the next check drops its pool as redundant.
MarketHasCursor == \A p \in marketRow \ pendingPool : p \in marketCursor
=============================================================================
