# Kamby: TLA+ models

Kamby is a social trading application: an API (`apps/api`, NestJS), background
workers (`apps/workers`, one process per EVM chain), a web client (`apps/web`)
and shared packages (`packages/domain`, `packages/chain-adapters`,
`packages/db`). PostgreSQL holds the state, Redis holds counters, locks and
short-lived records, and the chains are reached through RPC nodes. Components
hardly ever talk to each other: they meet in rows and keys which each of them
reads, thinks about across several awaited calls, and writes back. That is where
this project looks.

Paths below are relative to the repository root; the hazards, each at its line
and with the properties that watch it, and the lines every definition stands for
are in `PROJECT.json`.

## 1. Inventory

| Component | State | Operations | Hard part | Makes it correct |
|---|---|---|---|---|
| EVM trades, API (`apps/api/src/trading/transaction.service.ts`) | `trade_transactions` | submit a hash, submit a fee hash, get with status refresh | three RPC reads between reading a row and writing it by id; duplicate submissions | only the quoted transaction, settled, is CONFIRMED; one row per transaction |
| EVM trade sweep (`apps/workers/src/trading/sweep.ts`) | the same rows | periodic check of PENDING swaps and fees | races with the API's refresh, restarts | nothing stays PENDING; verdicts do not contradict the chain |
| EVM gas relayer (`apps/api/src/trading/relayer/`) | `relayerStatus` of a quote, relayer nonce | attach sponsorship, relay | claim, broadcast and recording are separate steps; lost answers | pays at most once; what is BROADCAST is recorded |
| Realized-PnL ledger (`apps/workers/src/pnl`, `packages/domain/src/pnl.ts`) | `token_lots`, `realized_pnl_events`, `pnlProcessedAt` | sweep, create a lot, match a sell | read-then-write of several rows, several sweepers | conservation, FIFO, each sell booked once |
| Web trade panel (`apps/web/components/trading/TradePanel.tsx`) | React state, one interval, handlers that wait | quote, approve, sign, record, poll, fee, retry | answers that come late and belong to an earlier trade | one swap per trade, a fee only after it landed, no false success |
| Solana trades (`apps/api/src/solana`, `apps/workers/src/solana/solana-sweep.ts`) | `solana_trade_transactions` | submit, refresh, sweep, co-sign | two confirming readers, lost answers of the relayer | as EVM |
| RPC circuit breaker, connection pool (`apps/api/src/chain`) | breaker state, failure count | execute, fail over | late answers, several probes | opens and closes on current evidence |
| Jupiter pacing (`apps/api/src/solana/jupiter-rate-limiter.ts`) | next slot | take, note | bursts and retries | calls a spacing apart, retries counted |
| Gas top-ups (`apps/api/src/trading/evm-gas-topup.service.ts`) | Redis counters and in-flight key | top up | timeout after the send, refund | daily caps |
| Wallet linking (`apps/api/src/identity`) | challenges, wallets | challenge, verify, unlink | one challenge, two verifications; adoption decided on old reads | single use; a link was proven |
| Duels (`apps/api/src/duels`) | duel rows, cool-down key | challenge, open, join, answer, settle | racing requests, every reader settles | no double challenge, settled once for the better score |
| Voice calls (`apps/api/src/calls`) | a record and a lock in Redis | start, join, leave, tidy, end | an expiring lock nobody owns | no lost join or leave |
| Live rooms, tips (`apps/api/src/live`) | Redis record, lobby, row; pending tip | start, edit, report, end; prepare, submit | whole-record writes without a lock; consumed before sent | an ended room leaves the lobby; a tip is announced once |
| Direct messages (`apps/api/src/dm`) | conversation row, messages, blocks, cooldown key | open, write, accept, block | status written back as read; count then insert | a request keeps its limit, only the other side accepts |
| Predictions (`apps/api/src/predictions`) | votes, tally hash, polls | vote, resolve, generate | a seed between row and count; runs that fail half-way | tally agrees, one outcome, one open poll per question |
| Market ingestion (`apps/workers/src/market/ingestion.ts`) | block cursor, swaps, candles | one tick | crash between rows, alerts, cursor and candles | no swap passed over |
| Pool discovery (`apps/workers/src/market/pool-discovery.ts`) | factory cursor, pending pools, markets | one tick | crash between queue, cursor and market | no pool passed over, none starved |
| Notification fan-out (`apps/workers/src/notifications`) | notifications, cooldown | alert watchers | retried ticks | one alert per cooldown |
| Quotes, routers, curves, launchpad, bridge, social feed, read API, most of the web client | rows written once, caches, views | one statement each | little between steps | not modelled, see section 8 |

How they interact: the API and the sweep write the same trade rows; the relayer
inserts rows that both then refresh; unlinking a wallet changes which submissions
are allowed; the PnL sweep reads rows that the others may still change; the panel
polls those rows and pays the fee from what it reads; Solana rows promise the PnL
sweep the same as EVM rows. The other services have their own rows and keys.

## 2. Modules

| Module | Models | Uses |
|---|---|---|
| `TradeLedger` | what a table of trades promises its readers (abstract) | |
| `TradeLifecycle` | submission, refresh and sweep of EVM trades, the chain and its reads | instantiates `TradeLedger` for the refinement |
| `TradeRelay` | sponsored trades, composed with the whole of `TradeLifecycle` | extends `TradeLifecycle` |
| `PnlLedger` | the PnL sweep and the FIFO matching, composed with trades as the ledger promises them | extends `TradeLedger` |
| `TradePanel` | the client's trade flow with the API and the wallet as it sees them | |
| `SolanaTrades` | Solana trades, sponsored or not, and their two readers | instantiates `TradeLedger` for the refinement |
| `RpcFailover`, `JupiterPacing`, `GasTopup` | what the API does to services and tanks that are limited | |
| `WalletLink`, `Duels` | conditional updates decided on earlier reads | |
| `Calls`, `LiveRoom`, `LiveTips`, `DirectMessages` | records in Redis and the requests on them | |
| `Predictions`, `PollGenerator` | votes and resolver, generator | |
| `SwapIngestion`, `PoolDiscovery` | the ticks of the market worker, with alerts | |
| `TradeLifecycleProofs`, `TradeLedgerProofs`, `TradeRelayProofs`, `PnlLedgerProofs` | theorems of the first four | extend what they prove about |
| `MarketProofs` | theorems of `JupiterPacing`, `RpcFailover`, `PoolDiscovery`, `SwapIngestion` | extends `MCServices` |
| `AccountProofs` | theorems of `GasTopup`, `WalletLink`, `SolanaTrades`, `Duels` | extends `MCServices` |
| `SocialProofs` | theorems of `LiveTips`, `DirectMessages`, `Calls`, `LiveRoom` | extends `MCSocial` |
| `PollPanelProofs` | theorems of `PollGenerator`, `Predictions`, `TradePanel`, and of the social services together | extends `SocialProofs` |
| `MC*` | values of the constants, and the groups of section 3 | |

In all of them a process or request is a record with a program counter and what
it remembers between two awaits; an action is what it does from one await to the
next, with the read and the write that the database or Redis does in one
statement. A request cut off, a worker restarted and an answer lost are actions.

### TradeLifecycle

`row[q]` is the row of the trade of quote `q` with its two legs (swap, and the
separate USDC fee transfer); a row is identified by its quote because `quoteId`
is unique. `chain[h]` is the receipt of transaction `h` on the canonical chain
and how deep its block is, cut off at `MinConfirmations`. `task[p]` is what a
request or the worker remembers between two awaits: the hash it read, the
verdict it is about to write. `batch` is the sweep's query result. `aged`,
`expired` and `verified` are facts that time or another service changes.

Each await is a step boundary: `SubmitTransaction`, `SubmitDetails`,
`CreateRow` are one request; `GetTransaction` or `SweepQuery`/`SweepRow` start
a refresh whose steps `ReadReceipt`, `ReadDetails`, `ReadConfirmations`,
`ReadHead`, `WriteStatus` are shared, because `refreshStatus` and the sweep loop
decide alike. `Abort` is a thrown error, a dropped request or a worker restart.

Choices that need a word:

* The database reads at the start of `submitTransaction` and of `relay` are one
  step. What they establish (the quote belongs to the user, is not expired, the
  wallet is verified, no row exists) either cannot change or is decided again by
  a unique key when the row is written.
* A read of the chain that fails returns the same null as a missing answer
  (`evm-adapter.ts`), so each read is a set of possible answers; `RpcHiccups`
  says whether failures happen.
* `getConfirmationCount` asks for receipt and head in parallel.
  `SplitDepthRead` says whether the two may be answered from different heads.
* `ReorgDepth` bounds reorganisations; a reorganisation takes transactions out
  of the chain, after which they may be mined again with another result.
* The sweep takes 50 rows per tick, above every instance here; it queries swaps,
  then fees, here in either order.
* `getTransaction` also calls `submitFeeLegIfDue`, which does nothing for a row
  that is not sponsored.
* The content of a transaction is its sender and its call (`to`, `value`, `data`
  together): the gate compares these and nothing else.

### TradeRelay

Adds `relayerStatus`, one task per relay request (`claim`, `simulate`,
`ceiling`, `broadcast`, `persist`, `markFailed`), the transactions `sent`, and
which rows are `sponsored`. A request may die at every await, also after the
node accepted the broadcast and before the answer came back. The nonce queue is
abstracted to "a transaction nobody has seen".

### TradeLedger and PnlLedger

`TradeLedger` has two variables, the settled transactions and the book of
trades, and confirms a trade in one step that looks at both. `PnlLedger` builds
on it, so what is shown there of profit and loss rests on the refinement of
section 6 and on nothing else about requests and sweeps.

A sweeper reads a batch (`Query`), then per row either marks it (`Skip`) or
opens a transaction (`Begin`: lock and read of the open lots), matches lot by
lot (`MatchLot`) and commits (`CommitBuy`, `CommitSell`). The advisory lock is
not a variable: a position is locked while some transaction on it is open, which
is what `pg_advisory_xact_lock` means. Reading the lots belongs to the step that
gets the lock because only lock holders write lots. The event table is kept as
its unique keys (`matched`) and the two sums that its readers take, per lot
(`sold`) and per sell (`booked`). Confirmation times are arbitrary: every
process stamps its own clock before its update reaches the database. Token
decimals can be learnt late, so a row may be skippable at one time and
priceable at another. Dollar figures are left out; no decision depends on them.
Rows stand for EVM rows; Solana rows go through the same lock, matching and
marker in a second loop, and never share a position with EVM rows.

### TradePanel

`panel` is the React state, `polling` the interval with the quote its closure
holds, `handler` the handlers that are waiting for the wallet or the API, each
with the quote of the render it was made in, `answers` the answers of
`getTransaction` under way. A user does nothing while a handler is under way;
quotes and answers come when they come. Requests fail on the way there or on the
way back, and the API settles rows as `TradeLifecycle` and `TradeRelay` show it
does. `swapsNow` counts the swaps sent from this wallet since the panel was
reset. The move of USDC from another chain before a buy is left out.

### The other services

* `SolanaTrades`: a signature is pending, confirmed, failed or dead; readers see
  it, nothing, or an error. `RowGetsOld` lets a row age only when its transaction
  can no longer land: three minutes are more than a blockhash lives. That EXPIRED
  is true rests on this. The comparison of the signed bytes with the stored
  transaction at co-signing is taken as given.
* `RpcFailover`: a breaker per endpoint, calls that overlap and end in any order.
  `JupiterPacing`: the limiter with a clock; timers fire on time.
* `GasTopup`: one chain and day, both counters, in-flight key and send queue.
  `late` remembers top-ups that were mined after the 20 s.
* `WalletLink`: challenges, verification, adoption of an account, unlinking.
* `Duels`: rows with conditional updates; scores are any values.
* `Calls`: one chat, its record and its lock. `bypassed` remembers that somebody
  gave up waiting for the lock or lost it; what happens after that is cut off in
  the run (`AfterBypass`), because the property says nothing about it.
* `LiveRoom`: record, lobby, check-in and row of one host's rooms. Redis commands
  succeed; `srem` and `del` of one end are one step. `LiveTips`: tips and their
  transfers on either chain.
* `DirectMessages`: one chat between two users. All kinds of messages go through
  `write`. `SlowWrites` says whether a write may outlast its own cooldown key.
* `Predictions`: votes of one poll, the tally hash and the resolver.
  `SlowResolvers` says whether a resolver may outlive its 100 s lock.
  `PollGenerator`: the generator, its lock, and runs that fail half-way.
* `SwapIngestion`: one pool, block by block, with swaps, alerts, cursor and
  candles as the separate writes they are. `PoolDiscovery`: the factory cursor,
  the pending hash and its rotation, candidates of GeckoTerminal, and promotion.

## 3. Runs

| Run | Question | Instance | Distinct states |
|---|---|---|---|
| `trade_race` | is only the quoted transaction CONFIRMED, and is the ledger implemented? | 1 quote, its own transaction and a foreign one making the same call, 2 requests + sweep, depth 2, reorgs of 2, failing reads | 303 000 |
| `trade_fee` | does the fee leg keep its gate? | 1 quote with a fee, 1 request at a time + sweep, reorgs, failing reads | 986 000 |
| `trade_live` | do verdicts agree with the chain, is one transaction one trade, and is every row resolved? | 2 quotes of two wallets for the same call, 1 hash, 2 requests + sweep that may all die, no reorgs, reads that do not fail, split depth read | 201 000 |
| `relay_composed` | does the relayer pay once and record it? | 1 quote, 2 relay requests, 1 API request, sweep, chain | 879 000 |
| `pnl_race` | are lots conserved, consumed in order and to the end, from settled trades? | 2 buys, 2 sells of one position of which 3 can be submitted, 2 sweepers, failures and restarts, 2 times | 411 000 |
| `social` | calls, live rooms, tips, votes, generator, panel, chats: do they survive their races? | 2 requests or handlers, 2 users, 1 call, 2 rooms, 2 tips, 2 voters, 3 questions for a cap of 2, 2 quotes | 2 440 000 |
| `services` | Solana trades, duels, tank, links, ingestion, discovery, breaker, pacing | 2 requests, 2 users, 2 duels, caps of 2, 2 addresses, 4 blocks in ticks of 2, 3 pools, 2 or 3 calls | 2 270 000 |
| `progress` | does what must happen happen? | the components with a loop of their own, smaller | 141 000 |
| `fee_replaced`, `relay_sponsored_failed`, `candles`, `panel_success` | violations, section 5 | | |

**Groups.** `social`, `services` and `progress` check several components that
share no state in one run: a variable `service` says whose behaviour this is, the
others stay as they start, so the states add up and do not multiply. A liveness
property of a group is written `Fairness => property` with the fairness of the
component it is about, and holds vacuously in the behaviours of the others. The
properties of a component that belong together are checked as one conjunction of
named parts (`DuelSafety == NoDuplicateChallenge /\ ResultPostedOnce /\
WinnerHasBestScore`), each part with its own comment and at least one mutant. The
type invariant of a group is that of the component in play.

**Why these bounds are enough for what they ask.** The races are between a stale
reader and a writer of one row or key, so two requests are what a race needs, and
in the trade runs two requests and the sweep are one more. A foreign transaction
with the same call and a second quote for the same call are the two ways of
confusing trades; in `trade_live` the one hash is foreign to the second quote,
so that it is both. Depth 2 with reorganisations of 2 has a block below, at and
above the gate; the fee and relay runs use depth 1 because their questions are
not about depth. FIFO needs two lots and a sell that uses the second in part
(2 + 2 against 3), lost updates need two sells of one lot. Caps are reached with
one request to spare (2 of 3). Four blocks in ticks of two, buckets of two and a
lag of three have a tick that starts in the middle of a bucket and one that gives
up. Three pools with two checks per tick make the rotation matter. Two quotes
let the answer of one trade meet the next. Failures per behaviour are bounded
(`MaxTickFailures`, `MaxDiscFailures`, `MaxCutOff`, `MaxLate`) at one: the next
attempt meets what the failed one left. `DmSafety` was also checked with three
requests. The theorems of section 6 lift the bounds for every safety property.

Symmetry is used only in runs without liveness properties. Deadlock is checked in
the runs of the trade core; in the groups bounded components may stop
(`CHECK_DEADLOCK FALSE`).

Each property of a passing run has a mutant (a definition next to the one it
replaces, marked as mutant), a plausible slip in that code which breaks the
property under the same configuration.

## 4. What the properties say

* **Trades.** `SwapIntegrity`, `OneRowPerTransaction`, `FeeIntegrity`: what is
  CONFIRMED is the quoted transaction, and one transaction is one trade; for
  fees only while nobody submits two at once.
  `ImplementsLedger`: with one view of the chain, the whole lifecycle behaves like
  a table that confirms in one step. `VerdictsTrue`: without reorganisations and
  with reads that succeed, no verdict contradicts the chain, and (proved only)
  `VerdictsNeverFlip`: none is turned into the other. `EventuallyResolved`.
* **Relay.** `AtMostOneRelay`, `BroadcastIsRecorded`, and
  `SponsoredNeverConfirmed`, which is what the gate does to sponsored trades.
* **PnL.** `LotConserved`, `OldestLotFirst`, `UnmatchedOnlyWhenEmpty`,
  `BookedSafety` (from settled trades only, lot and marker together);
  `SellBookedOnce` and `ConfirmedIsAccounted` with one sweeper.
* **Panel.** `PanelSafety`: a fee is signed only for a swap that landed, the
  success screen needs a trade that succeeded, the wallet sends one swap between
  two resets. `PendingEnds`: who waits learns the end, although answers about
  other trades replace and stop intervals.
* **Solana.** `SolStatusIsTrue`, `ImplementsSolLedger` (every signature counts as
  the quoted one, since neither reader compares), `SolPendingSettles`.
* **Limited resources.** `TankSafety`: the caps hold up to the top-ups that were
  mined after their timeout, and sends of a chain do not overlap.
  `UpstreamSafety`: a breaker follows the streak of answers in whatever order they
  come; first calls to Jupiter are a spacing apart and retries are counted.
  `EndpointUsedAgain`.
* **Accounts.** `LinkSafety`: a challenge works once and every link was proven.
  `EmptyAccountTakesNothing` outside a race.
* **Duels.** `DuelSafety`, `DuelMoves`: a stale copy of a row never undoes what
  another request did.
* **Redis records.** `CallSafety`: while the lock holds, no change is lost and no
  call ends unmentioned. `LiveSafety`, `TipSafety`, `TallyAgrees`. `DmSafety`: a
  request stays within its limit, only the other side makes a chat active, a
  block keeps later writes out.
* **Polls.** `OutcomeIsFinal`, `GeneratorSafety`, `PollCloses`.
* **Market.** `MarketSafety`: no swap and no pool is passed over, one alert per
  cooldown, no more markets without a cursor than checks that failed
  (`CursorPerMarket`). `CandleMoves`: a rebuild completes the candles from that of
  the first new swap on, and takes swaps out of no other candle than the one in
  whose middle its range begins. `MarketProgress`: swaps are stored and pending
  pools checked in the end.

## 5. Disagreements between the code and what is said about it

With a run that finds the violation:

* `fee_replaced`: two submissions of a fee both find `feeTxHash` empty, and the
  second one's update (by row id, `transaction.service.ts:236`) puts its hash
  under a refresh that is about to confirm the first. The row then says CONFIRMED
  of a transaction that nobody compared with the quote, although "a receipt alone
  is never enough" (`:393-395`) and a gap at submission "can never actually result
  in an unrelated transaction being confirmed" (`docs/TRADING.md:534-536`).
* `relay_sponsored_failed`: the gate wants the sender to be the user's wallet,
  and a sponsored swap is sent by the relayer, so every executed one is FAILED.
* `candles`: `upsertCandlesFromSwaps` rebuilds from one bucket length before the
  first new swap. That is the middle of a bucket, whose complete candle is
  replaced by one of its second half. No other candle loses anything
  (`CandleLossConfined`, proved).
* `panel_success`: `resetToForm` leaves the interval, and every answer sets the
  step. While the fee of the last trade is pending, or an answer about it is
  late, the next trade is shown as confirmed before it is. The wrong screen's
  Done button then forgets the hash of a swap that was not recorded
  (`SwapIsHeld`).

Stated in the modules as properties that fail, or seen while modelling:

* Trades: refresh and sweep write by row id alone (`transaction.service.ts:383`,
  `sweep.ts:103`), so a check that saw no receipt just before the other confirmed
  the row turns CONFIRMED into EXPIRED after 30 minutes (`ConfirmedIsFinal`). A
  null from `getTransactionDetails` after a
  good receipt fails the trade for good, although `evm-adapter.ts:78-80` calls it
  inconclusive. With `SplitDepthRead` and reorganisations a receipt of the old
  chain is counted against the head of the new one (`evm-adapter.ts:63`), so
  `minConfirmations` protects less than `packages/domain/src/trading.ts:53-57`
  says.
* Relay: `markFailed` (`evm-gas-relayer-quote.service.ts:260`) writes by id and
  can put FAILED over BROADCAST; a self-paid submission can take the row of a
  sponsored quote (`:248-251`), after which the broadcast is not recorded.
* PnL: two sweepers that read the same sell before either marks it both process
  it; `docs/TRADER_INTELLIGENCE.md:321-324` calls the lock "the correctness
  backstop regardless of how many replicas end up running it". This is the only
  way to book a sell twice, and one sweeper is safe (`SellBookedOnce`). A buy that fails in one tick while a later sell of the
  position succeeds leaves the sell unmatched for good. `schema.prisma:643-647`
  says PENDING, FAILED and EXPIRED rows are swept too; the query takes CONFIRMED
  rows only.
* Panel: a late quote replaces a newer one; the "I understand" of an extreme price
  impact survives a silent refresh (`TradePanel.tsx:258-261` says it never carries
  over); the retry of a relay is called always safe (`:551-553`), but after a
  silent refresh it is a retry with another quote; recording is retried with the
  quote on the screen, and cannot succeed once that has expired; a late answer
  can have the fee asked for twice, and the fee button signs the fee of the quote
  on the screen; a page closed between broadcast and recording loses the hash.
* Chats: a message that read the row before it was accepted puts the request back
  (`AcceptedStays`). `RequestCapped` rests on writes finishing within the 700 ms of
  their cooldown key and on Redis answering (`dm.service.ts:785` takes an error for
  a free key). A message may land just after a block, if its check came before.
* Calls: a late end deletes whatever call is stored by then, so a call may end
  without its line (`FinishedCallLeavesLine`, `calls.service.ts:45-46`). A waiter
  gives up after 2 s while the lock of a dead holder lives for 3 s, so one crash
  is enough for a change without the lock. The limit on participants is checked
  before the lock is taken (`:103-107`).
* Live: a room that is started and swept before its first check-in is ended as
  dropped (`live.service.ts:145-146`, `449-450`). On Solana a tip is announced
  when it is sent, not when it is "checked on-chain" (`TipWasPaid`,
  `live-tips.service.ts:41-42`).
* Tank: each top-up mined after its 20 s gives its allowance back (`TankCap`).
* Breaker: "exactly one probe call" (`OneProbe`, `circuit-breaker.ts:12-13`): every
  call that starts while it is half open runs. Jupiter: "keeps every Jupiter call
  under the plan limit" (`EveryFetchSpaced`, `jupiter-rate-limiter.ts:2`): a retry
  goes out next to a call that has its slot.
* Votes: a seed between a vote's row and its count, or a count that Redis refused,
  leaves the tally wrong until the hash expires; `TallyAgrees` excludes both.
* Market: a market whose check failed between its two upserts never gets a cursor
  (`MarketHasCursor`, `create-tracked-market.ts:136`: the next check finds the
  token tracked and drops the pool, `pool-discovery.ts:365-376`, and `ingestSwaps`
  skips a market without one, `ingestion.ts:503`). Each failed check costs at most
  one market its cursor (`CursorPerMarket`, proved), so where no check fails every
  market has one. A stop between cursor and
  candles leaves candles old until the next swap. Ten or more pending candidates
  of GeckoTerminal starve the factory's pools; `MarketProgress` is about fewer. A
  retried tick may send one user both kinds of alert for a swap
  (`notification-fanout.service.ts:205-208`).
* Accounts: an account that was empty when it was looked at can take a wallet if
  it was linked or unlinked elsewhere in the meantime.

## 6. Proofs

TLAPS proves the following for every value of the constants that the modules'
named assumptions allow: any number of quotes, rows, users, requests, sweepers,
blocks and pools, and any value of the `Max...` bounds that the runs need.

| Module | Theorems | Hypothesis |
|---|---|---|
| `TradeLifecycleProofs` | `TypeCorrect`, `SwapIntegrityHolds`, `OneRowPerTransactionHolds`, `SwapHashImmutableHolds` | |
| | `ConfirmedIsSettledHolds` | `~SplitDepthRead` |
| | `VerdictsTrueHolds`, `VerdictsNeverFlipHolds` | `ReorgDepth = 0`, `~RpcHiccups` |
| | `FeeIntegrityUnlessOverlap` | `[]OneFeeSubmission` |
| | `FeeIntegrityHolds` | at most one request at a time |
| `TradeLedgerProofs` | `LifecycleImplementsLedger` | `~SplitDepthRead` |
| `TradeRelayProofs` | `AtMostOneRelayHolds`, `BroadcastIsRecordedHolds`, `SponsoredNeverConfirmedHolds`, `RelaySwapIntegrityHolds`, `RelayRowsKept` | |
| | `RelayImplementsLedger` | `~SplitDepthRead` |
| `PnlLedgerProofs` | `PnlTypeCorrect`, `LotConservedHolds`, `OldestLotFirstHolds`, `BookedIsSettledHolds`, `BookedSafetyHolds`, `UnmatchedOnlyWhenEmptyHolds` | |
| | `SellBookedOnceUnlessShared` | `[]SellsApart` |
| | `SellBookedOnceHolds` | at most one sweeper |
| `MarketProofs` | `PacingSafetyHolds`, `BreakerHolds`, `NoPoolOverlookedHolds`, `CursorPerMarketHolds`, `NoSwapSkippedHolds`, `AlertSafetyHolds`, `FreshCandleCompleteHolds`, `CandleLossConfinedHolds`, `CandleMovesHolds`; of the composition `UpstreamSafetyHolds`, `MarketSafetyHolds` | |
| `AccountProofs` | `TankSafetyHolds`, `LinkSafetyHolds`, `EmptyAccountTakesNothingHolds`, `SolStatusIsTrueHolds`, `SolImplementsLedger`, `DuelSafetyHolds`, `DuelMovesHolds`; of the composition `AccountSafetyHolds`, `ServicesTypeCorrect`, `ServicesMovesHold` | |
| `SocialProofs` | `TipSafetyHolds`, `DmAgreementHolds`, `CallSafetyHolds`, `LiveSafetyHolds` | |
| | `DmSafetyHolds` | `~SlowWrites` |
| `PollPanelProofs` | `GeneratorSafetyHolds`, `TallyAgreesHolds`, `PanelSafetyHolds` | |
| | `OutcomeIsFinalHolds`; of the composition `SocialOutcomeIsFinal` | `~SlowResolvers` |
| | `SocialSafetyHolds`, the composition | `~SlowWrites` |

The theorem of a component whose type is not a theorem of its own has its type
invariant beside the safety property.

**Assumptions.** Those of the modules are the types of the constants and that the
values for "none" (`None`, `NoCall`, `NoRoom`, `Nobody`, ...) belong to no set;
that the worker is no request and voters' requests are no resolvers;
`ReorgDepth <= MinConfirmations`, which is what choosing `minConfirmations` means;
that the relayer's account is nobody's wallet; that voters and the generator's
questions are finitely many; and that lengths which the code divides by or counts
up to (`Spacing`, `FailureThreshold`, `BucketBlocks`, `ReportsToEnd`) are not 0.

**Hypotheses.** Each one is the condition under which the code does what the
property says, and what happens without it is in section 5. Where the condition is
about the behaviour and not about a constant, it is a temporal hypothesis:
`OneFeeSubmission` says that no two submissions of a fee for one trade are between
their read of the row and their update at once, however many requests there are,
and `fee_replaced` is the behaviour in which they are; `SellsApart` that no sell is
in the hands of two sweepers. Either follows when there is one request, or one
sweeper, which are the corollaries. `VerdictsTrue` is false if a read that
fails looks like a transaction that is not there, or if a block disappears
between the read and the write. A
message limit that is counted before it is spent holds as long as the cooldown
key (`~SlowWrites`), and the one writer of an outcome as long as the resolver's
lock (`~SlowResolvers`); that only the other side accepts, and that blocks hold,
needs neither (`DmAgreementHolds`).

**Arguments.** Hardly any property is inductive, for the same reason everywhere:
a request decides on what it read and writes several steps later. Each invariant
adds what stays true of a request's memory in between, and why two requests
cannot be there at once.

* *Swaps.* `IntegrityInv`: the hash a process read is still the row's (rows never
  change their hash, `SnapshotsCurrent`), and once past the gate the transaction
  matches and, about to confirm, is settled (`GatePassed`). Settled is stable
  because no reorganisation reaches that deep, matching because the content of a
  hash is fixed. `VerdictInv` adds that what a refresh has concluded so far is
  what the chain says now; this is where reorganisations and failing reads would
  enter; it also gives `VerdictsNeverFlip`, since a write of one verdict over the
  other would contradict the chain before or after it. `FeeInv` adds the same of
  fee hashes as of swap hashes, which rests on nobody else being between the null
  check of `feeTxHash` and the update (`OneFeeSubmission`).
* *Ledger.* Every step maps to a step of `TradeLedger` or a stutter: a block
  settles transactions, `CreateRow` opens a trade under a free hash,
  `WriteStatus` confirms or gives up; `IntegrityInv` supplies the guard of
  `Confirm`. The refinement of the Solana trades goes the same way, with
  `SolInv`: a row keeps its signature, and a signature that landed or died stays
  so, hence a late writer writes what is still true.
* *Relay.* `RelayInv`: a claim is held by one request, and while it is held, or
  before it is taken, nothing was sent (`ClaimHeldOnce`). A step of the relayer
  opens a row under a free hash or leaves the trades alone, so integrity and the
  refinement of the ledger carry over to the composition.
* *Profit and loss.* `PnlInv`: open transactions are on different positions
  (`Exclusive`), so what each read of the lots is still what the table holds, and
  it has used them in order and each to its end before the next (`TxInv`); what
  sweepers hold is backed by a settled transaction whatever became of its status
  (`WorkBacked`). `MarksAgree` adds that a marker is written with its lot or its
  events. Under `SellsApart`, `OnceInv` adds that the sells at hand are unmarked
  and distinct: who marks one holds it, so nobody else does (`OthersAtHand`).
* *Pacing.* `PacingInv`: each slot handed out ends before the next one, and the
  fetches made or promised, counted with their spacing, fit before it.
* *Breaker, cursors.* `RpcInv` ties the counter to the streak. `DiscInv` and
  `IngestInv` say that everything up to the block a tick has read to is stored,
  given up on, or still in the tick's hands, so the cursor may pass it; and, for
  the alerts, that the two audiences are apart although they are read at
  different times. `QueueInv`: the pools checked so far are a sequence without
  repetitions, which taking one out keeps (`RemoveFirstIs`), a market being made is
  the one pool at hand, and the markets without a cursor are at most the failures,
  counted as each failure happens.
* *Candles.* `FreshCandleComplete` needs that the range rebuilt, one bucket length
  back from the first new swap, reaches the start of that swap's bucket.
  `CandleLossConfined` needs `CandleOrder`: candles hold only swaps before those a
  tick works on, so a swap can be missing from the range on one side only.
* *Tank.* `TopupInv`: what was sent in time plus the requests that hold a count
  stay below the counter and the cap, for the day and per wallet; a refund gives
  back what its request holds, and the queue has one sender.
* *Links.* `LinkInv`: a challenge was got past once exactly when it is used, and
  what is linked after it is for the account it was given to.
* *Duels.* `DuelsInv`: who creates holds the cool-down and has no such challenge
  pending, two requests never create for one user or post one result, and rows
  make sense (`RowSense`). Every update is a `DuelMove`, which gives `DuelMoves`
  and, with the scores of a finished row, the better score.
* *Chats, tips.* `DmInv`, `TipsInv`: requests that count messages of one user, or
  hold one tip, do not overlap; a status read as active was agreed.
* *Calls.* `CallsInv`: while nobody bypassed the lock, the record in hand is the
  one stored, unless an end deleted it, and one request is about to write.
* *Live rooms.* `LiveInv`: a room that is entering the lobby is dealt with by
  nobody else (`TooEarly`), and a room whose row is about to be ended has left it.
* *Polls.* `GenInv`: the lock gives one run at a time, whose picks are new and fit
  the cap. `PollInv`: a seed about to be written is what the rows say and meets no
  vote about to be counted, unless `disturbed`; per option, the votes on their way
  are bounded by the voters, which keeps the tally in its type.
* *Panel.* `PanelInv`: a screen with a button that signs, and a handler on its way
  to a signature, belong to a panel that has sent nothing; one handler at a time
  is about a swap; what the panel or an answer calls confirmed is confirmed by
  now, however late it comes.
* *Composition.* A step of a group is a step of one component and a stutter of the
  others, so the specification of the group implies that of each component.

**Only model-checked.** All liveness (`EventuallyResolved`, `ConfirmedIsAccounted`,
`SolPendingSettles`, `EndpointUsedAgain`, `MarketProgress`, `PollCloses`,
`PendingEnds`): fairness and ENABLED are out of the prover's reach. Every invariant
and action property of a passing run, and both refinements, are theorems.

## 7. Fairness

`FairSpec` (trades) assumes that the worker's ticker keeps firing
(`main.ts:291-293`) and that a step of the sweep which keeps becoming possible is
taken, that blocks keep coming and that time passes. Strong fairness for the
sweep's reads and write says that restarts do not hit every single tick at the
same place. Nothing is assumed of users, of API requests, or of any transaction
being mined. The run has reads that do not fail: with reads that fail for ever
nothing can be resolved.

The others are stated in their modules next to the property that needs them:
`PnlFairness` (the sweeper's ticker, `main.ts:521-523`, without database
failures), `SolFairness` (a transaction lands or its blockhash dies, time passes,
and the sweep's reads and writes do not fail for ever), `RpcFairness` (calls keep being made and end),
`IngestFairness` and `DiscFairness` (ticks keep coming; failures are finitely
many), `PollFairness` (the resolver's interval), `PanelFairness` (the interval
runs while the page is open, a read is answered in the end, rows are settled).
None assumes anything of a user or a wallet.

## 8. Not modelled, and the plan

The models stand for about 4 000 of the repository's 89 500 lines of
implementation. Most of the rest has nothing a state machine would tell:

* More than half of the lines are the web client: pages, feeds and dialogs that
  render what the API answers. `TradePanel` is modelled because it moves money and
  waits for several parties at once. `SolanaTradePanel` and `SendModal` follow the
  same pattern of broadcast, record and poll and would be next.
* The read API (market data, tokens, discovery, news, media) and the importers of
  prices and curves copy external answers into rows and caches.
* Quotes and routers: written once, then constant here. Launchpad, bridge and
  transfers forward external APIs and track nothing.
* Social feed, follows, squads, badges: mostly one statement behind a unique key.
  Groups and communities of direct messages have operations of several
  statements; an owner who leaves while the successor leaves too makes a group
  without an owner, and concurrent additions exceed the limit on members.
* The fee leg of sponsored trades (`submitFeeLegIfDue`) starts only from a
  CONFIRMED sponsored row, and `SponsoredNeverConfirmed` shows there is none.
* HTTP layers, logging, pub/sub forwarding and the announcements that follow a
  confirmation.

Proofs that are left: the liveness properties, by hand or with another prover, and
the same statements for components that are modelled next.
