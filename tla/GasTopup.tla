------------------------------ MODULE GasTopup ------------------------------
(***************************************************************************)
(* Gas top-ups: EvmGasTopupService.ensureGas for one chain and one day     *)
(* (apps/api/src/trading/evm-gas-topup.service.ts).                        *)
(*                                                                         *)
(* Two counters in Redis cap what Kamby's tank sends.  A request counts    *)
(* itself up before it sends; a send that fails counts itself down again.  *)
(* A step is what a request does between two awaits on Redis or the chain. *)
(***************************************************************************)
EXTENDS Integers, Sequences, FiniteSets

CONSTANTS
  Wallets,         \* wallets that ask for quotes
  TopupRequests,   \* concurrent requests
  PerWalletDaily,  \* EVM_GAS_TOPUP_PER_WALLET_DAILY
  DailyCap,        \* EVM_GAS_TOPUP_DAILY_CAP
  MaxLate,         \* bound: sends mined later than the 20 s they are waited for
  MaxCount,        \* bound: highest value of a counter
  NoWallet

ASSUME TopupAssumption ==
  {PerWalletDaily, DailyCap, MaxCount, MaxLate} \subseteq Nat

VARIABLES
  lowGas,     \* wallets with USDC and less than minWei
  gasOk,      \* gas-ok:<wallet>, the wallet was seen with enough gas
  inflight,   \* gas-topup:inflight:<wallet>
  walletCount,\* gas-topup:wallet:<wallet>:<day>
  dayCount,   \* gas-topup:count:<day>
  tankQueue,  \* clients.queue: requests whose send is chained, in order
  topup,      \* what each request remembers
  sent,       \* per wallet: EVM top-ups broadcast
  tankSent,   \* all of them
  late,       \* history, per wallet: top-ups sent but not mined in time
  tankLate    \* all of them

topupVars == <<lowGas, gasOk, inflight, walletCount, dayCount, tankQueue, topup,
               sent, tankSent, late, tankLate>>

evmKeys == <<gasOk, inflight, walletCount, dayCount>>
sends == <<sent, tankSent, late, tankLate>>

TopupTask ==
  [pc: {"idle", "balance", "inflight", "wallet", "day", "queued", "receipt",
        "refund", "release"},
   wallet: Wallets \cup {NoWallet}]

TopupTypeOK ==
  /\ lowGas \subseteq Wallets /\ gasOk \subseteq Wallets /\ inflight \subseteq Wallets
  /\ walletCount \in [Wallets -> 0..MaxCount] /\ dayCount \in 0..MaxCount
  /\ tankQueue \in Seq(TopupRequests)
  /\ topup \in [TopupRequests -> TopupTask]
  /\ sent \in [Wallets -> Nat] /\ tankSent \in Nat
  /\ late \in [Wallets -> Nat] /\ tankLate \in Nat

IdleTopup == [pc |-> "idle", wallet |-> NoWallet]

TopupInit ==
  /\ lowGas \in SUBSET Wallets
  /\ gasOk = {} /\ inflight = {}
  /\ walletCount = [w \in Wallets |-> 0] /\ dayCount = 0
  /\ tankQueue = <<>>
  /\ topup = [r \in TopupRequests |-> IdleTopup]
  /\ sent = [w \in Wallets |-> 0] /\ tankSent = 0
  /\ late = [w \in Wallets |-> 0] /\ tankLate = 0

At(r, pc) == topup[r].pc = pc
Go(r, pc) == topup' = [topup EXCEPT ![r].pc = pc]
Return(r) == topup' = [topup EXCEPT ![r] = IdleTopup]

-----------------------------------------------------------------------------
(* ensureGas *)

\* With a gas-ok key the quote goes on at once.
ensureGas(r, w) ==
  /\ At(r, "idle") /\ w \notin gasOk
  /\ topup' = [topup EXCEPT ![r] = [pc |-> "balance", wallet |-> w]]
  /\ UNCHANGED <<lowGas, evmKeys, tankQueue, sends>>

ReadBalances(r) ==
  LET w == topup[r].wallet
  IN /\ At(r, "balance")
     /\ IF w \in lowGas THEN Go(r, "inflight") /\ UNCHANGED gasOk
        ELSE Return(r) /\ gasOk' \in {gasOk, gasOk \cup {w}}  \* low gas but no USDC: no key
     /\ UNCHANGED <<lowGas, inflight, walletCount, dayCount, tankQueue, sends>>

\* SET NX: one top-up on its way per wallet.
TakeInflight(r) ==
  LET w == topup[r].wallet
  IN /\ At(r, "inflight")
     /\ IF w \in inflight THEN Return(r) ELSE Go(r, "wallet")
     /\ inflight' = inflight \cup {w}
     /\ UNCHANGED <<lowGas, gasOk, walletCount, dayCount, tankQueue, sends>>

CountWallet(r) ==
  LET w == topup[r].wallet
  IN /\ At(r, "wallet") /\ walletCount[w] < MaxCount
     /\ walletCount' = [walletCount EXCEPT ![w] = @ + 1]
     /\ Go(r, IF walletCount[w] + 1 > PerWalletDaily THEN "release" ELSE "day")
     /\ UNCHANGED <<lowGas, gasOk, inflight, dayCount, tankQueue, sends>>

\* A mutant: the count before is compared with the cap.
CountDay_OneOver(r) ==
  /\ At(r, "day") /\ dayCount < MaxCount
  /\ dayCount' = dayCount + 1
  /\ IF dayCount > DailyCap
     THEN Go(r, "release") /\ UNCHANGED tankQueue
     ELSE Go(r, "queued") /\ tankQueue' = Append(tankQueue, r)
  /\ UNCHANGED <<lowGas, gasOk, inflight, walletCount, sends>>

\* A request over the cap keeps what it counted; one within it is chained.
CountDay(r) ==
  /\ At(r, "day") /\ dayCount < MaxCount
  /\ dayCount' = dayCount + 1
  /\ IF dayCount + 1 > DailyCap
     THEN Go(r, "release") /\ UNCHANGED tankQueue
     ELSE Go(r, "queued") /\ tankQueue' = Append(tankQueue, r)
  /\ UNCHANGED <<lowGas, gasOk, inflight, walletCount, sends>>

\* A mutant: the send does not wait for those before it.
SendGas_NoQueue(r) ==
  LET w == topup[r].wallet
  IN /\ At(r, "queued") /\ tankQueue # <<>>
     /\ \/ /\ sent' = [sent EXCEPT ![w] = @ + 1] /\ tankSent' = tankSent + 1
           /\ Go(r, "receipt") /\ UNCHANGED <<tankQueue, late, tankLate>>
        \/ tankQueue' = Tail(tankQueue) /\ Go(r, "refund") /\ UNCHANGED sends
     /\ UNCHANGED <<lowGas, evmKeys>>

\* The head of the queue sends, or cannot (an empty tank, the RPC is down).
SendGas(r) ==
  LET w == topup[r].wallet
  IN /\ At(r, "queued") /\ tankQueue # <<>> /\ Head(tankQueue) = r
     /\ \/ /\ sent' = [sent EXCEPT ![w] = @ + 1] /\ tankSent' = tankSent + 1
           /\ Go(r, "receipt") /\ UNCHANGED <<tankQueue, late, tankLate>>
        \/ tankQueue' = Tail(tankQueue) /\ Go(r, "refund") /\ UNCHANGED sends
     /\ UNCHANGED <<lowGas, evmKeys>>

\* Mined within 20 s, or not: then the top-up counts as failed though it was sent.
Receipt(r) ==
  LET w == topup[r].wallet
  IN /\ At(r, "receipt")
     /\ tankQueue' = Tail(tankQueue)
     /\ \/ lowGas' = lowGas \ {w} /\ Go(r, "release") /\ UNCHANGED <<late, tankLate>>
        \/ /\ tankLate < MaxLate
           /\ late' = [late EXCEPT ![w] = @ + 1] /\ tankLate' = tankLate + 1
           /\ Go(r, "refund") /\ UNCHANGED lowGas
     /\ UNCHANGED <<evmKeys, sent, tankSent>>

\* A mutant: the wallet is given its allowance back twice.
Refund_Twice(r) ==
  LET w == topup[r].wallet
  IN /\ At(r, "refund")
     /\ walletCount' = [walletCount EXCEPT ![w] = @ - 2]
     /\ dayCount' = dayCount - 1
     /\ inflight' = inflight \ {w}
     /\ Return(r)
     /\ UNCHANGED <<lowGas, gasOk, tankQueue, sends>>

\* The three commands of refund go out together.
Refund(r) ==
  LET w == topup[r].wallet
  IN /\ At(r, "refund")
     /\ walletCount' = [walletCount EXCEPT ![w] = @ - 1]
     /\ dayCount' = dayCount - 1
     /\ inflight' = inflight \ {w}
     /\ Return(r)
     /\ UNCHANGED <<lowGas, gasOk, tankQueue, sends>>

Release(r) ==
  /\ At(r, "release")
  /\ inflight' = inflight \ {topup[r].wallet}
  /\ Return(r)
  /\ UNCHANGED <<lowGas, gasOk, walletCount, dayCount, tankQueue, sends>>

-----------------------------------------------------------------------------
(* Time and the wallets' own trades. *)

\* IN_FLIGHT_SECONDS pass, perhaps while the request is still in the queue.
InflightExpires(w) ==
  /\ w \in inflight
  /\ inflight' = inflight \ {w}
  /\ UNCHANGED <<lowGas, gasOk, walletCount, dayCount, tankQueue, topup, sends>>

GasOkExpires(w) ==
  /\ w \in gasOk
  /\ gasOk' = gasOk \ {w}
  /\ UNCHANGED <<lowGas, inflight, walletCount, dayCount, tankQueue, topup, sends>>

SpendGas(w) ==
  /\ w \notin lowGas
  /\ lowGas' = lowGas \cup {w}
  /\ UNCHANGED <<evmKeys, tankQueue, topup, sends>>

\* A top-up that was mined late arrives all the same.
LateGas(w) ==
  /\ w \in lowGas /\ late[w] > 0
  /\ lowGas' = lowGas \ {w}
  /\ UNCHANGED <<evmKeys, tankQueue, topup, sends>>

\* The API restarts; its keys in Redis stay.
TopupRestart ==
  /\ \E r \in TopupRequests : ~At(r, "idle")
  /\ topup' = [r \in TopupRequests |-> IdleTopup]
  /\ tankQueue' = <<>>
  /\ UNCHANGED <<lowGas, evmKeys, sends>>

TopupStep(r) ==
  \/ ReadBalances(r) \/ TakeInflight(r) \/ CountWallet(r) \/ CountDay(r)
  \/ SendGas(r) \/ Receipt(r) \/ Refund(r) \/ Release(r)

TopupNext ==
  \/ \E r \in TopupRequests :
       \/ \E w \in Wallets : ensureGas(r, w)
       \/ TopupStep(r)
  \/ \E w \in Wallets : InflightExpires(w) \/ GasOkExpires(w) \/ SpendGas(w) \/ LateGas(w)
  \/ TopupRestart

TopupSpec == TopupInit /\ [][TopupNext]_topupVars

-----------------------------------------------------------------------------
(* Properties. *)

\* The tank sends no more than its caps, except that each top-up mined after the
\* 20 s counts as failed and gives its allowance back once (lines 136-176; the
\* class comment: "so the tank can't be drained").
CapsHold ==
  /\ tankSent <= DailyCap + tankLate
  /\ \A w \in Wallets : sent[w] <= PerWalletDaily + late[w]

\* Without the exception it fails.
TankCap == tankSent <= DailyCap

\* Top-ups of a chain are sent one at a time, so no nonce is used twice: while
\* one waits for its receipt no other is sent (clients.queue, lines 160-171).
OneSendAtATime == Cardinality({r \in TopupRequests : At(r, "receipt")}) <= 1

\* The tank pays within its caps, and never two transactions at a time.
TankSafety == CapsHold /\ OneSendAtATime
=============================================================================
