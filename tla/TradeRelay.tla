----------------------------- MODULE TradeRelay -----------------------------
(***************************************************************************)
(* Sponsored trades: POST /trade/relay broadcasts the quoted swap from the *)
(* relayer's own account once the wallet has signed a consent, and records *)
(* it in the same table as a self-paid trade, where TradeLifecycle's       *)
(* refreshes and sweep take over.                                          *)
(*                                                                         *)
(*   apps/api/src/trading/relayer/evm-gas-relayer-quote.service.ts         *)
(*   apps/api/src/trading/relayer/evm-gas-relayer.service.ts               *)
(*                                                                         *)
(* The requests interleave with each other, with self-paid submissions of  *)
(* the same quote and with everything TradeLifecycle does.  The fee leg of *)
(* a sponsored trade (submitFeeLegIfDue) starts only from a CONFIRMED      *)
(* sponsored row; SponsoredNeverConfirmed shows that there is none.        *)
(***************************************************************************)
EXTENDS TradeLifecycle

CONSTANTS
    Relayer,        \* the relayer's account
    RelayHashes,    \* the transactions the relayer can come to sign
    RelayHandlers   \* concurrent POST /trade/relay requests

ASSUME RelayAssumption ==
    /\ RelayHashes \subseteq Hashes
    /\ \A h \in RelayHashes : Sender[h] = Relayer
    /\ \A q \in Quotes : Wallet[q] # Relayer

VARIABLES
    relayerStatus,  \* relayerStatus[q]: TradeQuote.relayerStatus, "NONE" when null
    relay,          \* relay[p]: where request p is between two awaits
    sent,           \* sent[q]: the transactions the relayer has broadcast for q
    sponsored       \* quotes whose row has sponsoredByRelayer

relayVars == <<relayerStatus, relay, sent, sponsored>>
allVars == <<vars, relayVars>>

EvmRelayerQuoteStatus == {"NONE", "PENDING_CONSENT", "CONSENT_RECEIVED", "BROADCAST", "FAILED"}
RelayPC == {"idle", "markFailed", "claim", "simulate", "ceiling", "broadcast", "persist"}
RelayTask == [pc : RelayPC, quote : Quotes \cup {None}, hash : Hashes \cup {None}]
RelayIdle == [pc |-> "idle", quote |-> None, hash |-> None]

RelayTypeOK ==
    /\ TypeOK
    /\ relayerStatus \in [Quotes -> EvmRelayerQuoteStatus]
    /\ relay \in [RelayHandlers -> RelayTask]
    /\ sent \in [Quotes -> SUBSET RelayHashes]
    /\ sponsored \subseteq Quotes

RelayInit ==
    /\ Init
    /\ relayerStatus = [q \in Quotes |-> "NONE"]
    /\ relay = [p \in RelayHandlers |-> RelayIdle]
    /\ sent = [q \in Quotes |-> {}]
    /\ sponsored = {}

-----------------------------------------------------------------------------
\* attachSponsorshipIfEligible, for an eligible quote that asked for it: part of creating
\* the quote, so it comes before anything else that happens to it.
AttachSponsorship(q) ==
    /\ relayerStatus[q] = "NONE"
    /\ row[q]["swap"].hash = None
    /\ \A p \in Processes : task[p].quote # q
    /\ q \notin expired
    /\ relayerStatus' = [relayerStatus EXCEPT ![q] = "PENDING_CONSENT"]
    /\ UNCHANGED <<vars, relay, sent, sponsored>>

Relaying(pc, q, h) == [pc |-> pc, quote |-> q, hash |-> h]

\* relay, up to the verdict on quote and signature: an expired quote or a signature that
\* does not verify leads to markFailed, anything else to the claim.
Relay(p, q) ==
    /\ relay[p] = RelayIdle
    /\ row[q]["swap"].hash = None
    /\ relayerStatus[q] = "PENDING_CONSENT"
    /\ \E pc \in {"markFailed", "claim"} :
          /\ q \in expired => pc = "markFailed"
          /\ relay' = [relay EXCEPT ![p] = Relaying(pc, q, None)]
    /\ UNCHANGED <<vars, relayerStatus, sent, sponsored>>

\* update() where id: whatever relayerStatus is by now.
MarkFailed(p) ==
    /\ relay[p].pc = "markFailed"
    /\ relayerStatus' = [relayerStatus EXCEPT ![relay[p].quote] = "FAILED"]
    /\ relay' = [relay EXCEPT ![p] = RelayIdle]
    /\ UNCHANGED <<vars, sent, sponsored>>

\* Mutant: an update by id instead of the conditional updateMany.
ClaimUnconditional(p) ==
    /\ relay[p].pc = "claim"
    /\ relayerStatus' = [relayerStatus EXCEPT ![relay[p].quote] = "CONSENT_RECEIVED"]
    /\ relay' = [relay EXCEPT ![p].pc = "simulate"]
    /\ UNCHANGED <<vars, sent, sponsored>>

\* The conditional updateMany: only one request gets past it.
Claim(p) ==
    /\ relay[p].pc = "claim"
    /\ IF relayerStatus[relay[p].quote] = "PENDING_CONSENT"
       THEN /\ relayerStatus' = [relayerStatus EXCEPT ![relay[p].quote] = "CONSENT_RECEIVED"]
            /\ relay' = [relay EXCEPT ![p].pc = "simulate"]
       ELSE /\ relay' = [relay EXCEPT ![p] = RelayIdle]
            /\ UNCHANGED relayerStatus
    /\ UNCHANGED <<vars, sent, sponsored>>

\* simulate, then checkGasCeiling: each passes or sends the request to markFailed.
Simulate(p) ==
    /\ relay[p].pc = "simulate"
    /\ \E pc \in {"ceiling", "markFailed"} : relay' = [relay EXCEPT ![p].pc = pc]
    /\ UNCHANGED <<vars, relayerStatus, sent, sponsored>>

CheckGasCeiling(p) ==
    /\ relay[p].pc = "ceiling"
    /\ \E pc \in {"broadcast", "markFailed"} : relay' = [relay EXCEPT ![p].pc = pc]
    /\ UNCHANGED <<vars, relayerStatus, sent, sponsored>>

\* sendTransaction at the next nonce: a transaction of the relayer with the quoted call.
\* When the answer is lost the call throws, although the transaction is out.
Broadcast(p) ==
    /\ relay[p].pc = "broadcast"
    /\ \E h \in RelayHashes :
          /\ \A q \in Quotes : h \notin sent[q]
          /\ Call[h] = UnsignedTx[relay[p].quote]
          /\ sent' = [sent EXCEPT ![relay[p].quote] = @ \cup {h}]
          /\ \/ relay' = [relay EXCEPT ![p] = Relaying("persist", @.quote, h)]
             \/ RpcHiccups /\ relay' = [relay EXCEPT ![p] = RelayIdle]
    /\ UNCHANGED <<vars, relayerStatus, sponsored>>

\* Mutant: the two writes are not one transaction.
PersistNotAtomic(p) ==
    /\ relay[p].pc = "persist"
    /\ LET q == relay[p].quote
           h == relay[p].hash
       IN /\ relayerStatus' = [relayerStatus EXCEPT ![q] = "BROADCAST"]
          /\ IF row[q]["swap"].hash = None /\ ~HashRecorded(h, "swap")
             THEN /\ row' = [row EXCEPT ![q]["swap"] = [hash |-> h, status |-> "PENDING"]]
                  /\ sponsored' = sponsored \cup {q}
             ELSE UNCHANGED <<row, sponsored>>
    /\ relay' = [relay EXCEPT ![p] = RelayIdle]
    /\ UNCHANGED <<chain, aged, expired, verified, task, batch, sent>>

\* $transaction of create() and update(): both or, when a unique key is taken, neither,
\* and then the row that has the quote is returned.
Persist(p) ==
    /\ relay[p].pc = "persist"
    /\ LET q == relay[p].quote
           h == relay[p].hash
       IN IF row[q]["swap"].hash = None /\ ~HashRecorded(h, "swap")
          THEN /\ row' = [row EXCEPT ![q]["swap"] = [hash |-> h, status |-> "PENDING"]]
               /\ relayerStatus' = [relayerStatus EXCEPT ![q] = "BROADCAST"]
               /\ sponsored' = sponsored \cup {q}
          ELSE UNCHANGED <<row, relayerStatus, sponsored>>
    /\ relay' = [relay EXCEPT ![p] = RelayIdle]
    /\ UNCHANGED <<chain, aged, expired, verified, task, batch, sent>>

\* A thrown error or a restart between two awaits.
RelayAbort(p) ==
    /\ relay[p] # RelayIdle
    /\ relay' = [relay EXCEPT ![p] = RelayIdle]
    /\ UNCHANGED <<vars, relayerStatus, sent, sponsored>>

RelayStep(p) ==
    \/ \E q \in Quotes : Relay(p, q)
    \/ MarkFailed(p) \/ Claim(p) \/ Simulate(p) \/ CheckGasCeiling(p)
    \/ Broadcast(p) \/ Persist(p) \/ RelayAbort(p)

\* A step of TradeLifecycle.  What the relayer has not broadcast is not on the chain, and
\* nobody knows its hash.
LifecycleStep ==
    /\ Next
    /\ \A h \in RelayHashes \ UNION {sent[q] : q \in Quotes} :
          chain'[h].receipt = "none" /\ \A p \in Processes : task'[p].hash # h
    /\ UNCHANGED relayVars

RelayNext ==
    \/ LifecycleStep
    \/ \E q \in Quotes : AttachSponsorship(q)
    \/ \E p \in RelayHandlers : RelayStep(p)

RelaySpec == RelayInit /\ [][RelayNext]_allVars

-----------------------------------------------------------------------------
(* Properties *)

\* The claim (relay, "only the caller that actually wins this conditional update proceeds
\* to spend real gas"): whatever requests race, repeat, fail or die half-way, the relayer
\* pays for at most one broadcast per quote.
AtMostOneRelay == \A q \in Quotes : \A h1, h2 \in sent[q] : h1 = h2

\* relayerStatus BROADCAST hands over to the trade row (schema.prisma, relayerStatus): the
\* row is there, and it carries the transaction the relayer broadcast for this quote.
BroadcastIsRecorded ==
    \A q \in Quotes : relayerStatus[q] = "BROADCAST"
                         => q \in sponsored /\ row[q]["swap"].hash \in sent[q]

\* The integrity gate compares the sender of a transaction with the wallet of the quote,
\* and a sponsored one is sent by the relayer: no sponsored trade is ever CONFIRMED, so its
\* fee leg (submitFeeLegIfDue) never starts.
SponsoredNeverConfirmed == \A q \in sponsored : row[q]["swap"].status # "CONFIRMED"

\* What the relayer's own comments and tests expect of a sponsored swap that executed: the
\* unmodified refreshStatus does not fail it.
SponsoredSuccessIsNotFailed ==
    \A q \in sponsored : chain[row[q]["swap"].hash].receipt = "success"
                            => row[q]["swap"].status # "FAILED"

-----------------------------------------------------------------------------
(* The inductive invariant behind AtMostOneRelay and SponsoredNeverConfirmed. *)

\* Past the claim, up to the broadcast.
Claimed(t) == t.pc \in {"simulate", "ceiling", "broadcast"}

\* A busy request is bound to a quote; one that has broadcast holds what it sent.
RelayBound ==
    \A p \in RelayHandlers :
        /\ relay[p].pc # "idle" => relay[p].quote \in Quotes
        /\ relay[p].pc = "persist" => relay[p].hash \in sent[relay[p].quote]

\* The claim is held once: while it is, or after a broadcast, nobody else can get it.
ClaimHeldOnce ==
    /\ \A p1, p2 \in RelayHandlers :
          Claimed(relay[p1]) /\ Claimed(relay[p2]) /\ relay[p1].quote = relay[p2].quote => p1 = p2
    /\ \A p \in RelayHandlers : Claimed(relay[p]) => sent[relay[p].quote] = {}
    /\ \A q \in Quotes :
          relayerStatus[q] \in {"NONE", "PENDING_CONSENT"}
             => sent[q] = {} /\ \A p \in RelayHandlers : ~(Claimed(relay[p]) /\ relay[p].quote = q)

\* A sponsored row carries a transaction the relayer sent.
SponsoredIsRelayed == \A q \in sponsored : row[q]["swap"].hash \in RelayHashes

RelayInv ==
    /\ IntegrityInv
    /\ RelayTypeOK
    /\ RelayBound
    /\ ClaimHeldOnce
    /\ AtMostOneRelay
    /\ BroadcastIsRecorded
    /\ SponsoredIsRelayed
=============================================================================
