------------------------------ MODULE LiveTips ------------------------------
(***************************************************************************)
(* USDC tips in a live room (apps/api/src/live/live-tips.service.ts).      *)
(*                                                                         *)
(* prepare stores a pending tip for ten minutes.  submit takes it out,     *)
(* checks the two EVM transfers or co-signs and sends the Solana           *)
(* transaction, and then announces the tip and notifies the host.  Clients *)
(* repeat submit at will; the API may fail between any two awaits.         *)
(***************************************************************************)
EXTENDS Integers

CONSTANTS
  Tips,          \* tips a viewer prepares for the same room
  TipRequests,   \* concurrent submit requests
  NoTip

VARIABLES
  tipChain,   \* per tip: "none" before prepare, then "evm" or "solana"
  pendingTip, \* tips whose key kamby:live:tip:<id> is in Redis
  legs,       \* EVM: the transfer to the host and the one to Kamby
  solTip,     \* Solana: the co-signed transaction
  tipReq,     \* what each request remembers
  announced,  \* per tip: "tipped $x" lines pushed to the room
  told        \* per tip: USDC_RECEIVED notifications of the host

tipVars == <<tipChain, pendingTip, legs, solTip, tipReq, announced, told>>

Legs == 1..2
OnChain == {"none", "sent", "ok", "failed"}
TipTask == [pc: {"idle", "check", "cosign", "announce", "notify"},
            tip: Tips \cup {NoTip}, leg: Legs]

TipsTypeOK ==
  /\ tipChain \in [Tips -> {"none", "evm", "solana"}]
  /\ pendingTip \subseteq Tips
  /\ legs \in [Tips -> [Legs -> OnChain]]
  /\ solTip \in [Tips -> OnChain]
  /\ tipReq \in [TipRequests -> TipTask]
  /\ announced \in [Tips -> Nat] /\ told \in [Tips -> Nat]

IdleTip == [pc |-> "idle", tip |-> NoTip, leg |-> 1]

TipsInit ==
  /\ tipChain = [t \in Tips |-> "none"]
  /\ pendingTip = {}
  /\ legs = [t \in Tips |-> [l \in Legs |-> "none"]]
  /\ solTip = [t \in Tips |-> "none"]
  /\ tipReq = [r \in TipRequests |-> IdleTip]
  /\ announced = [t \in Tips |-> 0]
  /\ told = [t \in Tips |-> 0]

GoOn(r, pc) == tipReq' = [tipReq EXCEPT ![r].pc = pc]
GiveUpTip(r) == tipReq' = [tipReq EXCEPT ![r] = IdleTip]

-----------------------------------------------------------------------------

\* The amount, the room, the wallets and the gas are in order; the answer
\* carries the transactions to sign.
prepare(t, chain) ==
  /\ tipChain[t] = "none"
  /\ tipChain' = [tipChain EXCEPT ![t] = chain]
  /\ pendingTip' = pendingTip \cup {t}
  /\ UNCHANGED <<legs, solTip, tipReq, announced, told>>

TipExpires(t) ==
  /\ t \in pendingTip
  /\ pendingTip' = pendingTip \ {t}
  /\ UNCHANGED <<tipChain, legs, solTip, tipReq, announced, told>>

\* A mutant: GET in place of GETDEL.
submit_Get(r, t) ==
  /\ tipReq[r].pc = "idle" /\ t \in pendingTip
  /\ pendingTip' = pendingTip
  /\ tipReq' = [tipReq EXCEPT ![r] =
       [pc |-> IF tipChain[t] = "evm" THEN "check" ELSE "cosign", tip |-> t, leg |-> 1]]
  /\ UNCHANGED <<tipChain, legs, solTip, announced, told>>

\* GETDEL: only one request gets the tip, and it is gone if that request fails, or
\* was not the sender's.
submit(r, t) ==
  /\ tipReq[r].pc = "idle" /\ t \in pendingTip
  /\ pendingTip' = pendingTip \ {t}
  /\ tipReq' = [tipReq EXCEPT ![r] =
       [pc |-> IF tipChain[t] = "evm" THEN "check" ELSE "cosign", tip |-> t, leg |-> 1]]
  /\ UNCHANGED <<tipChain, legs, solTip, announced, told>>

\* A mutant: the second transfer is not checked.
CheckLeg_FirstOnly(r) ==
  LET q == tipReq[r]
  IN /\ q.pc = "check"
     /\ IF legs[q.tip][q.leg] = "ok"
        THEN tipReq' = [tipReq EXCEPT ![r] = [q EXCEPT !.pc = "announce"]]
        ELSE GiveUpTip(r)   \* it failed, or no receipt within 60 s
     /\ UNCHANGED <<tipChain, pendingTip, legs, solTip, announced, told>>

\* verifyEvmTxs: one receipt after the other.
CheckLeg(r) ==
  LET q == tipReq[r]
  IN /\ q.pc = "check"
     /\ IF legs[q.tip][q.leg] = "ok"
        THEN tipReq' = [tipReq EXCEPT ![r] = IF q.leg = 1 THEN [q EXCEPT !.leg = 2]
                                             ELSE [q EXCEPT !.pc = "announce"]]
        ELSE GiveUpTip(r)   \* it failed, or no receipt within 60 s
     /\ UNCHANGED <<tipChain, pendingTip, legs, solTip, announced, told>>

\* coSignFeeOnly: the simulation fails, or the transaction is sent; nothing waits
\* for it to land.
CoSign(r) ==
  LET q == tipReq[r]
  IN /\ q.pc = "cosign"
     /\ \/ GiveUpTip(r) /\ UNCHANGED solTip
        \/ /\ solTip' = [solTip EXCEPT ![q.tip] = "sent"]
           /\ GoOn(r, "announce")
     /\ UNCHANGED <<tipChain, pendingTip, legs, announced, told>>

\* announceTip: no line when the room has ended or the line cannot be pushed.
Announce(r) ==
  LET q == tipReq[r]
  IN /\ q.pc = "announce"
     /\ \/ announced' = [announced EXCEPT ![q.tip] = @ + 1]
        \/ UNCHANGED announced
     /\ GoOn(r, "notify")
     /\ UNCHANGED <<tipChain, pendingTip, legs, solTip, told>>

NotifyHost(r) ==
  LET q == tipReq[r]
  IN /\ q.pc = "notify"
     /\ told' = [told EXCEPT ![q.tip] = @ + 1]
     /\ GiveUpTip(r)
     /\ UNCHANGED <<tipChain, pendingTip, legs, solTip, announced>>

TipDies(r) ==
  /\ tipReq[r].pc # "idle"
  /\ GiveUpTip(r)
  /\ UNCHANGED <<tipChain, pendingTip, legs, solTip, announced, told>>

\* The viewer's wallet sends the transfers in order.
SendLeg(t, l) ==
  /\ tipChain[t] = "evm" /\ legs[t][l] = "none"
  /\ l = 2 => legs[t][1] # "none"
  /\ legs' = [legs EXCEPT ![t][l] = "sent"]
  /\ UNCHANGED <<tipChain, pendingTip, solTip, tipReq, announced, told>>

LegMined(t, l) ==
  /\ legs[t][l] = "sent"
  /\ \E s \in {"ok", "failed"} : legs' = [legs EXCEPT ![t][l] = s]
  /\ UNCHANGED <<tipChain, pendingTip, solTip, tipReq, announced, told>>

\* A Solana transaction succeeds, or fails or never lands.
SolanaLands(t) ==
  /\ solTip[t] = "sent"
  /\ \E s \in {"ok", "failed"} : solTip' = [solTip EXCEPT ![t] = s]
  /\ UNCHANGED <<tipChain, pendingTip, legs, tipReq, announced, told>>

TipsNext ==
  \/ \E t \in Tips :
       \/ \E chain \in {"evm", "solana"} : prepare(t, chain)
       \/ TipExpires(t)
       \/ SolanaLands(t)
       \/ \E l \in Legs : SendLeg(t, l) \/ LegMined(t, l)
  \/ \E r \in TipRequests :
       \/ \E t \in Tips : submit(r, t)
       \/ CheckLeg(r) \/ CoSign(r) \/ Announce(r) \/ NotifyHost(r) \/ TipDies(r)

TipsSpec == TipsInit /\ [][TipsNext]_tipVars

-----------------------------------------------------------------------------
(* Properties. *)

\* However often submit is repeated, a tip appears once in the room and reaches
\* the host once (getdel before anything else, line 111).
TipAnnouncedOnce == \A t \in Tips : announced[t] <= 1 /\ told[t] <= 1

\* An EVM tip is shown, or told to the host, only when both transfers succeeded
\* (verifyEvmTxs, lines 73-91 of launchpad/adapters/evm-launch.ts).
EvmTipWasPaid ==
  \A t \in Tips :
    tipChain[t] = "evm" /\ announced[t] + told[t] > 0 => \A l \in Legs : legs[t][l] = "ok"

\* The same for both chains, as lines 41-42 have it: "Once the transfers are
\* checked on-chain, the tip appears".  It fails on Solana.
TipWasPaid ==
  \A t \in Tips :
    announced[t] + told[t] > 0 => solTip[t] = "ok" \/ \A l \in Legs : legs[t][l] = "ok"

\* A tip is announced at most once, and on EVM only after it was paid.
TipSafety == TipAnnouncedOnce /\ EvmTipWasPaid
=============================================================================
