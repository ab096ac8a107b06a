----------------------------- MODULE MCProgress -----------------------------
(***************************************************************************)
(* One run for the components that must get somewhere in the end: Solana   *)
(* trades, RPC failover, swap ingestion, pool discovery, polls, the trade   *)
(* panel and the realized-PnL ledger of a single worker.  As in MCSocial, a behaviour is *)
(* one of a single component; the liveness properties name the fairness    *)
(* they assume of theirs.                                                  *)
(***************************************************************************)
EXTENDS SolanaTrades, RpcFailover, SwapIngestion, PoolDiscovery, Predictions, PnlLedger,
        TradePanel, TLC

CONSTANTS q1, q2, s1, s2, p1, p2, b1, b2, c1, h1, h2, h3

MCSponsored == (q1 :> s1) @@ (q2 :> s2)
\* Two new pools of two tokens, of which a tick checks one.
MCTokenOf == (p1 :> "x") @@ (p2 :> "y")
\* Two buys and a sell of one position; each has its own transaction.
MCQuoted == (b1 :> {h1}) @@ (b2 :> {h2}) @@ (c1 :> {h3})
MCSide == (b1 :> "BUY") @@ (b2 :> "BUY") @@ (c1 :> "SELL")
MCAmount == [q \in Quotes |-> 1]
MCPosition == [q \in Quotes |-> "position"]

VARIABLE service

progressVars == <<solTradeVars, rpcVars, ingestVars, discVars, pollVars, pnlVars, panelVars, service>>

ProgressInit ==
  /\ service \in {"solana", "rpc", "ingestion", "discovery", "polls", "pnl", "panel"}
  /\ SolInit /\ RpcInit /\ IngestInit /\ DiscInit /\ PollInit /\ PnlInit /\ PanelInit

ProgressNext ==
  \/ /\ service = "solana" /\ SolNext
     /\ UNCHANGED <<rpcVars, ingestVars, discVars, pollVars, pnlVars, panelVars, service>>
  \/ /\ service = "rpc" /\ RpcNext
     /\ UNCHANGED <<solTradeVars, ingestVars, discVars, pollVars, pnlVars, panelVars, service>>
  \/ /\ service = "ingestion" /\ IngestNext
     /\ UNCHANGED <<solTradeVars, rpcVars, discVars, pollVars, pnlVars, panelVars, service>>
  \/ /\ service = "discovery" /\ DiscNext
     /\ UNCHANGED <<solTradeVars, rpcVars, ingestVars, pollVars, pnlVars, panelVars, service>>
  \/ /\ service = "polls" /\ PollNext
     /\ UNCHANGED <<solTradeVars, rpcVars, ingestVars, discVars, pnlVars, panelVars, service>>
  \/ /\ service = "pnl" /\ PnlNext
     /\ UNCHANGED <<solTradeVars, rpcVars, ingestVars, discVars, pollVars, panelVars, service>>
  \/ /\ service = "panel" /\ PanelNext
     /\ UNCHANGED <<solTradeVars, rpcVars, ingestVars, discVars, pollVars, pnlVars, service>>

ProgressSpec == ProgressInit /\ [][ProgressNext]_progressVars

\* The worker keeps up: every swap is read in the end and every pending pool has its turn.
MarketProgress == SwapsIngested /\ PendingChecked
=============================================================================
