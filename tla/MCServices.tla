---------------------------- MODULE MCServices -----------------------------
(***************************************************************************)
(* One run for components that share no state: Solana trades, duels, gas   *)
(* top-ups, wallet linking, swap ingestion, pool discovery, RPC failover   *)
(* and the pacing of Jupiter.  As in MCSocial, a behaviour is one of a     *)
(* single component.                                                       *)
(***************************************************************************)
EXTENDS SolanaTrades, Duels, GasTopup, WalletLink, SwapIngestion, PoolDiscovery, RpcFailover,
        JupiterPacing

CONSTANTS p1, p2, p3, q1, q2, s1, s2

\* A candidate of GeckoTerminal, and two new pools of one token.
MCTokenOf == (p1 :> "x") @@ (p2 :> "y") @@ (p3 :> "y")
MCSponsored == (q1 :> s1) @@ (q2 :> s2)

VARIABLE service

servicesVars == <<solTradeVars, duelVars, topupVars, linkVars, ingestVars, discVars, rpcVars, pacingVars,
                  service>>

ServicesInit ==
  /\ service \in {"solana", "duels", "topup", "link", "ingestion", "discovery", "rpc", "pacing"}
  /\ SolInit /\ DuelsInit /\ TopupInit /\ LinkInit /\ IngestInit /\ DiscInit /\ RpcInit
  /\ PacingInit
  /\ service # "topup" => lowGas = {}

ServicesNext ==
  \/ /\ service = "solana" /\ SolNext
     /\ UNCHANGED <<duelVars, topupVars, linkVars, ingestVars, discVars, rpcVars, pacingVars, service>>
  \/ /\ service = "duels" /\ DuelsNext
     /\ UNCHANGED <<solTradeVars, topupVars, linkVars, ingestVars, discVars, rpcVars, pacingVars, service>>
  \/ /\ service = "topup" /\ TopupNext
     /\ UNCHANGED <<solTradeVars, duelVars, linkVars, ingestVars, discVars, rpcVars, pacingVars, service>>
  \/ /\ service = "link" /\ LinkNext
     /\ UNCHANGED <<solTradeVars, duelVars, topupVars, ingestVars, discVars, rpcVars, pacingVars, service>>
  \/ /\ service = "ingestion" /\ IngestNext
     /\ UNCHANGED <<solTradeVars, duelVars, topupVars, linkVars, discVars, rpcVars, pacingVars, service>>
  \/ /\ service = "discovery" /\ DiscNext
     /\ UNCHANGED <<solTradeVars, duelVars, topupVars, linkVars, ingestVars, rpcVars, pacingVars, service>>
  \/ /\ service = "rpc" /\ RpcNext
     /\ UNCHANGED <<solTradeVars, duelVars, topupVars, linkVars, ingestVars, discVars, pacingVars, service>>
  \/ /\ service = "pacing" /\ PacingNext
     /\ UNCHANGED <<solTradeVars, duelVars, topupVars, linkVars, ingestVars, discVars, rpcVars, service>>

ServicesSpec == ServicesInit /\ [][ServicesNext]_servicesVars

\* The component in play keeps its rows, counters and tasks in their sets.
ServicesTypeOK ==
  CASE service = "solana" -> SolTypeOK
    [] service = "duels" -> DuelsTypeOK
    [] service = "topup" -> TopupTypeOK
    [] service = "link" -> LinkTypeOK
    [] service = "ingestion" -> IngestTypeOK
    [] service = "discovery" -> DiscTypeOK
    [] service = "rpc" -> RpcTypeOK
    [] service = "pacing" -> PacingTypeOK

\* What the worker reads from the chain: no swap and no pool is passed over, a market gets
\* its cursor unless a check fails half-way, and of one large trade a follower hears once.
MarketSafety == NoSwapSkipped /\ NoPoolOverlooked /\ CursorPerMarket /\ AlertSafety

\* How the API treats the services it depends on: breakers open and close on evidence, and
\* calls to Jupiter stay within its limit.
UpstreamSafety == BreakerFollowsStreak /\ PacingSafety

\* Users, their wallets and accounts are alike, and so are concurrent requests.
ServicesSymmetry == Permutations(Duelists) \cup Permutations(DuelRequests)
=============================================================================
