------------------------------ MODULE MCSocial ------------------------------
(***************************************************************************)
(* One run for the social services of the API, which share no state: calls,*)
(* live rooms, tips, chats, polls and the generator of polls, and for the  *)
(* trade panel of the web client.  A behaviour is one of a single          *)
(* component, the others stay as they start, so the states of the run are  *)
(* those of the components together and not their product.                 *)
(***************************************************************************)
EXTENDS Calls, LiveRoom, LiveTips, Predictions, PollGenerator, TradePanel,
        DirectMessages, TLC

VARIABLE service

socialVars == <<callVars, liveVars, tipVars, pollVars, genVars, panelVars, dmVars, service>>

SocialInit ==
  /\ service \in {"calls", "live", "tips", "polls", "generator", "panel", "messages"}
  /\ CallsInit /\ LiveInit /\ TipsInit /\ PollInit /\ GenInit /\ PanelInit /\ DmInit

SocialNext ==
  \/ /\ service = "calls" /\ CallsNext
     /\ UNCHANGED <<liveVars, tipVars, pollVars, genVars, panelVars, dmVars, service>>
  \/ /\ service = "live" /\ LiveNext
     /\ UNCHANGED <<callVars, tipVars, pollVars, genVars, panelVars, dmVars, service>>
  \/ /\ service = "tips" /\ TipsNext
     /\ UNCHANGED <<callVars, liveVars, pollVars, genVars, panelVars, dmVars, service>>
  \/ /\ service = "polls" /\ PollNext
     /\ UNCHANGED <<callVars, liveVars, tipVars, genVars, panelVars, dmVars, service>>
  \/ /\ service = "generator" /\ GenNext
     /\ UNCHANGED <<callVars, liveVars, tipVars, pollVars, panelVars, dmVars, service>>
  \/ /\ service = "panel" /\ PanelNext
     /\ UNCHANGED <<callVars, liveVars, tipVars, pollVars, genVars, dmVars, service>>
  \/ /\ service = "messages" /\ DmNext
     /\ UNCHANGED <<callVars, liveVars, tipVars, pollVars, genVars, panelVars, service>>

SocialSpec == SocialInit /\ [][SocialNext]_socialVars

\* The component in play keeps its records, keys and counters in their sets.
SocialTypeOK ==
  CASE service = "calls" -> CallsTypeOK
    [] service = "live" -> LiveTypeOK
    [] service = "tips" -> TipsTypeOK
    [] service = "polls" -> PollTypeOK
    [] service = "generator" -> GenTypeOK
    [] service = "panel" -> PanelTypeOK
    [] service = "messages" -> DmTypeOK

\* In every service users are alike, and so are concurrent requests.
SocialSymmetry == Permutations(CallUsers) \cup Permutations(CallRequests)
=============================================================================
