---------------------------- MODULE MCTradeRelay ----------------------------
(***************************************************************************)
(* Instances of TradeRelay for TLC.  h1 is the quoted swap sent by the     *)
(* wallet itself; r1 and r2 are the quoted swap sent by the relayer.       *)
(***************************************************************************)
EXTENDS TradeRelay

CONSTANTS q1, q2, h1, r1, r2, w1, relayer, swapCall

MCSender == [h \in Hashes |-> IF h \in {r1, r2} THEN relayer ELSE w1]
MCCall == [h \in Hashes |-> swapCall]
MCWallet == [q \in Quotes |-> w1]
MCUnsignedTx == [q \in Quotes |-> swapCall]
MCNoFee == [q \in Quotes |-> None]
=============================================================================
