-------------------------- MODULE MCTradeLifecycle --------------------------
(***************************************************************************)
(* Instances of TradeLifecycle for TLC.  Every quote describes the same    *)
(* call, the worst case for telling trades apart, and all but that of      *)
(* MCTwoWallets are for the wallet w1.  h1 is that call sent by w1, h2 by  *)
(* another account, h3 and h4 are fee transfers of w1.                     *)
(***************************************************************************)
EXTENDS TradeLifecycle, TLC

CONSTANTS q1, q2, h1, h2, h3, h4, w1, w2, swapCall, feeCall

MCSender == [h \in Hashes |-> IF h = h2 THEN w2 ELSE w1]
MCCall == [h \in Hashes |-> IF h \in {h3, h4} THEN feeCall ELSE swapCall]
MCWallet == [q \in Quotes |-> w1]
\* A second quote of the same call for another wallet: h1 is foreign to it.
MCTwoWallets == [q \in Quotes |-> IF q = q2 THEN w2 ELSE w1]
MCUnsignedTx == [q \in Quotes |-> swapCall]
MCFeeUnsignedTx == [q \in Quotes |-> feeCall]
MCNoFee == [q \in Quotes |-> None]

\* Requests are alike, and so are the quotes.
MCSymmetry == Permutations(Handlers) \cup Permutations(Quotes)
=============================================================================
