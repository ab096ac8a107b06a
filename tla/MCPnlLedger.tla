---------------------------- MODULE MCPnlLedger ----------------------------
(***************************************************************************)
(* Instances of PnlLedger for TLC: buys and sells of one user and token.   *)
(* Any transaction may be what a quote describes, the wrong ones are those *)
(* that never settle.                                                      *)
(***************************************************************************)
EXTENDS PnlLedger, TLC

CONSTANTS Buys, buyAmount, sellAmount

MCQuoted == [q \in Quotes |-> Hashes]
MCSide == [q \in Quotes |-> IF q \in Buys THEN "BUY" ELSE "SELL"]
MCAmount == [q \in Quotes |-> IF q \in Buys THEN buyAmount ELSE sellAmount]
MCPosition == [q \in Quotes |-> "position"]

\* Sweepers are alike, transactions and buys too; sells are not, one is Skippable.
MCSymmetry == Permutations(Sweepers) \cup Permutations(Hashes) \cup Permutations(Buys)
=============================================================================
