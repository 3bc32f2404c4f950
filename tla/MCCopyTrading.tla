----------------------------- MODULE MCCopyTrading -----------------------------
(* An order, its cancellation and a flatten of everything.                 *)
EXTENDS CopyTrading, TLC
MCKeys == {"buy", "cancel", "flatten"}
MCKindOf == [buy |-> "SUBMIT", cancel |-> "CANCEL", flatten |-> "FLATTEN"]
CallSymmetry == Permutations(Calls)
MCOf == [k \in MCKeys |-> "buy"]
=============================================================================
