--------------------------- MODULE MCPayoutOperations ---------------------------
(* An account that qualifies from the start and does not trade.            *)
EXTENDS PayoutOperations, TLC

CONSTANTS r1, r2, t1, t2, worker

OneRequest == {r1}
TwoRequests == {r1, r2}
OneCaller == {t1}
TwoCallers == {t1, t2}
Interchangeable == Permutations(TwoCallers)

Unlocked == [model |-> "DAILY", days |-> 0, threshold |-> 1, consistency |-> 0,
             buffer |-> 0, min |-> 1, caps |-> <<1>>]
OnePolicy == {Unlocked}
OneUnit == {1}
NoWins == {}
NoProfits == {}
FourEarned == <<4>>
===============================================================================
