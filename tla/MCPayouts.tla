------------------------------ MODULE MCPayouts ------------------------------
(* A CORE and a DAILY policy: one winning day qualifies, and the cap grows *)
(* with the second payout.                                                 *)
EXTENDS Payouts, TLC

CONSTANTS r1, r2, r3

ThreeRequests == {r1, r2, r3}
Interchangeable == Permutations(ThreeRequests)

Core == [model |-> "CORE", days |-> 1, threshold |-> 2, consistency |-> 0,
         buffer |-> 0, min |-> 1, caps |-> <<1, 2>>]
Select == [Core EXCEPT !.model = "SELECT", !.consistency = 50]
Daily == [Core EXCEPT !.model = "DAILY", !.buffer = 1]
AllPolicies == {Select, Daily}
SmallProfits == 0..5
OneOrTwo == {1, 2}
WinOrLose == {2, -2}
OneGoodDay == <<2>>
NoRecord == <<>>
=============================================================================
