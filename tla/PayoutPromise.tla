----------------------------- MODULE PayoutPromise -----------------------------
(* What the payout desk promises of each request's money: it is taken from *)
(* the account for one request at a time, and what was taken is either     *)
(* sent to the trader, once, and then booked as settled, or put back       *)
(* without ever having been sent.                                          *)
CONSTANT Requests
VARIABLE money

Promises == {"kept", "owed", "sent", "settled", "restored"}

Init == money = [r \in Requests |-> "kept"]

Take(r) ==
  /\ money[r] = "kept" /\ \A other \in Requests : money[other] \notin {"owed", "sent"}
  /\ money' = [money EXCEPT ![r] = "owed"]
Send(r) == money[r] = "owed" /\ money' = [money EXCEPT ![r] = "sent"]
Settle(r) == money[r] = "sent" /\ money' = [money EXCEPT ![r] = "settled"]
Restore(r) == money[r] = "owed" /\ money' = [money EXCEPT ![r] = "restored"]

Next == \E r \in Requests : Take(r) \/ Send(r) \/ Settle(r) \/ Restore(r)
Spec == Init /\ [][Next]_money
===============================================================================
