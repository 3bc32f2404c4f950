----------------------------- MODULE MCAccountLock -----------------------------
(* Two processes and two accounts: engine sections of one process and      *)
(* operators' transactions, of the other process or of the same.           *)
EXTENDS AccountLock

CONSTANTS p1, p2, a1, a2, s1, s2, s3, x1, x2

TwoProcesses == {p1, p2}
TwoAccounts == {a1, a2}
OneHome == [c \in Clients |-> p1]
TwoHomes == [c \in Clients |-> IF c \in Sections THEN p1 ELSE p2]
AccountOf == [c \in Clients |-> IF c = s3 THEN a2 ELSE a1]
===============================================================================
