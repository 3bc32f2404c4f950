------------------------------ MODULE AccountMutex ------------------------------
(***************************************************************************)
(* What the account lock promises (the header of                           *)
(* apps/server/src/trading/account-lock.ts): the same account, serialized  *)
(* across processes.  Whoever is inside an account's critical section is   *)
(* there alone, and gets there only when nobody is.                        *)
(***************************************************************************)
CONSTANTS
  Accounts,
  Clients,   \* everybody who may want an account: sections and transactions
  Nobody     \* the owner of a free account

VARIABLE owner

Init == owner = [a \in Accounts |-> Nobody]

Enter(a, c) == owner[a] = Nobody /\ owner' = [owner EXCEPT ![a] = c]

(* Several accounts are left at once when the process that held them dies. *)
Leave(as) == owner' = [a \in Accounts |-> IF a \in as THEN Nobody ELSE owner[a]]

Next == \/ \E a \in Accounts, c \in Clients : Enter(a, c)
        \/ \E as \in SUBSET Accounts : Leave(as)

Spec == Init /\ [][Next]_owner
===============================================================================
