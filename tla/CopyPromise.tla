----------------------------- MODULE CopyPromise -----------------------------
(***************************************************************************)
(* What copying promises for one account of one intent, whatever is lost,  *)
(* repeated or interrupted: at most one order, and at most one answer.     *)
(***************************************************************************)
CONSTANTS Keys, Accounts, Places(_)  \* does an intent place orders?

VARIABLES placed, told

Promised == placed = [k \in Keys |-> {}] /\ told = [k \in Keys |-> [a \in Accounts |-> "open"]]

Place(k, a) ==
  /\ Places(k) /\ a \notin placed[k] /\ told[k][a] = "open"
  /\ placed' = [placed EXCEPT ![k] = @ \cup {a}]
  /\ UNCHANGED told

\* Accepted means placed; a skipped account is never traded.
Tell(k, a, answer) ==
  /\ told[k][a] = "open"
  /\ answer = "ACCEPTED" /\ Places(k) => a \in placed[k]
  /\ answer = "SKIPPED" => a \notin placed[k]
  /\ told' = [told EXCEPT ![k][a] = answer]
  /\ UNCHANGED placed

Act == \E k \in Keys, a \in Accounts :
         Place(k, a) \/ \E answer \in {"ACCEPTED", "REJECTED", "SKIPPED"} : Tell(k, a, answer)

Promise == Promised /\ [][Act]_<<placed, told>>
=============================================================================
