---------------------------- MODULE AccountLifecycle ----------------------------
(***************************************************************************)
(* The life of one account row: operators' holds and transitions, resets,  *)
(* certification, refunds, inactivity and completion                       *)
(* (apps/server/src/platform), against the engine's passes over the same   *)
(* row (persistRuleState).                                                 *)
(*                                                                         *)
(* What runs in a transaction under the account lock is one action.  What  *)
(* is done in several statements is a task of several steps, and any step  *)
(* of anybody else may come in between; a task that is never taken further *)
(* is one whose process stopped.  Only the engine's pass over the rules    *)
(* holds the lock over several statements: it is two actions, and whoever  *)
(* takes the lock waits for the second.                                    *)
(***************************************************************************)
EXTENDS Integers

CONSTANTS
  Tasks,            \* operators' calls that may be under way at a time
  MaxLives,         \* bound: how often an account is reset, and one
  FlattenOnBreach,  \* does a breach liquidate (the programme's term)
  None

ASSUME LivesAssumption == MaxLives \in Nat \ {0} /\ FlattenOnBreach \in BOOLEAN

RuleStatus == {"ACTIVE", "GOAL_REACHED", "PASSED", "LOCKED", "FAILED"}
AccountStatus ==
  RuleStatus \cup {"PENDING", "DISABLED", "ARCHIVED", "INACTIVE", "COMPLETED"}
AdminHold == {"PENDING", "LOCKED", "DISABLED", "ARCHIVED", "QUALIFIED", "INACTIVE"}
Hold == AdminHold \cup {None}
EndReason == {"RESET", "PASSED", "ARCHIVED", "INACTIVITY"}
Tradeable == {"ACTIVE", "GOAL_REACHED"}
Lives == 1..MaxLives

ASSUME NoneAssumption == None \notin AdminHold \cup EndReason

VARIABLES
  kind,       \* accountType
  row,        \* the accounts row: status, ruleStatus, hold (adminHold), life
  ends,       \* account_lifecycles: why each life ended, None while it has not
  qualified,  \* account_qualifications: the lives certified
  met,        \* do the row's figures meet every requirement of the evaluation
  position,   \* is a position open
  working,    \* is an order working
  pass,       \* the hold that rulesLocked loaded with the row it is judging
  tasks

vars == <<kind, row, ends, qualified, met, position, working, pass, tasks>>
trading == <<met, position, working>>
record == <<ends, qualified>>

Row == [status : AccountStatus, ruleStatus : RuleStatus, hold : Hold, life : Lives]
Op == {"lock", "disable", "archive", "reset", "certify"}
Step == {"cancel", "load", "close", "flatten", "check", "commit"}
NoTask == [op |-> None, at |-> None, life |-> 1]
NoPass == [hold |-> None, on |-> FALSE]

TypeOK ==
  /\ kind \in {"EVALUATION", "FUNDED_SIM"}
  /\ row \in Row
  /\ ends \in [Lives -> EndReason \cup {None}]
  /\ qualified \subseteq Lives
  /\ met \in BOOLEAN /\ position \in BOOLEAN /\ working \in BOOLEAN
  /\ pass \in [hold : Hold, on : BOOLEAN]
  /\ tasks \in [Tasks -> [op : Op \cup {None}, at : Step \cup {None}, life : Lives]]

(* Provisioning: waiting for its activation, or active at once.            *)
Init ==
  /\ kind \in {"EVALUATION", "FUNDED_SIM"}
  /\ row \in {[status |-> s, ruleStatus |-> "ACTIVE", life |-> 1,
               hold |-> IF s = "PENDING" THEN "PENDING" ELSE None] : s \in {"ACTIVE", "PENDING"}}
  /\ ends = [l \in Lives |-> None]
  /\ qualified = {}
  /\ met = FALSE /\ position = FALSE /\ working = FALSE
  /\ pass = NoPass
  /\ tasks = [t \in Tasks |-> NoTask]

LockFree == ~pass.on
Judging == [hold |-> row.hold, on |-> TRUE]

-------------------------------------------------------------------------------
(* The engine *)

(* An order is accepted: it fills, or part of it, or it rests; and then    *)
(* the pass it ran in goes on to the rules.                                *)
Submit ==
  /\ LockFree /\ row.status \in Tradeable
  /\ position' \in BOOLEAN /\ working' \in BOOLEAN
  /\ met' \in IF kind = "EVALUATION" THEN BOOLEAN ELSE {FALSE}
  /\ pass' = Judging
  /\ UNCHANGED <<kind, row, record, tasks>>

(* matchLocked: what works fills whatever the account's status is, and the *)
(* balance moves when something is closed.                                 *)
Match ==
  /\ LockFree /\ working
  /\ position' \in BOOLEAN /\ working' \in BOOLEAN
  /\ met' \in IF kind = "EVALUATION" THEN BOOLEAN ELSE {FALSE}
  /\ pass' = Judging
  /\ UNCHANGED <<kind, row, record, tasks>>

(* publishValuations: the rules alone.                                     *)
Revalue ==
  /\ LockFree
  /\ pass' = Judging
  /\ UNCHANGED <<kind, row, record, trading, tasks>>

(* What evaluateRules can make of a status: a breach, a failure that       *)
(* stands, a pass, a target without the rest, or back to work.             *)
Verdicts(status) ==
  IF status = "FAILED" THEN {"FAILED"}
  ELSE {"FAILED", "LOCKED"} \cup
       IF met THEN {"PASSED"}
       ELSE IF kind = "EVALUATION" THEN {"ACTIVE", "GOAL_REACHED"} ELSE {"ACTIVE"}

(* liquidateLocked, on an account with exposure.                           *)
Liquidate(verdict) ==
  IF FlattenOnBreach /\ verdict \in {"FAILED", "LOCKED"} /\ (position \/ working)
  THEN \/ position' = FALSE /\ working' = FALSE
       \/ position /\ position' = TRUE /\ working' \in BOOLEAN  \* refused, or in flight
  ELSE UNCHANGED <<position, working>>

PersistOverHold(verdict) == \* mutant: the hold that was loaded decides
  row' = [row EXCEPT !.ruleStatus = verdict,
                     !.status = IF pass.hold = None THEN verdict ELSE @]

(* persistRuleState: the status column follows the rules unless the row    *)
(* carries a hold when it is written.                                      *)
PersistRuleState(verdict) ==
  row' = [row EXCEPT !.ruleStatus = verdict,
                     !.status = IF row.hold = None THEN verdict ELSE @]

(* The second half of a pass; it writes nothing when nothing has changed.  *)
Judge ==
  /\ pass.on
  /\ \E verdict \in Verdicts(row.ruleStatus) :
       /\ \/ PersistRuleState(verdict)
          \/ verdict = row.ruleStatus /\ UNCHANGED row
       /\ Liquidate(verdict)
  /\ pass' = NoPass
  /\ UNCHANGED <<kind, record, met, tasks>>

-------------------------------------------------------------------------------
(* Transitions *)

AllowedFrom ==
  [activate |-> {"PENDING", "DISABLED"},
   lock     |-> {"ACTIVE", "GOAL_REACHED", "PENDING"},
   unlock   |-> {"LOCKED"},
   disable  |-> {"PENDING", "ACTIVE", "GOAL_REACHED", "LOCKED", "PASSED", "FAILED"},
   enable   |-> {"DISABLED"},
   archive  |-> AccountStatus]

Patched(op) ==
  CASE op = "activate" -> [row EXCEPT !.status = "ACTIVE", !.hold = None]
    [] op = "lock"     -> [row EXCEPT !.status = "LOCKED", !.hold = "LOCKED"]
    [] op = "disable"  -> [row EXCEPT !.status = "DISABLED", !.hold = "DISABLED"]
    [] op = "archive"  -> [row EXCEPT !.status = "ARCHIVED", !.hold = "ARCHIVED"]
    [] op \in {"unlock", "enable"} -> [row EXCEPT !.status = row.ruleStatus, !.hold = None]

TransitionUnguarded(op) == \* mutant: the status is not looked at again under the lock
  row' = Patched(op)

TransitionOfBothStatuses(op) == \* mutant: a hold is written over the rules' status too
  IF row.status \in AllowedFrom[op]
  THEN row' = [Patched(op) EXCEPT !.ruleStatus = Patched(op).status]
  ELSE UNCHANGED row

(* transition: refused unless the row, read again under the lock, allows   *)
(* it.                                                                     *)
transition(op) ==
  IF row.status \in AllowedFrom[op] THEN row' = Patched(op) ELSE UNCHANGED row

Simple(op) ==
  /\ LockFree
  /\ transition(op)
  /\ UNCHANGED <<kind, record, trading, pass, tasks>>

Activate == Simple("activate")
Unlock == Simple("unlock")
Enable == Simple("enable")

-------------------------------------------------------------------------------
(* Tasks of several steps *)

Goes(t, at) == tasks' = [tasks EXCEPT ![t].at = at]
Ends(t) == tasks' = [tasks EXCEPT ![t] = NoTask]
At(t, ops, at) == tasks[t].op \in ops /\ tasks[t].at = at

(* A reset loads the row first; the others have no use for it yet.         *)
Begin(t, op, at) ==
  /\ tasks[t] = NoTask
  /\ tasks' = [tasks EXCEPT ![t] = [op |-> op, at |-> at,
                                    life |-> IF op = "reset" THEN row.life ELSE 1]]
  /\ UNCHANGED <<kind, row, record, trading, pass>>

(* account-ops.ts locks and disables without the engine at hand.           *)
LockAccount(t) == \E at \in {"cancel", "commit"} : Begin(t, "lock", at)
DisableAccount(t) == \E at \in {"cancel", "commit"} : Begin(t, "disable", at)
ArchiveAccount(t) == Begin(t, "archive", "cancel")
ResetAccount(t) == Begin(t, "reset", "cancel")

CertifiableFrom == {"ACTIVE", "GOAL_REACHED", "PASSED"}

(* certifyEvaluation first reads, without the lock.                        *)
CertifyEvaluation(t) ==
  /\ kind = "EVALUATION" /\ row.life \notin qualified
  /\ row.status \in CertifiableFrom /\ met
  /\ Begin(t, "certify", "commit")

(* cancelAll.  A lock or an archive goes on when it fails, a reset does    *)
(* not.                                                                    *)
CancelAll(t) ==
  /\ At(t, {"lock", "disable", "archive", "reset"}, "cancel")
  /\ \/ /\ LockFree
        /\ working' = FALSE
        /\ Goes(t, CASE tasks[t].op = "archive" -> "load"
                     [] tasks[t].op = "reset" -> "flatten"
                     [] OTHER -> "commit")
     \/ /\ UNCHANGED working
        /\ IF tasks[t].op = "reset" THEN Ends(t)
           ELSE Goes(t, IF tasks[t].op = "archive" THEN "load" ELSE "commit")
  /\ UNCHANGED <<kind, row, record, met, position, pass>>

(* A reset closes the position with an ordinary order, which is refused on *)
(* an account that may not trade, and may have to wait.                    *)
Flatten(t) ==
  /\ At(t, {"reset"}, "flatten") /\ LockFree
  /\ \/ ~position /\ Goes(t, "check") /\ UNCHANGED <<trading, pass>>
     \/ position /\ row.status \notin Tradeable /\ Ends(t) /\ UNCHANGED <<trading, pass>>
     \/ /\ position /\ row.status \in Tradeable
        /\ \/ position' = FALSE /\ working' = FALSE
           \/ position' = TRUE /\ working' = TRUE
        /\ met' \in IF kind = "EVALUATION" THEN BOOLEAN ELSE {FALSE}
        /\ pass' = Judging
        /\ Goes(t, "check")
  /\ UNCHANGED <<kind, row, record>>

(* openExposure, once the pass that flattened is over.                     *)
OpenExposure(t) ==
  /\ At(t, {"reset"}, "check") /\ LockFree
  /\ IF position \/ working THEN Ends(t) ELSE Goes(t, "commit")
  /\ UNCHANGED <<kind, row, record, trading, pass>>

CloseAnyLifecycle(l, reason) == \* mutant: an ended life is closed again
  ends' = [ends EXCEPT ![l] = reason]

(* closeLifecycle: only a life that has not ended.                         *)
closeLifecycle(l, reason) ==
  ends' = [ends EXCEPT ![l] = IF @ = None THEN reason ELSE @]

(* archiveAccount: the row is loaded, its life is closed, and only then is *)
(* the transition made.                                                    *)
LoadRow(t) ==
  /\ At(t, {"archive"}, "load")
  /\ tasks' = [tasks EXCEPT ![t].at = "close", ![t].life = row.life]
  /\ UNCHANGED <<kind, row, record, trading, pass>>

CloseLife(t) ==
  /\ At(t, {"archive"}, "close")
  /\ closeLifecycle(tasks[t].life, "ARCHIVED")
  /\ Goes(t, "commit")
  /\ UNCHANGED <<kind, row, qualified, trading, pass>>

CommitTransition(t) ==
  /\ At(t, {"lock", "disable", "archive"}, "commit") /\ LockFree
  /\ transition(tasks[t].op)
  /\ Ends(t)
  /\ UNCHANGED <<kind, record, trading, pass>>

CommitResetOfLoaded(t) == \* mutant: closes the life that was loaded before the lock
  /\ At(t, {"reset"}, "commit") /\ LockFree
  /\ row.life < MaxLives
  /\ closeLifecycle(tasks[t].life, "RESET")
  /\ row' = [status |-> "ACTIVE", ruleStatus |-> "ACTIVE", hold |-> None, life |-> row.life + 1]
  /\ met' = FALSE
  /\ Ends(t)
  /\ UNCHANGED <<kind, qualified, position, working, pass>>

(* The reset's transaction: what is current is closed and a new life       *)
(* begins.  Whether the account is still flat is not looked at again.      *)
CommitReset(t) ==
  /\ At(t, {"reset"}, "commit") /\ LockFree
  /\ row.life < MaxLives
  /\ closeLifecycle(row.life, "RESET")
  /\ row' = [status |-> "ACTIVE", ruleStatus |-> "ACTIVE", hold |-> None, life |-> row.life + 1]
  /\ met' = FALSE
  /\ Ends(t)
  /\ UNCHANGED <<kind, qualified, position, working, pass>>

(* The certification's transaction: the status is read again, the figures  *)
(* are not.                                                                *)
CommitCertification(t) ==
  /\ At(t, {"certify"}, "commit") /\ LockFree
  /\ IF row.status \in CertifiableFrom
     THEN /\ row' = [row EXCEPT !.status = "PASSED", !.ruleStatus = "PASSED", !.hold = "QUALIFIED"]
          /\ ends' = [ends EXCEPT ![row.life] = "PASSED"]
          /\ qualified' = qualified \cup {row.life}
     ELSE UNCHANGED <<row, record>>
  /\ Ends(t)
  /\ UNCHANGED <<kind, trading, pass>>

-------------------------------------------------------------------------------
(* Transactions that do not take the account lock *)

(* holdAccount, on a refund or a dispute: the hold without the status.     *)
HoldAccount ==
  /\ row.hold \in {None, "PENDING"}
  /\ row' = [row EXCEPT !.hold = "LOCKED"]
  /\ UNCHANGED <<kind, record, trading, pass, tasks>>

(* closeAccount of the inactivity sweep.                                   *)
CloseInactive ==
  /\ kind = "FUNDED_SIM" /\ row.status = "ACTIVE"
  /\ row' = [row EXCEPT !.status = "INACTIVE", !.hold = "INACTIVE"]
  /\ closeLifecycle(row.life, "INACTIVITY")
  /\ UNCHANGED <<kind, qualified, trading, pass, tasks>>

(* markPaid, with the last payout of the account.                          *)
Complete ==
  /\ kind = "FUNDED_SIM" /\ row.status # "COMPLETED"
  /\ row' = [row EXCEPT !.status = "COMPLETED"]
  /\ UNCHANGED <<kind, record, trading, pass, tasks>>

Next ==
  \/ Submit \/ Match \/ Revalue \/ Judge
  \/ Activate \/ Unlock \/ Enable
  \/ HoldAccount \/ CloseInactive \/ Complete
  \/ \E t \in Tasks :
       \/ LockAccount(t) \/ DisableAccount(t) \/ ArchiveAccount(t)
       \/ ResetAccount(t) \/ CertifyEvaluation(t)
       \/ CancelAll(t) \/ Flatten(t) \/ OpenExposure(t)
       \/ LoadRow(t) \/ CloseLife(t)
       \/ CommitTransition(t) \/ CommitReset(t) \/ CommitCertification(t)

Spec == Init /\ [][Next]_vars

-------------------------------------------------------------------------------
(* Properties *)

(* An account has one life at a time: whatever resets, archives and        *)
(* certifications overlap, every life before the current one has ended.    *)
PastLivesEnded == \A l \in Lives : l < row.life => ends[l] # None

(* A certified life goes down as passed: an archive, a reset or an         *)
(* inactivity sweep that comes late does not rewrite how it ended.         *)
QualifiedLivesPassed == \A l \in qualified : ends[l] = "PASSED"

(* "An operator hold makes this stick": an account that may not trade is   *)
(* put back to trading only by lifting its hold, never by the engine that  *)
(* was judging it when the hold was placed.                                *)
HeldStaysShut ==
  [][row.status \notin Tradeable /\ row'.status \in Tradeable => row'.hold = None]_vars

(* Archived is the end of a life: only a reset, which starts another,      *)
(* takes the hold away.                                                    *)
ArchivedIsOver ==
  [][row.hold = "ARCHIVED" /\ row'.hold # "ARCHIVED" => row'.life # row.life]_vars

(* "if and only if the authoritative rule state says every requirement is  *)
(* met": an evaluation is certified on figures that stand.                 *)
CertifiedOnItsMerits == [][qualified' # qualified => met]_vars

(* Further statements of the code's comments that it does not keep; see    *)
(* the README.                                                             *)
FailedMayNotTrade == row.ruleStatus = "FAILED" /\ ~pass.on => row.status \notin Tradeable
ResetStartsFlat == [][row'.life # row.life => ~position /\ ~working]_vars
ArchivedLifeEnded == row.status = "ARCHIVED" => ends[row.life] # None
CertifiedIsOneWay == row.life \in qualified => row.status \notin Tradeable
CompletedIsOver == [][row.status = "COMPLETED" /\ row'.status # "COMPLETED" => row'.life # row.life]_vars
HeldHasNoOrders == row.status \in {"DISABLED", "ARCHIVED"} => ~working
===============================================================================
