------------------------- MODULE AccountLifecycleProofs -------------------------
(* What is proved of AccountLifecycle, for any number of calls under way   *)
(* and any number of resets.                                               *)
EXTENDS AccountLifecycle, TLAPS

USE LivesAssumption, NoneAssumption DEF LivesAssumption, NoneAssumption, AdminHold, EndReason

(* A row that carries the archive's hold shows it, or completion: no       *)
(* transition but another archive starts from either.                      *)
ArchiveShows == row.hold = "ARCHIVED" => row.status \in {"ARCHIVED", "COMPLETED"}

(* The account and its lives, which the properties are about ...           *)
AccountInv ==
  /\ row \in Row
  /\ ends \in [Lives -> EndReason \cup {None}]
  /\ qualified \subseteq Lives
  /\ PastLivesEnded /\ QualifiedLivesPassed /\ ArchiveShows

(* ... and what goes on around it.                                         *)
TradingType ==
  /\ kind \in {"EVALUATION", "FUNDED_SIM"}
  /\ met \in BOOLEAN /\ position \in BOOLEAN /\ working \in BOOLEAN
  /\ pass \in [hold : Hold, on : BOOLEAN]

TasksType == tasks \in [Tasks -> [op : Op \cup {None}, at : Step \cup {None}, life : Lives]]

Transitions == {"activate", "lock", "unlock", "disable", "enable", "archive"}

-------------------------------------------------------------------------------
(* What the writers of the row do to it *)

LEMMA PatchedType ==
  ASSUME row \in Row, NEW op \in Transitions
  PROVE  /\ Patched(op) \in Row
         /\ Patched(op).life = row.life
         /\ Patched(op).hold = "ARCHIVED" => Patched(op).status = "ARCHIVED"
         /\ Patched(op).status \in Tradeable => Patched(op).hold = None
         /\ op # "archive" => AllowedFrom[op] \cap {"ARCHIVED", "COMPLETED"} = {}
         /\ op = "archive" => Patched(op).hold = "ARCHIVED"
<1> USE DEF Transitions, Row, RuleStatus, AccountStatus, Hold, Patched, AllowedFrom, Tradeable
<1>1. CASE op = "activate"
  BY <1>1
<1>2. CASE op = "lock"
  BY <1>2
<1>3. CASE op = "disable"
  BY <1>3
<1>4. CASE op = "archive"
  BY <1>4
<1>5. CASE op = "unlock"
  BY <1>5
<1>6. CASE op = "enable"
  BY <1>6
<1>7. QED
  BY <1>1, <1>2, <1>3, <1>4, <1>5, <1>6 DEF Transitions

(* The three facts about a step of the row that the theorems rest on.      *)
RowStep ==
  /\ row' \in Row
  /\ row'.status \in Tradeable /\ row.status \notin Tradeable => row'.hold = None
  /\ ArchiveShows'

SameLife == RowStep /\ row'.life = row.life
            /\ (row.hold = "ARCHIVED" => row'.hold = "ARCHIVED")

LEMMA TransitionStep ==
  ASSUME AccountInv, NEW op \in Transitions, transition(op)
  PROVE  SameLife
<1> USE DEF SameLife, RowStep, AccountInv, ArchiveShows
<1>1. CASE row' = row
  BY <1>1
<1>2. CASE row.status \in AllowedFrom[op] /\ row' = Patched(op)
  BY <1>2, PatchedType
<1>3. QED
  BY <1>1, <1>2 DEF transition

LEMMA JudgeStep ==
  ASSUME AccountInv, Judge
  PROVE  SameLife
<1> USE DEF SameLife, RowStep, AccountInv, ArchiveShows
<1>1. CASE row' = row
  BY <1>1
<1>2. ASSUME NEW verdict \in RuleStatus, PersistRuleState(verdict)
      PROVE  SameLife
  BY <1>2 DEF PersistRuleState, Row, RuleStatus, AccountStatus, Hold, Tradeable
<1>3. \A verdict \in Verdicts(row.ruleStatus) : verdict \in RuleStatus
  BY DEF Verdicts, RuleStatus
<1>4. QED
  BY <1>1, <1>2, <1>3 DEF Judge

-------------------------------------------------------------------------------
(* What a step may do to the lives *)

(* A life is closed, if at all, only when it has not ended.                *)
LEMMA CloseKeeps ==
  ASSUME AccountInv, SameLife, NEW l, NEW reason \in EndReason,
         closeLifecycle(l, reason), qualified' = qualified
  PROVE  AccountInv'
BY DEF AccountInv, SameLife, RowStep, closeLifecycle, PastLivesEnded, QualifiedLivesPassed, Lives, Row

LEMMA SameLivesKeeps ==
  ASSUME AccountInv, SameLife, UNCHANGED record
  PROVE  AccountInv'
BY DEF AccountInv, SameLife, RowStep, record, PastLivesEnded, QualifiedLivesPassed

LEMMA ResetKeeps ==
  ASSUME AccountInv, NEW t \in Tasks, CommitReset(t)
  PROVE  AccountInv' /\ RowStep /\ row'.life # row.life
<1>1. /\ row.life \in Nat /\ row.life >= 1 /\ row.life < MaxLives
      /\ row' = [status |-> "ACTIVE", ruleStatus |-> "ACTIVE", hold |-> None, life |-> row.life + 1]
      /\ ends' = [ends EXCEPT ![row.life] = IF @ = None THEN "RESET" ELSE @]
      /\ qualified' = qualified
  BY DEF AccountInv, Row, Lives, CommitReset, closeLifecycle
<1>2. RowStep /\ row'.life # row.life
  BY <1>1 DEF RowStep, ArchiveShows, Row, Lives, RuleStatus, AccountStatus, Hold
<1>3. ends' \in [Lives -> EndReason \cup {None}] /\ qualified' \subseteq Lives
  BY <1>1 DEF AccountInv
<1>4. PastLivesEnded'
  BY <1>1 DEF AccountInv, PastLivesEnded, Lives
<1>5. QualifiedLivesPassed'
  BY <1>1 DEF AccountInv, QualifiedLivesPassed, Lives
<1>6. QED
  BY <1>2, <1>3, <1>4, <1>5 DEF RowStep, AccountInv

LEMMA CertificationKeeps ==
  ASSUME AccountInv, NEW t \in Tasks, CommitCertification(t)
  PROVE  AccountInv' /\ SameLife
<1>1. CASE row.status \in CertifiableFrom
  <2>1. /\ row' = [row EXCEPT !.status = "PASSED", !.ruleStatus = "PASSED", !.hold = "QUALIFIED"]
        /\ ends' = [ends EXCEPT ![row.life] = "PASSED"]
        /\ qualified' = qualified \cup {row.life}
    BY <1>1 DEF CommitCertification
  <2>2. row.hold # "ARCHIVED" /\ row \in Row
    BY <1>1 DEF AccountInv, ArchiveShows, CertifiableFrom
  <2>3. SameLife
    BY <2>1, <2>2 DEF SameLife, RowStep, ArchiveShows, Row, RuleStatus, AccountStatus, Hold, Tradeable
  <2>4. row'.life = row.life /\ row.life \in Lives
    BY <2>3, <2>2 DEF SameLife, Row
  <2>5. PastLivesEnded' /\ QualifiedLivesPassed'
    BY <2>1, <2>4 DEF AccountInv, PastLivesEnded, QualifiedLivesPassed
  <2>6. QED
    BY <2>1, <2>3, <2>4, <2>5 DEF AccountInv, SameLife, RowStep
<1>2. CASE UNCHANGED <<row, record>>
  BY <1>2, SameLivesKeeps DEF AccountInv, SameLife, RowStep, ArchiveShows
<1>3. QED
  BY <1>1, <1>2 DEF CommitCertification

-------------------------------------------------------------------------------
(* Every step *)

LEMMA NextKeepsAccount ==
  ASSUME AccountInv, [Next]_vars
  PROVE  AccountInv' /\ RowStep /\ (row'.life = row.life => SameLife)
<1> USE DEF SameLife, RowStep
<1>1. CASE UNCHANGED <<row, record>>
  BY <1>1, SameLivesKeeps DEF AccountInv, ArchiveShows
<1>2. CASE Judge
  BY <1>2, JudgeStep, SameLivesKeeps DEF Judge
<1>3. CASE Activate \/ Unlock \/ Enable
  BY <1>3, TransitionStep, SameLivesKeeps DEF Activate, Unlock, Enable, Simple, Transitions
<1>4. ASSUME NEW t \in Tasks, CommitTransition(t) PROVE SameLife /\ UNCHANGED record
  <2>1. tasks[t].op \in Transitions /\ transition(tasks[t].op) /\ UNCHANGED record
    BY <1>4 DEF CommitTransition, At, Transitions
  <2>2. QED
    BY <2>1, TransitionStep
<1>5. CASE HoldAccount
  BY <1>5, SameLivesKeeps
  DEF HoldAccount, AccountInv, ArchiveShows, Row, Hold
<1>6. CASE CloseInactive
  <2>1. SameLife /\ closeLifecycle(row.life, "INACTIVITY") /\ qualified' = qualified
    BY <1>6 DEF CloseInactive, AccountInv, ArchiveShows, Row, RuleStatus, AccountStatus, Hold, Tradeable
  <2>2. QED
    BY <2>1, CloseKeeps
<1>7. CASE Complete
  <2>1. SameLife /\ UNCHANGED record
    BY <1>7 DEF Complete, AccountInv, ArchiveShows, Row, RuleStatus, AccountStatus, Hold, Tradeable
  <2>2. QED
    BY <2>1, SameLivesKeeps
<1>8. ASSUME NEW t \in Tasks, CloseLife(t) PROVE AccountInv' /\ SameLife
  <2>1. SameLife /\ closeLifecycle(tasks[t].life, "ARCHIVED") /\ qualified' = qualified
    BY <1>8 DEF CloseLife, AccountInv, ArchiveShows
  <2>2. QED
    BY <2>1, CloseKeeps
<1>9. ASSUME NEW t \in Tasks,
             \/ LockAccount(t) \/ DisableAccount(t) \/ ArchiveAccount(t)
             \/ ResetAccount(t) \/ CertifyEvaluation(t)
             \/ CancelAll(t) \/ Flatten(t) \/ OpenExposure(t) \/ LoadRow(t)
      PROVE  UNCHANGED <<row, record>>
  BY <1>9 DEF LockAccount, DisableAccount, ArchiveAccount, ResetAccount, CertifyEvaluation,
              Begin, CancelAll, Flatten, OpenExposure, LoadRow
<1>10. Submit \/ Match \/ Revalue \/ UNCHANGED vars => UNCHANGED <<row, record>>
  BY DEF Submit, Match, Revalue, vars, record
<1>11. QED
  BY <1>1, <1>2, <1>3, <1>4, <1>5, <1>6, <1>7, <1>8, <1>9, <1>10,
     SameLivesKeeps, ResetKeeps, CertificationKeeps DEF Next

-------------------------------------------------------------------------------
(* Types of the rest *)

LEMMA NextKeepsTrading ==
  ASSUME TradingType, AccountInv, [Next]_vars
  PROVE  TradingType'
<1>1. Judging \in [hold : Hold, on : BOOLEAN]
  BY DEF AccountInv, Row, Judging
<1>2. CASE Submit \/ Match \/ Revalue
  <2>1. pass' \in [hold : Hold, on : BOOLEAN]
    BY <1>1, <1>2, Zenon DEF Submit, Match, Revalue
  <2>2. kind' = kind /\ met' \in BOOLEAN /\ position' \in BOOLEAN /\ working' \in BOOLEAN
    BY <1>2, Zenon DEF Submit, Match, Revalue, TradingType, trading
  <2>3. QED
    BY <2>1, <2>2 DEF TradingType
<1>3. CASE Judge
  <2>1. pass' \in [hold : Hold, on : BOOLEAN]
    BY <1>3 DEF Judge, NoPass, Hold
  <2>2. kind' = kind /\ met' \in BOOLEAN /\ position' \in BOOLEAN /\ working' \in BOOLEAN
    BY <1>3, Zenon DEF Judge, Liquidate, TradingType
  <2>3. QED
    BY <2>1, <2>2 DEF TradingType
<1>4. ASSUME NEW t \in Tasks, CancelAll(t) PROVE TradingType'
  BY <1>4 DEF CancelAll, TradingType
<1>5. ASSUME NEW t \in Tasks, Flatten(t) PROVE TradingType'
  <2>1. pass' \in [hold : Hold, on : BOOLEAN]
    BY <1>1, <1>5, Zenon DEF Flatten, TradingType
  <2>2. kind' = kind /\ met' \in BOOLEAN /\ position' \in BOOLEAN /\ working' \in BOOLEAN
    BY <1>5, Zenon DEF Flatten, TradingType, trading
  <2>3. QED
    BY <2>1, <2>2 DEF TradingType
<1>6. ASSUME NEW t \in Tasks, CommitReset(t) PROVE TradingType'
  BY <1>6 DEF CommitReset, TradingType
<1>7. ASSUME NEW t \in Tasks,
             \/ LockAccount(t) \/ DisableAccount(t) \/ ArchiveAccount(t)
             \/ ResetAccount(t) \/ CertifyEvaluation(t) \/ OpenExposure(t)
             \/ LoadRow(t) \/ CloseLife(t) \/ CommitTransition(t) \/ CommitCertification(t)
      PROVE  UNCHANGED <<kind, trading, pass>>
  BY <1>7 DEF LockAccount, DisableAccount, ArchiveAccount, ResetAccount, CertifyEvaluation,
              Begin, OpenExposure, LoadRow, CloseLife, CommitTransition, CommitCertification
<1>8. CASE Activate \/ Unlock \/ Enable \/ HoldAccount \/ CloseInactive \/ Complete
  BY <1>8 DEF Activate, Unlock, Enable, Simple, HoldAccount, CloseInactive, Complete,
              TradingType, trading
<1>9. UNCHANGED <<kind, trading, pass>> => TradingType'
  BY DEF TradingType, trading
<1>10. UNCHANGED vars => TradingType'
  BY DEF vars, TradingType
<1>11. QED
  BY <1>2, <1>3, <1>4, <1>5, <1>6, <1>7, <1>8, <1>9, <1>10 DEF Next

LEMMA TaskGoes ==
  ASSUME TasksType, NEW t \in Tasks, NEW at \in Step, Goes(t, at)
  PROVE  TasksType'
BY DEF TasksType, Goes

LEMMA TaskEnds ==
  ASSUME TasksType, NEW t \in Tasks, Ends(t)
  PROVE  TasksType'
<1>1. NoTask \in [op : Op \cup {None}, at : Step \cup {None}, life : Lives]
  BY DEF NoTask, Lives
<1>2. QED
  BY <1>1 DEF TasksType, Ends

LEMMA NextKeepsTasks ==
  ASSUME TasksType, AccountInv, [Next]_vars
  PROVE  TasksType'
<1>1. row.life \in Lives /\ 1 \in Lives
  BY DEF AccountInv, Row, Lives
<1>2. ASSUME NEW t \in Tasks, NEW op \in Op, NEW at \in Step, Begin(t, op, at) PROVE TasksType'
  BY <1>1, <1>2 DEF Begin, TasksType
<1>3. ASSUME NEW t \in Tasks,
             \/ LockAccount(t) \/ DisableAccount(t) \/ ArchiveAccount(t)
             \/ ResetAccount(t) \/ CertifyEvaluation(t)
      PROVE  TasksType'
  BY <1>2, <1>3 DEF LockAccount, DisableAccount, ArchiveAccount, ResetAccount,
                    CertifyEvaluation, Op, Step
<1>4. ASSUME NEW t \in Tasks, CancelAll(t) PROVE TasksType'
  <2>1. \/ Ends(t) \/ Goes(t, "load") \/ Goes(t, "flatten") \/ Goes(t, "commit")
    BY <1>4 DEF CancelAll, At
  <2>2. QED
    BY <2>1, TaskGoes, TaskEnds DEF Step
<1>5. ASSUME NEW t \in Tasks, Flatten(t) \/ OpenExposure(t) \/ CloseLife(t) PROVE TasksType'
  BY <1>5, TaskGoes, TaskEnds DEF Flatten, OpenExposure, CloseLife, Step
<1>6. ASSUME NEW t \in Tasks, LoadRow(t) PROVE TasksType'
  BY <1>1, <1>6 DEF LoadRow, TasksType, Step
<1>7. ASSUME NEW t \in Tasks, CommitTransition(t) \/ CommitReset(t) \/ CommitCertification(t)
      PROVE  TasksType'
  BY <1>7, TaskEnds DEF CommitTransition, CommitReset, CommitCertification
<1>8. \/ Submit \/ Match \/ Revalue \/ Judge \/ Activate \/ Unlock \/ Enable
      \/ HoldAccount \/ CloseInactive \/ Complete \/ UNCHANGED vars
      => UNCHANGED tasks
  BY DEF Submit, Match, Revalue, Judge, Activate, Unlock, Enable, Simple,
         HoldAccount, CloseInactive, Complete, vars
<1>9. UNCHANGED tasks => TasksType'
  BY DEF TasksType
<1>10. QED
  BY <1>3, <1>4, <1>5, <1>6, <1>7, <1>8, <1>9 DEF Next

-------------------------------------------------------------------------------
(* Theorems *)

LifecycleInv == AccountInv /\ TradingType /\ TasksType

LEMMA InitHolds == Init => LifecycleInv
<1> SUFFICES ASSUME Init PROVE LifecycleInv
  OBVIOUS
<1>1. AccountInv
  BY DEF Init, AccountInv, Row, Lives, RuleStatus, AccountStatus, Hold, ArchiveShows,
         PastLivesEnded, QualifiedLivesPassed
<1>2. TradingType
  BY DEF Init, TradingType, NoPass, Hold
<1>3. TasksType
  BY DEF Init, TasksType, NoTask, Lives
<1>4. QED
  BY <1>1, <1>2, <1>3 DEF LifecycleInv

LEMMA NextKeeps == LifecycleInv /\ [Next]_vars => LifecycleInv'
BY NextKeepsAccount, NextKeepsTrading, NextKeepsTasks DEF LifecycleInv

(* The inductive invariant: types, lives that end once and in order, and   *)
(* an archive's hold that shows in the status.                             *)
THEOREM LifecycleInvariant == Spec => []LifecycleInv
BY InitHolds, NextKeeps, PTL DEF Spec

(* The account row, its lives and the calls under way keep their types.    *)
THEOREM TypeCorrect == Spec => []TypeOK
<1>1. LifecycleInv => TypeOK
  BY DEF LifecycleInv, AccountInv, TradingType, TasksType, TypeOK
<1>2. QED
  BY <1>1, LifecycleInvariant, PTL

(* An account has one life at a time: every earlier one has ended.         *)
THEOREM OneLifeAtATime == Spec => []PastLivesEnded
<1>1. LifecycleInv => PastLivesEnded
  BY DEF LifecycleInv, AccountInv
<1>2. QED
  BY <1>1, LifecycleInvariant, PTL

(* Nothing that comes late rewrites the end of a certified life.           *)
THEOREM CertifiedLivesStand == Spec => []QualifiedLivesPassed
<1>1. LifecycleInv => QualifiedLivesPassed
  BY DEF LifecycleInv, AccountInv
<1>2. QED
  BY <1>1, LifecycleInvariant, PTL

(* An account comes back to trading only without a hold.                   *)
THEOREM HoldsAreKept == Spec => HeldStaysShut
<1>1. LifecycleInv /\ [Next]_vars
      => [row.status \notin Tradeable /\ row'.status \in Tradeable => row'.hold = None]_vars
  BY NextKeepsAccount DEF LifecycleInv, RowStep
<1>2. QED
  BY <1>1, LifecycleInvariant, PTL DEF Spec, HeldStaysShut

(* Only a reset takes an archived account out of the archive.              *)
THEOREM ArchiveIsFinal == Spec => ArchivedIsOver
<1>1. LifecycleInv /\ [Next]_vars
      => [row.hold = "ARCHIVED" /\ row'.hold # "ARCHIVED" => row'.life # row.life]_vars
  BY NextKeepsAccount DEF LifecycleInv, SameLife
<1>2. QED
  BY <1>1, LifecycleInvariant, PTL DEF Spec, ArchivedIsOver
===============================================================================
