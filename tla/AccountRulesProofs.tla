-------------------------- MODULE AccountRulesProofs --------------------------
(***************************************************************************)
(* Theorems about the account rule machine, for every programme, fee,      *)
(* bound and market.                                                       *)
(***************************************************************************)
EXTENDS AccountRules, FiniteSetTheorems, TLAPS

(* Rolling the day keeps the rule state well typed. *)
LEMMA RollTyped ==
  ASSUME NEW c \in RuleConfig, NEW s \in RuleState, NEW m \in RuleMark
  PROVE  RollTradingDay(c, s, m) \in RuleState
<1>1. FloorFor(c, Larger(s.hwm, m.balance)) \in Int
  BY DEF RuleConfig, RuleState, RuleMark, FloorFor, Larger, Smaller
<1>2. /\ ClosedDay(c, s, m).net \in Int
      /\ ClosedDay(c, s, m).counted \in BOOLEAN
      /\ ClosedDay(c, s, m).winning \in BOOLEAN
  BY DEF ClosedDay, RuleState, RuleMark
<1> DEFINE status == IF s.status = "LOCKED" /\ LockExpired(s, m.date)
                     THEN "ACTIVE" ELSE s.status
           peak == Larger(s.hwm, m.balance)
           floor == IF HasFloor(c, "EOD_TRAILING")
                      THEN Larger(s.floor, FloorFor(c, peak))
                    ELSE IF HasFloor(c, "STATIC") THEN c.start - c.maxLoss
                    ELSE s.floor
           days == IF ClosedDay(c, s, m).counted THEN s.days + 1 ELSE s.days
           wins == IF ClosedDay(c, s, m).winning THEN s.winDays + 1 ELSE s.winDays
           best == IF ClosedDay(c, s, m).counted
                   THEN Larger(s.best, ClosedDay(c, s, m).net) ELSE s.best
           until == IF status = "LOCKED" THEN s.lockedUntil ELSE None
<1>3. status \in AccountRuleStatus
  BY DEF RuleState, AccountRuleStatus
<1>4. peak \in Int /\ floor \in Int
  BY <1>1 DEF RuleState, RuleMark, RuleConfig, Larger
<1>5. days \in Nat /\ wins \in Nat
  BY DEF RuleState
<1>6. best \in Int
  BY <1>2 DEF RuleState, Larger
<1>7. until \in Nat \cup {None}
  BY DEF RuleState
<1>8. RollTradingDay(c, s, m) =
        IF s.date = m.date THEN s
        ELSE [s EXCEPT !.status = status, !.hwm = peak, !.floor = floor,
                       !.date = m.date, !.dayStart = m.balance,
                       !.dayStartEquity = m.balance, !.days = days,
                       !.winDays = wins, !.best = best, !.lockedUntil = until]
  BY DEF RollTradingDay
<1> HIDE DEF status, peak, floor, days, wins, best, until
<1>9. QED
  BY <1>3, <1>4, <1>5, <1>6, <1>7, <1>8 DEF RuleState, RuleMark

(* So does advancing the anchor. *)
LEMMA AdvanceTyped ==
  ASSUME NEW c \in RuleConfig, NEW s \in RuleState, NEW m \in RuleMark
  PROVE  AdvanceDrawdown(c, s, m) \in RuleState
<1>1. Larger(s.hwm, Equity(m)) \in Int
  BY DEF RuleState, RuleMark, Larger, Equity
<1>2. FloorFor(c, Larger(s.hwm, Equity(m))) \in Int
  BY <1>1 DEF RuleConfig, FloorFor, Smaller
<1> DEFINE hwm == Larger(s.hwm, Equity(m))
           floor == IF HasFloor(c, "STATIC") THEN c.start - c.maxLoss
                    ELSE IF HasFloor(c, "INTRADAY_TRAILING")
                         THEN Larger(s.floor, FloorFor(c, hwm))
                    ELSE s.floor
<1>3. floor \in Int
  BY <1>2 DEF RuleState, RuleConfig, Larger
<1>4. AdvanceDrawdown(c, s, m) = [s EXCEPT !.hwm = hwm, !.floor = floor]
  BY DEF AdvanceDrawdown
<1> HIDE DEF hwm, floor
<1>5. QED
  BY <1>1, <1>3, <1>4 DEF RuleState, hwm

(* A breach names its code and the status it leads to. *)
LEMMA BreachTyped ==
  ASSUME NEW c \in RuleConfig, NEW s \in RuleState, NEW m \in RuleMark
  PROVE  FirstBreach(c, s, m) \in Breaches \cup {None}
  BY DEF FirstBreach, Breaches, BreachCode, RuleState

LEMMA StatusTyped ==
  ASSUME NEW c \in RuleConfig, NEW s \in RuleState, NEW m \in RuleMark
  PROVE  EvaluatedStatus(c, s, m) \in AccountRuleStatus
<1>1. CASE FirstBreach(c, s, m) = None
  <2>1. EvaluatedStatus(c, s, m) \in {"PASSED", "GOAL_REACHED", "ACTIVE", s.status}
    BY <1>1, Zenon DEF EvaluatedStatus
  <2>2. QED
    BY <2>1 DEF AccountRuleStatus, RuleState
<1>2. CASE FirstBreach(c, s, m) # None
  <2>1. EvaluatedStatus(c, s, m) = FirstBreach(c, s, m)[2]
    BY <1>2, Zenon DEF EvaluatedStatus
  <2>2. FirstBreach(c, s, m) \in Breaches
    BY <1>2, BreachTyped
  <2>3. QED
    BY <2>1, <2>2 DEF Breaches, AccountRuleStatus
<1>3. QED
  BY <1>1, <1>2

(* An evaluation that fails the account did so for a reason. *)
LEMMA FailureHasBreach ==
  ASSUME NEW c \in RuleConfig, NEW s \in RuleState, NEW m \in RuleMark,
         EvaluatedStatus(c, s, m) = "FAILED"
  PROVE  FirstBreach(c, s, m) # None
<1>1. CASE s.status = "FAILED"
  <2>1. FirstBreach(c, s, m) =
          <<IF s.failedReason = None THEN "MAX_LOSS_LIMIT" ELSE s.failedReason, "FAILED">>
    BY <1>1 DEF FirstBreach
  <2>2. FirstBreach(c, s, m) \in Breaches
    BY <2>1 DEF Breaches, BreachCode, RuleState
  <2>3. QED
    BY <2>2, NoneAssumption
<1>2. ASSUME s.status # "FAILED", FirstBreach(c, s, m) = None
      PROVE  FALSE
  <2>1. EvaluatedStatus(c, s, m) \in {"PASSED", "GOAL_REACHED", "ACTIVE", s.status}
    BY <1>2, Zenon DEF EvaluatedStatus
  <2>2. QED
    BY <1>2, <2>1
<1>3. QED
  BY <1>1, <1>2

(* Applying the rules yields a well-typed state to persist. *)
LEMMA ApplyTyped ==
  ASSUME NEW c \in RuleConfig, NEW s \in RuleState, NEW m \in RuleMark
  PROVE  ApplyRules(c, s, m) \in RuleState
<1> DEFINE a == Anchored(c, s, m)
<1>1. a \in RuleState
  BY RollTyped, AdvanceTyped DEF Anchored
<1>2. EvaluatedStatus(c, a, m) \in AccountRuleStatus
  BY <1>1, StatusTyped
<1>3. FirstBreach(c, a, m) \in Breaches \cup {None}
  BY <1>1, BreachTyped
<1>4. EvaluatedStatus(c, a, m) = "FAILED" => FirstBreach(c, a, m)[1] \in BreachCode
  <2> SUFFICES ASSUME EvaluatedStatus(c, a, m) = "FAILED"
               PROVE  FirstBreach(c, a, m)[1] \in BreachCode
    OBVIOUS
  <2>1. FirstBreach(c, a, m) \in Breaches
    BY <1>1, <1>3, FailureHasBreach
  <2>2. QED
    BY <2>1 DEF Breaches
<1>5. m.date + 1 \in Nat
  BY DEF RuleMark
<1> HIDE DEF a
<1>6. QED
  BY <1>1, <1>2, <1>4, <1>5 DEF ApplyRules, RuleState, a

(* A new breach is a row the risk_events table can hold. *)
LEMMA NewBreachTyped ==
  ASSUME NEW c \in RuleConfig, NEW s \in RuleState, NEW m \in RuleMark
  PROVE  NewBreach(c, s, m) \in Breaches \cup {None}
  BY RollTyped, AdvanceTyped, BreachTyped DEF NewBreach, Anchored

LEMMA MarkTyped ==
  ASSUME TypeOK
  PROVE  Mark \in RuleMark
  BY DEF TypeOK, Mark, RuleMark

(* A provisioned account is well typed, and every step keeps it so. *)
LEMMA InitTyped == Init => TypeOK
<1> SUFFICES ASSUME Init PROVE TypeOK
  OBVIOUS
<1>1. config \in RuleConfig /\ config.start \in Int /\ config.start - config.maxLoss \in Int
  BY ConfigsAssumption DEF Init, RuleConfig
<1>2. rule \in RuleState
  BY <1>1 DEF Init, FreshState, RuleState, AccountRuleStatus
<1>3. dayStats \in [Days -> DayRow \cup {None}]
  BY DEF Init
<1>4. resting \in BOOLEAN /\ exposed \in BOOLEAN /\ riskEvents \subseteq Breaches
  BY Zenon DEF Init
<1>5. config \in Configs /\ balance \in Int /\ open \in Int /\ open = 0 /\ today \in Nat
  BY <1>1 DEF Init
<1>6. QED
  BY <1>2, <1>3, <1>4, <1>5, Zenon DEF TypeOK

LEMMA StepTyped == TypeOK /\ [Next]_vars => TypeOK'
<1> SUFFICES ASSUME TypeOK, [Next]_vars PROVE TypeOK'
  OBVIOUS
<1> USE ConfigsAssumption, FeeAssumption, BoundsAssumption DEF TypeOK
<1>0. config \in RuleConfig
  OBVIOUS
<1> Fee \in Int /\ config.start \in Int /\ balance \in Int /\ open \in Int
  BY <1>0 DEF RuleConfig
<1>1. CASE Submit
  BY <1>1 DEF Submit
<1>2. CASE Cancel
  BY <1>2 DEF Cancel
<1>3. CASE Enter
  <2>1. balance' \in Int /\ open' \in Int
    BY <1>3 DEF Enter
  <2>2. QED
    BY <1>3, <2>1, Zenon DEF Enter
<1>4. CASE MarketMoves
  BY <1>4 DEF MarketMoves
<1>5. CASE Exit
  <2>1. balance' \in Int /\ open' \in Int
    BY <1>5 DEF Exit
  <2>2. QED
    BY <1>5, <2>1, Zenon DEF Exit
<1>6. CASE NextDay
  BY <1>6 DEF NextDay
<1>7. CASE Evaluate
  <2>1. Mark \in RuleMark
    BY MarkTyped
  <2>2. ApplyRules(config, rule, Mark) \in RuleState
    BY <1>0, <2>1, ApplyTyped
  <2>3. NewBreach(config, rule, Mark) \in Breaches \cup {None}
    BY <1>0, <2>1, NewBreachTyped
  <2>4. RecordClosedDay(dayStats, rule, Mark)
          \in [Days -> DayRow \cup {None}]
    <3>1. ClosedDay(config, rule, Mark).counted \in BOOLEAN
      BY DEF ClosedDay, Mark
    <3>2. ASSUME rule.date # None, rule.date \in Days
          PROVE (IF dayStats[rule.date] = None THEN rule.dayStart
                 ELSE dayStats[rule.date].from) \in Int
      BY <3>2 DEF RuleState, DayRow
    <3>3. QED
      BY <3>1, <3>2 DEF RecordClosedDay, DayRow, Mark
  <2>5. /\ rule' \in RuleState
        /\ dayStats' \in [Days -> DayRow \cup {None}]
        /\ riskEvents' \subseteq Breaches
        /\ resting' \in BOOLEAN
    BY <1>7, <2>2, <2>3, <2>4 DEF Evaluate
  <2>6. QED
    BY <1>7, <2>5 DEF Evaluate
<1>8. CASE UNCHANGED vars
  BY <1>8 DEF vars
<1>9. QED
  BY <1>1, <1>2, <1>3, <1>4, <1>5, <1>6, <1>7, <1>8 DEF Next

(* Every variable keeps its type. *)
THEOREM TypeCorrect == Spec => []TypeOK
  BY InitTyped, StepTyped, PTL DEF Spec
-------------------------------------------------------------------------------
(* What one application of the rules does to the fields the safety         *)
(* properties speak about.                                                 *)
LEMMA RollFields ==
  ASSUME NEW c \in RuleConfig, NEW s \in RuleState, NEW m \in RuleMark
  PROVE  /\ RollTradingDay(c, s, m).date = m.date
         /\ s.date = m.date => RollTradingDay(c, s, m) = s
         /\ s.status = "FAILED" => RollTradingDay(c, s, m).status = "FAILED"
         /\ RollTradingDay(c, s, m).failedReason = s.failedReason
         /\ s.date # m.date => RollTradingDay(c, s, m).floor =
              IF HasFloor(c, "EOD_TRAILING")
                THEN Larger(s.floor, FloorFor(c, Larger(s.hwm, m.balance)))
              ELSE IF HasFloor(c, "STATIC") THEN c.start - c.maxLoss
              ELSE s.floor
<1>1. CASE s.date = m.date
  <2>1. RollTradingDay(c, s, m) = s
    BY <1>1 DEF RollTradingDay
  <2>2. QED
    BY <1>1, <2>1
<1>2. CASE s.date # m.date
  BY <1>2 DEF RollTradingDay, RuleState
<1>3. QED
  BY <1>1, <1>2

LEMMA AdvanceFields ==
  ASSUME NEW c \in RuleConfig, NEW s \in RuleState, NEW m \in RuleMark
  PROVE  LET a == AdvanceDrawdown(c, s, m) IN
         /\ a.hwm = Larger(s.hwm, Equity(m))
         /\ a.floor = IF HasFloor(c, "STATIC") THEN c.start - c.maxLoss
                      ELSE IF HasFloor(c, "INTRADAY_TRAILING")
                           THEN Larger(s.floor, FloorFor(c, Larger(s.hwm, Equity(m))))
                      ELSE s.floor
         /\ a.date = s.date
         /\ a.status = s.status
         /\ a.failedReason = s.failedReason
         /\ a.dayStartEquity = s.dayStartEquity
  BY DEF AdvanceDrawdown, RuleState

LEMMA ApplyFields ==
  ASSUME NEW c \in RuleConfig, NEW s \in RuleState, NEW m \in RuleMark
  PROVE  LET next == ApplyRules(c, s, m)
             a == Anchored(c, s, m)
         IN /\ next.floor = a.floor
            /\ next.hwm = a.hwm
            /\ next.date = a.date
            /\ next.dayStartEquity = a.dayStartEquity
            /\ next.status = EvaluatedStatus(c, a, m)
            /\ next.failedReason =
                 IF EvaluatedStatus(c, a, m) = "FAILED" /\ a.failedReason = None
                 THEN FirstBreach(c, a, m)[1] ELSE a.failedReason
<1> DEFINE a == Anchored(c, s, m)
<1>1. a \in RuleState
  BY RollTyped, AdvanceTyped DEF Anchored
<1> HIDE DEF a
<1>2. QED
  BY <1>1 DEF ApplyRules, RuleState, a

(* A floor an anchor supports lies below the trail ceiling. *)
LEMMA FloorForBelowCeiling ==
  ASSUME NEW c \in RuleConfig, NEW anchor \in Int
  PROVE  /\ FloorFor(c, anchor) \in Int
         /\ c.trailLock # None => FloorFor(c, anchor) <= c.start + c.trailLock
         /\ c.trailLock = None => FloorFor(c, anchor) = anchor - c.maxLoss
  BY DEF FloorFor, Smaller, RuleConfig
-------------------------------------------------------------------------------
(* The floor *)

(* A static programme's floor is its own, always. *)
StaticFloor(c, s) == HasFloor(c, "STATIC") => s.floor = c.start - c.maxLoss

(* A lockable trailing floor never passes its ceiling. *)
BelowCeiling(c, s) == c.trailLock # None => s.floor <= c.start + c.trailLock

(* A failed account has a reason. *)
HasReason(s) == s.status = "FAILED" => s.failedReason # None

LEMMA RollKeepsFloor ==
  ASSUME NEW c \in RuleConfig, NEW s \in RuleState, NEW m \in RuleMark,
         StaticFloor(c, s)
  PROVE  LET r == RollTradingDay(c, s, m) IN
         /\ StaticFloor(c, r)
         /\ r.floor >= s.floor
         /\ BelowCeiling(c, s) => BelowCeiling(c, r)
<1>1. CASE s.date = m.date
  BY <1>1 DEF RollTradingDay, RuleState
<1>2. CASE s.date # m.date
  <2> DEFINE peak == Larger(s.hwm, m.balance)
  <2>1. peak \in Int /\ s.floor \in Int /\ c.start - c.maxLoss \in Int
    BY DEF Larger, RuleState, RuleMark, RuleConfig
  <2> HIDE DEF peak
  <2>2. RollTradingDay(c, s, m).floor =
          IF HasFloor(c, "EOD_TRAILING") THEN Larger(s.floor, FloorFor(c, peak))
          ELSE IF HasFloor(c, "STATIC") THEN c.start - c.maxLoss
          ELSE s.floor
    BY <1>2, RollFields DEF peak
  <2>3. CASE HasFloor(c, "EOD_TRAILING")
    BY <2>1, <2>2, <2>3, FloorForBelowCeiling
       DEF HasFloor, StaticFloor, BelowCeiling, Larger, RuleConfig
  <2>4. CASE ~HasFloor(c, "EOD_TRAILING")
    BY <2>1, <2>2, <2>4 DEF StaticFloor, BelowCeiling
  <2>5. QED
    BY <2>3, <2>4
<1>3. QED
  BY <1>1, <1>2

LEMMA AdvanceKeepsFloor ==
  ASSUME NEW c \in RuleConfig, NEW s \in RuleState, NEW m \in RuleMark,
         StaticFloor(c, s)
  PROVE  LET a == AdvanceDrawdown(c, s, m) IN
         /\ StaticFloor(c, a)
         /\ a.floor >= s.floor
         /\ BelowCeiling(c, s) => BelowCeiling(c, a)
<1> DEFINE peak == Larger(s.hwm, Equity(m))
<1>1. peak \in Int /\ s.floor \in Int /\ c.start - c.maxLoss \in Int
  BY DEF Larger, Equity, RuleState, RuleMark, RuleConfig
<1> HIDE DEF peak
<1>2. AdvanceDrawdown(c, s, m).floor =
        IF HasFloor(c, "STATIC") THEN c.start - c.maxLoss
        ELSE IF HasFloor(c, "INTRADAY_TRAILING")
             THEN Larger(s.floor, FloorFor(c, peak))
        ELSE s.floor
  BY AdvanceFields DEF peak
<1>3. CASE HasFloor(c, "STATIC")
  BY <1>1, <1>2, <1>3 DEF StaticFloor, BelowCeiling
<1>4. CASE ~HasFloor(c, "STATIC") /\ HasFloor(c, "INTRADAY_TRAILING")
  BY <1>1, <1>2, <1>4, FloorForBelowCeiling
     DEF StaticFloor, BelowCeiling, Larger, RuleConfig
<1>5. CASE ~HasFloor(c, "STATIC") /\ ~HasFloor(c, "INTRADAY_TRAILING")
  BY <1>1, <1>2, <1>5 DEF StaticFloor, BelowCeiling
<1>6. QED
  BY <1>3, <1>4, <1>5

LEMMA ApplyKeepsFloor ==
  ASSUME NEW c \in RuleConfig, NEW s \in RuleState, NEW m \in RuleMark,
         StaticFloor(c, s)
  PROVE  LET next == ApplyRules(c, s, m) IN
         /\ StaticFloor(c, next)
         /\ next.floor >= s.floor
         /\ BelowCeiling(c, s) => BelowCeiling(c, next)
<1> DEFINE r == RollTradingDay(c, s, m)
           a == AdvanceDrawdown(c, r, m)
<1>1. r \in RuleState /\ a \in RuleState
  BY RollTyped, AdvanceTyped
<1>2. StaticFloor(c, r) /\ r.floor >= s.floor /\ (BelowCeiling(c, s) => BelowCeiling(c, r))
  BY RollKeepsFloor
<1>3. StaticFloor(c, a) /\ a.floor >= r.floor /\ (BelowCeiling(c, r) => BelowCeiling(c, a))
  BY <1>1, <1>2, AdvanceKeepsFloor
<1>4. ApplyRules(c, s, m).floor = a.floor
  BY ApplyFields DEF Anchored
<1>5. s.floor \in Int /\ r.floor \in Int /\ a.floor \in Int
  BY <1>1 DEF RuleState
<1> HIDE DEF r, a
<1>6. QED
  BY <1>2, <1>3, <1>4, <1>5 DEF StaticFloor, BelowCeiling
-------------------------------------------------------------------------------
(* Failure *)

LEMMA FailedStaysFailed ==
  ASSUME NEW c \in RuleConfig, NEW s \in RuleState, NEW m \in RuleMark,
         s.status = "FAILED", HasReason(s)
  PROVE  /\ ApplyRules(c, s, m).status = "FAILED"
         /\ ApplyRules(c, s, m).failedReason = s.failedReason
<1> DEFINE a == Anchored(c, s, m)
<1>1. a \in RuleState
  BY RollTyped, AdvanceTyped DEF Anchored
<1>2. a.status = "FAILED" /\ a.failedReason = s.failedReason
  BY RollFields, RollTyped, AdvanceFields DEF Anchored
<1>3. /\ ApplyRules(c, s, m).status = EvaluatedStatus(c, a, m)
      /\ ApplyRules(c, s, m).failedReason =
           IF EvaluatedStatus(c, a, m) = "FAILED" /\ a.failedReason = None
           THEN FirstBreach(c, a, m)[1] ELSE a.failedReason
  BY ApplyFields
<1> HIDE DEF a
<1>4. FirstBreach(c, a, m) = <<a.failedReason, "FAILED">>
  BY <1>2 DEF FirstBreach, HasReason
<1>5. FirstBreach(c, a, m) \in Breaches
  BY <1>1, <1>2, <1>4 DEF Breaches, RuleState, HasReason
<1>6. FirstBreach(c, a, m) # None
  BY <1>5, NoneAssumption
<1>7. EvaluatedStatus(c, a, m) = FirstBreach(c, a, m)[2]
  BY <1>6, Zenon DEF EvaluatedStatus
<1>8. QED
  BY <1>2, <1>3, <1>4, <1>7 DEF HasReason

LEMMA FailureHasReason ==
  ASSUME NEW c \in RuleConfig, NEW s \in RuleState, NEW m \in RuleMark
  PROVE  HasReason(ApplyRules(c, s, m))
<1> DEFINE a == Anchored(c, s, m)
<1>1. a \in RuleState
  BY RollTyped, AdvanceTyped DEF Anchored
<1>2. /\ ApplyRules(c, s, m).status = EvaluatedStatus(c, a, m)
      /\ ApplyRules(c, s, m).failedReason =
           IF EvaluatedStatus(c, a, m) = "FAILED" /\ a.failedReason = None
           THEN FirstBreach(c, a, m)[1] ELSE a.failedReason
  BY ApplyFields
<1> HIDE DEF a
<1>3. ASSUME EvaluatedStatus(c, a, m) = "FAILED"
      PROVE  FirstBreach(c, a, m)[1] \in BreachCode
  <2>1. FirstBreach(c, a, m) \in Breaches
    BY <1>1, <1>3, BreachTyped, FailureHasBreach
  <2>2. QED
    BY <2>1 DEF Breaches
<1>4. QED
  BY <1>2, <1>3, NoneAssumption DEF HasReason
-------------------------------------------------------------------------------
(* The theorems *)

(* FloorStopsAtLock and FailedForever are not inductive alone: a static    *)
(* floor must be known to be the programme's own before a roll that        *)
(* rewrites it can be seen not to lower it, and a failure keeps its reason *)
(* only if it has one.                                                     *)
RuleInv ==
  /\ TypeOK
  /\ StaticFloor(config, rule)
  /\ BelowCeiling(config, rule)
  /\ HasReason(rule)

LEMMA RuleInvInit == Init => RuleInv
<1> SUFFICES ASSUME Init PROVE RuleInv
  OBVIOUS
<1>1. TypeOK
  BY InitTyped
<1>2. config \in RuleConfig
  BY ConfigsAssumption DEF Init
<1>3. rule.floor = config.start - config.maxLoss /\ rule.status = "ACTIVE"
  BY DEF Init, FreshState
<1>4. BelowCeiling(config, rule)
  BY <1>2, <1>3 DEF BelowCeiling, RuleConfig
<1>5. QED
  BY <1>1, <1>3, <1>4 DEF RuleInv, StaticFloor, HasReason

(* Every step but an evaluation leaves the rule state alone. *)
LEMMA OnlyEvaluateChangesRules ==
  ASSUME [Next]_vars
  PROVE  config' = config /\ (Evaluate \/ rule' = rule)
  BY DEF Next, Submit, Cancel, Enter, MarketMoves, Exit, NextDay, Evaluate, vars

LEMMA RuleInvStep == RuleInv /\ [Next]_vars => RuleInv'
<1> SUFFICES ASSUME RuleInv, [Next]_vars PROVE RuleInv'
  OBVIOUS
<1>1. TypeOK'
  BY StepTyped DEF RuleInv
<1>2. config' = config /\ (Evaluate \/ rule' = rule)
  BY OnlyEvaluateChangesRules
<1>3. config \in RuleConfig /\ rule \in RuleState /\ Mark \in RuleMark
  BY ConfigsAssumption, MarkTyped DEF RuleInv, TypeOK
<1>4. CASE Evaluate
  <2>1. rule' = ApplyRules(config, rule, Mark)
    BY <1>4 DEF Evaluate
  <2>2. /\ StaticFloor(config, ApplyRules(config, rule, Mark))
        /\ BelowCeiling(config, ApplyRules(config, rule, Mark))
    BY <1>3, ApplyKeepsFloor DEF RuleInv
  <2>3. HasReason(ApplyRules(config, rule, Mark))
    BY <1>3, FailureHasReason
  <2>4. QED
    BY <1>1, <1>2, <2>1, <2>2, <2>3 DEF RuleInv, StaticFloor, BelowCeiling, HasReason
<1>5. CASE rule' = rule
  BY <1>1, <1>2, <1>5 DEF RuleInv, StaticFloor, BelowCeiling, HasReason
<1>6. QED
  BY <1>2, <1>4, <1>5

(* The inductive invariant of the rule machine. *)
THEOREM RulesInvariant == Spec => []RuleInv
  BY RuleInvInit, RuleInvStep, PTL DEF Spec

(* On any programme, in any market, a trailing floor that may lock never   *)
(* rises past its lock.                                                    *)
THEOREM LockHolds == Spec => []FloorStopsAtLock
<1>1. RuleInv => FloorStopsAtLock
  BY DEF RuleInv, BelowCeiling, FloorStopsAtLock
<1>2. QED
  BY <1>1, RulesInvariant, PTL

(* Nothing lowers an account's floor: not a day roll, a loss or a recovery. *)
THEOREM FloorIsMonotone == Spec => FloorNeverLowers
<1>1. RuleInv /\ [Next]_vars => [rule'.floor >= rule.floor]_vars
  <2> SUFFICES ASSUME RuleInv, [Next]_vars PROVE rule'.floor >= rule.floor
    OBVIOUS
  <2>1. config \in RuleConfig /\ rule \in RuleState /\ Mark \in RuleMark
    BY ConfigsAssumption, MarkTyped DEF RuleInv, TypeOK
  <2>2. CASE Evaluate
    <3>1. rule' = ApplyRules(config, rule, Mark)
      BY <2>2 DEF Evaluate
    <3>2. QED
      BY <2>1, <3>1, ApplyKeepsFloor DEF RuleInv
  <2>3. CASE rule' = rule
    BY <2>1, <2>3 DEF RuleState
  <2>4. QED
    BY <2>2, <2>3, OnlyEvaluateChangesRules
<1>2. QED
  BY <1>1, RulesInvariant, PTL DEF FloorNeverLowers, Spec

(* Failure is permanent and keeps the reason it was first given. *)
THEOREM FailureIsPermanent == Spec => FailedForever
<1> DEFINE Kept == rule.status = "FAILED" =>
                     rule'.status = "FAILED" /\ rule'.failedReason = rule.failedReason
<1>1. RuleInv /\ [Next]_vars => [Kept]_vars
  <2> SUFFICES ASSUME RuleInv, [Next]_vars PROVE Kept
    OBVIOUS
  <2>1. config \in RuleConfig /\ rule \in RuleState /\ Mark \in RuleMark
    BY ConfigsAssumption, MarkTyped DEF RuleInv, TypeOK
  <2>2. CASE Evaluate
    <3>1. rule' = ApplyRules(config, rule, Mark)
      BY <2>2 DEF Evaluate
    <3>2. QED
      BY <2>1, <3>1, FailedStaysFailed DEF RuleInv
  <2>3. CASE rule' = rule
    BY <2>3
  <2>4. QED
    BY <2>2, <2>3, OnlyEvaluateChangesRules
<1> HIDE DEF Kept
<1>2. Spec => [][Kept]_vars
  BY <1>1, RulesInvariant, PTL DEF Spec
<1>3. QED
  BY <1>2 DEF FailedForever, Kept

(* Within a trading day an end-of-day trailing floor does not move. *)
THEOREM EodFloorStands == Spec => EodFloorOnlyMovesAtRoll
<1> DEFINE Stands == config.drawdown = "EOD_TRAILING" /\ rule'.date = rule.date
                       => rule'.floor = rule.floor
<1>1. RuleInv /\ [Next]_vars => [Stands]_vars
  <2> SUFFICES ASSUME RuleInv, [Next]_vars,
                      config.drawdown = "EOD_TRAILING", rule'.date = rule.date
               PROVE  rule'.floor = rule.floor
    BY DEF Stands
  <2>1. config \in RuleConfig /\ rule \in RuleState /\ Mark \in RuleMark
    BY ConfigsAssumption, MarkTyped DEF RuleInv, TypeOK
  <2>2. CASE Evaluate
    <3> DEFINE r == RollTradingDay(config, rule, Mark)
    <3>1. rule' = ApplyRules(config, rule, Mark)
      BY <2>2 DEF Evaluate
    <3>2. r \in RuleState /\ r.date = Mark.date /\ (rule.date = Mark.date => r = rule)
      BY <2>1, RollTyped, RollFields
    <3>3. /\ rule'.date = r.date
          /\ rule'.floor = AdvanceDrawdown(config, r, Mark).floor
      BY <2>1, <3>1, <3>2, ApplyFields, AdvanceFields DEF Anchored
    <3>4. ~HasFloor(config, "STATIC") /\ ~HasFloor(config, "INTRADAY_TRAILING")
      BY DEF HasFloor
    <3>5. AdvanceDrawdown(config, r, Mark).floor = r.floor
      BY <2>1, <3>2, <3>4, AdvanceFields
    <3>6. QED
      BY <3>2, <3>3, <3>5
  <2>3. CASE rule' = rule
    BY <2>3
  <2>4. QED
    BY <2>2, <2>3, OnlyEvaluateChangesRules
<1> HIDE DEF Stands
<1>2. Spec => [][Stands]_vars
  BY <1>1, RulesInvariant, PTL DEF Spec
<1>3. QED
  BY <1>2 DEF EodFloorOnlyMovesAtRoll, Stands

(* What an evaluation that does not fail the account has established. *)
LEMMA SurvivorMargin ==
  ASSUME NEW c \in RuleConfig, NEW s \in RuleState, NEW m \in RuleMark,
         ApplyRules(c, s, m).status # "FAILED"
  PROVE  LET next == ApplyRules(c, s, m) IN
         /\ c.maxLoss > 0 => Equity(m) > next.floor
         /\ HasFloor(c, "INTRADAY_TRAILING") /\ c.trailLock = None
              => next.hwm - c.maxLoss <= next.floor
         /\ c.dailyLimit # None /\ next.status # "LOCKED"
              => c.dailyLimit + (Equity(m) - next.dayStartEquity) > 0
<1> DEFINE r == RollTradingDay(c, s, m)
           a == AdvanceDrawdown(c, r, m)
           next == ApplyRules(c, s, m)
           breach == FirstBreach(c, a, m)
<1>1. r \in RuleState /\ a \in RuleState /\ Equity(m) \in Int
  BY RollTyped, AdvanceTyped DEF Equity, RuleMark
<1>2. a.floor \in Int /\ a.hwm \in Int /\ a.dayStartEquity \in Int /\ r.floor \in Int
  BY <1>1 DEF RuleState
<1>3. /\ next.floor = a.floor /\ next.hwm = a.hwm
      /\ next.dayStartEquity = a.dayStartEquity
      /\ next.status = EvaluatedStatus(c, a, m)
  BY ApplyFields DEF Anchored
<1>4. breach \in Breaches \cup {None}
  BY <1>1, BreachTyped
<1>5. breach # None => next.status = breach[2]
  BY <1>3, Zenon DEF EvaluatedStatus
<1>6. a.hwm = Larger(r.hwm, Equity(m))
      /\ (HasFloor(c, "INTRADAY_TRAILING") => a.floor = Larger(r.floor, FloorFor(c, a.hwm)))
  BY <1>1, AdvanceFields DEF HasFloor
<1> HIDE DEF r, a, next
<1>7. c.maxLoss > 0 => Equity(m) > a.floor
  <2> SUFFICES ASSUME c.maxLoss > 0, ~(Equity(m) > a.floor) PROVE FALSE
    OBVIOUS
  <2>1. Equity(m) <= a.floor
    BY <1>1, <1>2
  <2>2. breach \in Breaches /\ breach[2] = "FAILED"
    BY <1>1, <2>1 DEF FirstBreach, Breaches, BreachCode, RuleState
  <2>3. QED
    BY <1>5, <2>2, NoneAssumption DEF next
<1>8. HasFloor(c, "INTRADAY_TRAILING") /\ c.trailLock = None => a.hwm - c.maxLoss <= a.floor
  BY <1>2, <1>6, FloorForBelowCeiling DEF Larger, RuleConfig
<1>9. c.dailyLimit # None /\ next.status # "LOCKED"
        => c.dailyLimit + (Equity(m) - a.dayStartEquity) > 0
  <2> SUFFICES ASSUME c.dailyLimit # None, next.status # "LOCKED",
                      ~(c.dailyLimit + (Equity(m) - a.dayStartEquity) > 0)
               PROVE  FALSE
    OBVIOUS
  <2>1. c.dailyLimit + (Equity(m) - a.dayStartEquity) <= 0
    BY <1>1, <1>2 DEF RuleConfig
  <2>2. breach \in Breaches
    BY <1>1, <2>1 DEF FirstBreach, Breaches, BreachCode, RuleState
  <2>3. breach[2] \in {"LOCKED", "FAILED"}
    BY <2>2 DEF Breaches
  <2>4. QED
    BY <1>5, <2>2, <2>3, NoneAssumption DEF next
<1>10. QED
  BY <1>3, <1>7, <1>8, <1>9 DEF next

(* Every account an evaluation lets live is strictly above its floor,      *)
(* within its trailing loss of the highest equity, and inside its daily    *)
(* limit unless it is locked for the day.                                  *)
THEOREM SurvivorsAreSafe == Spec => SurvivorsHaveRoom
<1> DEFINE Room ==
      Evaluate /\ rule'.status # "FAILED" /\ config.maxLoss > 0 =>
        /\ Equity(Mark) > rule'.floor
        /\ config.drawdown = "INTRADAY_TRAILING" /\ config.trailLock = None
             => rule'.hwm - Equity(Mark) < config.maxLoss
        /\ config.dailyLimit # None /\ rule'.status # "LOCKED"
             => rule'.dayStartEquity - Equity(Mark) < config.dailyLimit
<1>1. RuleInv /\ [Next]_vars => [Room]_vars
  <2> SUFFICES ASSUME RuleInv, Evaluate, rule'.status # "FAILED", config.maxLoss > 0
               PROVE  Room
    BY DEF Room
  <2>1. config \in RuleConfig /\ rule \in RuleState /\ Mark \in RuleMark
    BY ConfigsAssumption, MarkTyped DEF RuleInv, TypeOK
  <2>2. rule' = ApplyRules(config, rule, Mark)
    BY DEF Evaluate
  <2>3. /\ rule'.floor \in Int /\ rule'.hwm \in Int /\ rule'.dayStartEquity \in Int
        /\ Equity(Mark) \in Int
        /\ config.maxLoss \in Nat /\ (config.dailyLimit # None => config.dailyLimit \in Nat)
    BY <2>1, <2>2, ApplyTyped DEF RuleState, RuleMark, RuleConfig, Equity
  <2>4. /\ Equity(Mark) > rule'.floor
        /\ config.drawdown = "INTRADAY_TRAILING" /\ config.trailLock = None
             => rule'.hwm - config.maxLoss <= rule'.floor
        /\ config.dailyLimit # None /\ rule'.status # "LOCKED"
             => config.dailyLimit + (Equity(Mark) - rule'.dayStartEquity) > 0
    BY <2>1, <2>2, SurvivorMargin DEF HasFloor
  <2>5. QED
    BY <2>3, <2>4 DEF Room
<1> HIDE DEF Room
<1>2. Spec => [][Room]_vars
  BY <1>1, RulesInvariant, PTL DEF Spec
<1>3. QED
  BY <1>2 DEF SurvivorsHaveRoom, Room
-------------------------------------------------------------------------------
(* The daily statistics *)

(* A set of naturals with a member has a least one: the intervals below    *)
(* its members are ordered by inclusion, which is well founded.            *)
LEMMA LeastMember ==
  ASSUME NEW S \in SUBSET Nat, S # {}
  PROVE  \E m \in S : \A n \in S : m <= n
<1> DEFINE T == {0..m : m \in S}
<1>1. T \subseteq FiniteSubsetsOf(Nat) /\ T # {}
  <2>1. \A m \in S : 0..m \in SUBSET Nat /\ IsFiniteSet(0..m)
    BY FS_Interval
  <2>2. QED
    BY <2>1 DEF FiniteSubsetsOf
<1>2. PICK x \in T : \A y \in T : ~(<<y, x>> \in StrictSubsetOrdering(Nat))
  BY <1>1, FS_StrictSubsetOrderingWellFounded, WFMin, Zenon
<1>3. PICK m \in S : x = 0..m
  OBVIOUS
<1>4. ASSUME NEW n \in S, ~(m <= n) PROVE FALSE
  <2>1. 0..n \in T /\ 0..n \in SUBSET Nat /\ 0..m \in SUBSET Nat
    OBVIOUS
  <2>2. 0..n \subseteq 0..m /\ m \in 0..m /\ m \notin 0..n
    BY <1>4
  <2>3. <<0..n, 0..m>> \in StrictSubsetOrdering(Nat)
    BY <2>1, <2>2 DEF StrictSubsetOrdering
  <2>4. QED
    BY <1>2, <1>3, <2>1, <2>3
<1>5. QED
  BY <1>4

CountedDays(stats) == {d \in Days : stats[d] # None /\ stats[d].counted}
WinningDays(stats) == {d \in CountedDays(stats) : stats[d].to - stats[d].from >= config.minWinPnl}

(* Neighbours among the closed days hand the balance on, and the last one  *)
(* hands it to the day under way.                                          *)
HandedOn ==
  /\ \A d, e \in ClosedDays :
       d < e /\ (\A f \in ClosedDays : f <= d \/ e <= f) => dayStats[d].to = dayStats[e].from
  /\ \A d \in ClosedDays : (\A e \in ClosedDays : e <= d) => dayStats[d].to = rule.dayStart

(* The statistics are those of days gone by, whose number the account's    *)
(* counters carry; a lockout ends on the date after the day under way.     *)
StatInv ==
  /\ today <= MaxDay
  /\ rule.date # None => rule.date <= today
  /\ \A d \in ClosedDays : rule.date # None /\ d < rule.date
  /\ rule.days = Cardinality(CountedDays(dayStats))
  /\ rule.winDays = Cardinality(WinningDays(dayStats))
  /\ HandedOn
  /\ rule.lockedUntil # None => rule.date # None /\ rule.lockedUntil <= rule.date + 1
  /\ rule.status = "PASSED" => rule.days >= config.minDays /\ rule.winDays >= config.minWinDays

(* What an evaluation does to the counters, and when it calls an account   *)
(* passed.                                                                 *)
LEMMA RollCounts ==
  ASSUME NEW c \in RuleConfig, NEW s \in RuleState, NEW m \in RuleMark
  PROVE  LET r == RollTradingDay(c, s, m)
             closed == ClosedDay(c, s, m)
         IN s.date # m.date =>
              /\ r.days = IF closed.counted THEN s.days + 1 ELSE s.days
              /\ r.winDays = IF closed.winning THEN s.winDays + 1 ELSE s.winDays
              /\ r.dayStart = m.balance
              /\ r.dayStartEquity = m.balance
              /\ r.status = IF s.status = "LOCKED" /\ LockExpired(s, m.date)
                            THEN "ACTIVE" ELSE s.status
              /\ r.lockedUntil = IF r.status = "LOCKED" THEN s.lockedUntil ELSE None
  BY DEF RollTradingDay, RuleState

LEMMA AdvanceCounts ==
  ASSUME NEW c \in RuleConfig, NEW s \in RuleState, NEW m \in RuleMark
  PROVE  LET a == AdvanceDrawdown(c, s, m) IN
         /\ a.days = s.days /\ a.winDays = s.winDays
         /\ a.dayStart = s.dayStart /\ a.lockedUntil = s.lockedUntil
  BY DEF AdvanceDrawdown, RuleState

LEMMA ApplyCounts ==
  ASSUME NEW c \in RuleConfig, NEW s \in RuleState, NEW m \in RuleMark
  PROVE  LET a == Anchored(c, s, m)
             next == ApplyRules(c, s, m)
         IN /\ next.days = a.days /\ next.winDays = a.winDays
            /\ next.dayStart = a.dayStart
            /\ next.lockedUntil =
                 IF next.status = "LOCKED"
                   THEN IF a.lockedUntil = None THEN m.date + 1 ELSE a.lockedUntil
                   ELSE IF LockExpired(a, m.date) THEN None ELSE a.lockedUntil
<1> DEFINE a == Anchored(c, s, m)
<1>1. a \in RuleState
  BY RollTyped, AdvanceTyped DEF Anchored
<1> HIDE DEF a
<1>2. QED
  BY <1>1 DEF ApplyRules, RuleState, a

LEMMA PassedMeets ==
  ASSUME NEW c \in RuleConfig, NEW s \in RuleState, NEW m \in RuleMark,
         EvaluatedStatus(c, s, m) = "PASSED"
  PROVE  RequirementsMet(c, s, m.balance)
<1>1. CASE FirstBreach(c, s, m) # None
  <2>1. FirstBreach(c, s, m) \in Breaches /\ EvaluatedStatus(c, s, m) = FirstBreach(c, s, m)[2]
    BY <1>1, BreachTyped, Zenon DEF EvaluatedStatus
  <2>2. QED
    BY <2>1 DEF Breaches
<1>2. CASE FirstBreach(c, s, m) = None /\ ProfitTargetMet(c, m.balance)
  <2>1. EvaluatedStatus(c, s, m) =
          IF RequirementsMet(c, s, m.balance) THEN "PASSED" ELSE "GOAL_REACHED"
    BY <1>2, Zenon DEF EvaluatedStatus
  <2>2. QED
    BY <2>1
<1>3. CASE FirstBreach(c, s, m) = None /\ ~ProfitTargetMet(c, m.balance)
  <2>1. EvaluatedStatus(c, s, m) =
          IF s.status \in {"GOAL_REACHED", "PASSED"} THEN "ACTIVE"
          ELSE IF s.status = "LOCKED" /\ LockExpired(s, m.date) THEN "ACTIVE"
          ELSE s.status
    BY <1>3, Zenon DEF EvaluatedStatus
  <2>2. QED
    BY <2>1
<1>4. QED
  BY <1>1, <1>2, <1>3

LEMMA AppliedFacts ==
  ASSUME NEW c \in RuleConfig, NEW s \in RuleState, NEW m \in RuleMark,
         s.date # None => s.date <= m.date,
         s.lockedUntil # None => s.date # None /\ s.lockedUntil <= s.date + 1
  PROVE  LET next == ApplyRules(c, s, m)
             closed == ClosedDay(c, s, m)
         IN /\ next.date = m.date
            /\ s.date = m.date => /\ next.days = s.days /\ next.winDays = s.winDays
                                  /\ next.dayStart = s.dayStart
            /\ s.date # m.date =>
                 /\ next.days = IF closed.counted THEN s.days + 1 ELSE s.days
                 /\ next.winDays = IF closed.winning THEN s.winDays + 1 ELSE s.winDays
                 /\ next.dayStart = m.balance
            /\ next.lockedUntil # None => next.lockedUntil <= m.date + 1
            /\ next.status = "PASSED" => next.days >= c.minDays /\ next.winDays >= c.minWinDays
<1> DEFINE r == RollTradingDay(c, s, m)
           a == AdvanceDrawdown(c, r, m)
           next == ApplyRules(c, s, m)
<1>1. r \in RuleState /\ a \in RuleState /\ m.date \in Nat
  BY RollTyped, AdvanceTyped DEF RuleMark
<1>2. r.date = m.date /\ (s.date = m.date => r = s)
  BY RollFields
<1>3. s.date # m.date =>
        /\ r.days = IF ClosedDay(c, s, m).counted THEN s.days + 1 ELSE s.days
        /\ r.winDays = IF ClosedDay(c, s, m).winning THEN s.winDays + 1 ELSE s.winDays
        /\ r.dayStart = m.balance
        /\ r.lockedUntil = IF r.status = "LOCKED" THEN s.lockedUntil ELSE None
  BY RollCounts
<1>4. /\ a.days = r.days /\ a.winDays = r.winDays /\ a.date = r.date
      /\ a.dayStart = r.dayStart /\ a.lockedUntil = r.lockedUntil
  BY <1>1, AdvanceCounts, AdvanceFields
<1>5. /\ next.days = a.days /\ next.winDays = a.winDays
      /\ next.dayStart = a.dayStart /\ next.date = a.date
      /\ next.status = EvaluatedStatus(c, a, m)
      /\ next.lockedUntil \in {None, m.date + 1, a.lockedUntil}
  BY ApplyCounts, ApplyFields DEF Anchored
<1>6. next.status = "PASSED" => RequirementsMet(c, a, m.balance)
  BY <1>1, <1>5, PassedMeets
<1>7. r.lockedUntil # None => r.lockedUntil <= m.date + 1
  BY <1>1, <1>2, <1>3 DEF RuleState
<1> HIDE DEF r, a, next
<1>8. next.status = "PASSED" => next.days >= c.minDays /\ next.winDays >= c.minWinDays
  BY <1>5, <1>6 DEF RequirementsMet
<1>9. next.lockedUntil # None => next.lockedUntil <= m.date + 1
  BY <1>1, <1>4, <1>5, <1>7
<1>10. QED
  BY <1>2, <1>3, <1>4, <1>5, <1>8, <1>9 DEF next

LEMMA StatInvInit == Init => StatInv
<1> SUFFICES ASSUME Init PROVE StatInv
  OBVIOUS
<1>1. /\ today = 0 /\ 0 <= MaxDay
      /\ rule.date = None /\ rule.days = 0 /\ rule.winDays = 0
      /\ rule.lockedUntil = None /\ rule.status = "ACTIVE"
  BY BoundsAssumption DEF Init, FreshState
<1>2. ClosedDays = {} /\ CountedDays(dayStats) = {} /\ WinningDays(dayStats) = {}
  BY DEF Init, ClosedDays, CountedDays, WinningDays
<1>3. QED
  BY <1>1, <1>2, FS_EmptySet DEF StatInv, HandedOn

(* The statistics before and after a step that evaluates nothing. *)
LEMMA StatsElsewhere ==
  ASSUME [Next]_vars, ~Evaluate, TypeOK, StatInv
  PROVE  UNCHANGED <<config, rule, dayStats>> /\ today' <= MaxDay /\ today <= today'
<1>1. UNCHANGED <<config, rule, dayStats>>
  BY DEF Next, Submit, Cancel, Enter, MarketMoves, Exit, NextDay, vars
<1>2. UNCHANGED today \/ (today < MaxDay /\ today' = today + 1)
  BY DEF Next, Submit, Cancel, Enter, MarketMoves, Exit, NextDay, vars
<1>3. QED
  BY <1>1, <1>2, BoundsAssumption DEF TypeOK, StatInv

(* A day that closes joins the closed days as the last of them. *)
LEMMA CountsFinite ==
  ASSUME NEW stats
  PROVE  IsFiniteSet(CountedDays(stats)) /\ IsFiniteSet(WinningDays(stats))
<1>1. IsFiniteSet(Days)
  BY FS_Interval, BoundsAssumption DEF Days
<1>2. CountedDays(stats) \in SUBSET Days /\ WinningDays(stats) \in SUBSET Days
  BY DEF CountedDays, WinningDays
<1>3. QED
  BY <1>1, <1>2, FS_Subset

LEMMA DayCloses ==
  ASSUME TypeOK, StatInv, Evaluate, rule.date # None, rule.date # today
  PROVE  LET day == rule.date
             closed == ClosedDay(config, rule, Mark)
             row == [from |-> rule.dayStart, to |-> balance, counted |-> closed.counted]
         IN /\ day \in Days /\ day < today /\ day \notin ClosedDays
            /\ dayStats' = [dayStats EXCEPT ![day] = row]
            /\ row \in DayRow /\ row # None
            /\ ClosedDays' = ClosedDays \cup {day}
            /\ CountedDays(dayStats)' =
                 IF closed.counted THEN CountedDays(dayStats) \cup {day} ELSE CountedDays(dayStats)
            /\ WinningDays(dayStats)' =
                 IF closed.winning THEN WinningDays(dayStats) \cup {day} ELSE WinningDays(dayStats)
<1> DEFINE day == rule.date
           closed == ClosedDay(config, rule, Mark)
           row == [from |-> rule.dayStart, to |-> balance, counted |-> closed.counted]
<1>1. /\ day \in Nat /\ today \in Nat /\ balance \in Int /\ rule.dayStart \in Int
      /\ config' = config
  BY DEF TypeOK, RuleState, Evaluate
<1>2. day < today /\ today <= MaxDay /\ day \in Days
  BY <1>1, BoundsAssumption DEF StatInv, Days
<1>3. day \notin ClosedDays
  BY <1>1 DEF StatInv
<1>4. dayStats[day] = None
  BY <1>2, <1>3 DEF ClosedDays
<1>5. dayStats' = [dayStats EXCEPT ![day] = row]
  BY <1>1, <1>4 DEF Evaluate, RecordClosedDay, Mark
<1>6. closed.counted \in BOOLEAN
  BY DEF ClosedDay
<1>7. row \in DayRow /\ row # None
  BY <1>1, <1>6, RowAssumption DEF DayRow
<1>8. closed.winning <=> closed.counted /\ balance - rule.dayStart >= config.minWinPnl
  BY DEF ClosedDay, Mark
<1>9. dayStats \in [Days -> DayRow \cup {None}]
  BY DEF TypeOK
<1> HIDE DEF day, closed
<1>10. ClosedDays' = ClosedDays \cup {day}
  BY <1>2, <1>5, <1>7, <1>9 DEF ClosedDays
<1>11. CountedDays(dayStats)' =
         IF closed.counted THEN CountedDays(dayStats) \cup {day} ELSE CountedDays(dayStats)
  BY <1>2, <1>4, <1>5, <1>7, <1>9 DEF CountedDays
<1>12. WinningDays(dayStats)' =
         IF closed.winning THEN WinningDays(dayStats) \cup {day} ELSE WinningDays(dayStats)
  <2>1. \A d \in Days : d # day => dayStats'[d] = dayStats[d]
    BY <1>5, <1>9
  <2>2. dayStats'[day] = row
    BY <1>2, <1>5, <1>9
  <2>3. day \notin CountedDays(dayStats)
    BY <1>4 DEF CountedDays
  <2>4. ASSUME NEW d \in Days, d # day
        PROVE  d \in WinningDays(dayStats)' <=> d \in WinningDays(dayStats)
    BY <1>1, <2>1, <2>4 DEF WinningDays, CountedDays
  <2>5. day \in WinningDays(dayStats)' <=> closed.winning
    <3>1. day \in CountedDays(dayStats)' <=> closed.counted
      BY <1>2, <1>7, <2>2 DEF CountedDays
    <3>2. dayStats'[day].to - dayStats'[day].from = balance - rule.dayStart
      BY <2>2
    <3>3. day \in WinningDays(dayStats)' <=>
            day \in CountedDays(dayStats)' /\ dayStats'[day].to - dayStats'[day].from >= config.minWinPnl
      BY <1>1 DEF WinningDays, CountedDays
    <3>4. QED
      BY <1>8, <3>1, <3>2, <3>3
  <2>6. day \notin WinningDays(dayStats)
    BY <2>3 DEF WinningDays
  <2>7. WinningDays(dayStats) \subseteq Days /\ WinningDays(dayStats)' \subseteq Days
    BY DEF WinningDays, CountedDays
  <2>8. QED
    BY <1>2, <2>4, <2>5, <2>6, <2>7
<1>13. QED
  BY <1>2, <1>3, <1>5, <1>7, <1>10, <1>11, <1>12 DEF day, closed

LEMMA HandedOnStep ==
  ASSUME TypeOK, TypeOK', StatInv, Evaluate,
         rule.date = today => rule'.dayStart = rule.dayStart,
         rule.date # today => rule'.dayStart = balance
  PROVE  HandedOn'
<1>1. ClosedDays \subseteq Days /\ Days \subseteq Nat
  BY DEF ClosedDays, Days
<1>2. ASSUME rule.date = None \/ rule.date = today
      PROVE  dayStats' = dayStats
    BY <1>2 DEF Evaluate, RecordClosedDay, Mark
<1>3. CASE rule.date = today
  <2>1. dayStats' = dayStats /\ ClosedDays' = ClosedDays /\ rule'.dayStart = rule.dayStart
    BY <1>2, <1>3 DEF ClosedDays
  <2>2. QED
    BY <2>1 DEF StatInv, HandedOn
<1>4. CASE rule.date = None
  <2>1. ClosedDays = {} /\ ClosedDays' = {}
    BY <1>2, <1>4 DEF StatInv, ClosedDays
  <2>2. QED
    BY <2>1 DEF HandedOn
<1>5. CASE rule.date # None /\ rule.date # today
  <2> DEFINE day == rule.date
             row == [from |-> rule.dayStart, to |-> balance,
                     counted |-> ClosedDay(config, rule, Mark).counted]
  <2>1. /\ day \in Days /\ day \notin ClosedDays
        /\ dayStats' = [dayStats EXCEPT ![day] = row]
        /\ ClosedDays' = ClosedDays \cup {day}
        /\ rule'.dayStart = balance
    BY <1>5, DayCloses
  <2>2. dayStats \in [Days -> DayRow \cup {None}]
    BY DEF TypeOK
  <2>3. \A d \in ClosedDays : d < day /\ dayStats'[d] = dayStats[d]
    BY <1>1, <2>1, <2>2 DEF StatInv
  <2>4. dayStats'[day].from = rule.dayStart /\ dayStats'[day].to = balance
    BY <2>1, <2>2
  <2> HIDE DEF day, row
  <2>5. ASSUME NEW d \in ClosedDays', NEW e \in ClosedDays', d < e,
               \A f \in ClosedDays' : f <= d \/ e <= f
        PROVE  dayStats'[d].to = dayStats'[e].from
    <3>1. d \in ClosedDays
      BY <1>1, <2>1, <2>3, <2>5
    <3>2. CASE e \in ClosedDays
      BY <2>1, <2>3, <2>5, <3>1, <3>2 DEF StatInv, HandedOn
    <3>3. CASE e = day
      <4>1. \A f \in ClosedDays : f <= d
        BY <1>1, <2>1, <2>3, <2>5, <3>3
      <4>2. QED
        BY <2>3, <2>4, <3>1, <3>3, <4>1 DEF StatInv, HandedOn
    <3>4. QED
      BY <2>1, <2>5, <3>2, <3>3
  <2>6. ASSUME NEW d \in ClosedDays', \A e \in ClosedDays' : e <= d
        PROVE  dayStats'[d].to = rule'.dayStart
    <3>1. d = day
      BY <1>1, <2>1, <2>3, <2>6
    <3>2. QED
      BY <2>1, <2>4, <3>1
  <2>7. QED
    BY <2>5, <2>6 DEF HandedOn
<1>6. QED
  BY <1>3, <1>4, <1>5

LEMMA StatInvStep == TypeOK /\ TypeOK' /\ StatInv /\ [Next]_vars => StatInv'
<1> SUFFICES ASSUME TypeOK, TypeOK', StatInv, [Next]_vars PROVE StatInv'
  OBVIOUS
<1>1. CASE ~Evaluate
  <2>1. UNCHANGED <<config, rule, dayStats>> /\ today' <= MaxDay /\ today <= today'
    BY <1>1, StatsElsewhere
  <2>2. UNCHANGED <<ClosedDays, CountedDays(dayStats), WinningDays(dayStats), HandedOn>>
    BY <2>1 DEF ClosedDays, CountedDays, WinningDays, HandedOn
  <2>3. rule.date # None => rule.date <= today'
    BY <2>1 DEF StatInv, TypeOK, RuleState
  <2>4. QED
    BY <2>1, <2>2, <2>3 DEF StatInv
<1>2. CASE Evaluate
  <2> DEFINE closed == ClosedDay(config, rule, Mark)
  <2>1. /\ config \in RuleConfig /\ rule \in RuleState /\ Mark \in RuleMark
        /\ Mark.date = today /\ today \in Nat
    BY ConfigsAssumption, MarkTyped DEF TypeOK, Mark
  <2>2. rule' = ApplyRules(config, rule, Mark) /\ today' = today /\ config' = config
    BY <1>2 DEF Evaluate
  <2>3. /\ rule'.date = today
        /\ rule.date = today => /\ rule'.days = rule.days /\ rule'.winDays = rule.winDays
                                /\ rule'.dayStart = rule.dayStart
        /\ rule.date # today =>
             /\ rule'.days = IF closed.counted THEN rule.days + 1 ELSE rule.days
             /\ rule'.winDays = IF closed.winning THEN rule.winDays + 1 ELSE rule.winDays
             /\ rule'.dayStart = balance
        /\ rule'.lockedUntil # None => rule'.lockedUntil <= today + 1
        /\ rule'.status = "PASSED" =>
             rule'.days >= config.minDays /\ rule'.winDays >= config.minWinDays
    BY <2>1, <2>2, AppliedFacts DEF StatInv, Mark
  <2> HIDE DEF closed
  <2>4. HandedOn'
    BY <1>2, <2>3, HandedOnStep
  <2>5. rule'.date # None
    BY <2>1, <2>3, NoneAssumption
  <2>6. /\ \A d \in ClosedDays' : d < rule'.date
        /\ rule'.days = Cardinality(CountedDays(dayStats)')
        /\ rule'.winDays = Cardinality(WinningDays(dayStats)')
    <3>1. CASE rule.date = today
      <4>1. dayStats' = dayStats
        BY <1>2, <3>1 DEF Evaluate, RecordClosedDay, Mark
      <4>2. QED
        BY <2>2, <2>3, <3>1, <4>1 DEF StatInv, ClosedDays, CountedDays, WinningDays
    <3>2. CASE rule.date = None
      <4>1. dayStats' = dayStats
        BY <1>2, <3>2 DEF Evaluate, RecordClosedDay, Mark
      <4>2. ~closed.counted /\ ~closed.winning /\ rule.date # today
        BY <2>1, <3>2, NoneAssumption DEF closed, ClosedDay
      <4>3. ClosedDays = {}
        BY <3>2 DEF StatInv
      <4>4. QED
        BY <2>2, <2>3, <4>1, <4>2, <4>3 DEF StatInv, ClosedDays, CountedDays, WinningDays
    <3>3. CASE rule.date # None /\ rule.date # today
      <4>1. /\ rule.date \in Days /\ rule.date < today /\ rule.date \notin ClosedDays
            /\ ClosedDays' = ClosedDays \cup {rule.date}
            /\ CountedDays(dayStats)' = IF closed.counted THEN CountedDays(dayStats) \cup {rule.date}
                                        ELSE CountedDays(dayStats)
            /\ WinningDays(dayStats)' = IF closed.winning THEN WinningDays(dayStats) \cup {rule.date}
                                        ELSE WinningDays(dayStats)
        BY <1>2, <3>3, DayCloses DEF closed
      <4>2. rule.date \notin CountedDays(dayStats) /\ rule.date \notin WinningDays(dayStats)
        BY <4>1 DEF ClosedDays, CountedDays, WinningDays
      <4>3. IsFiniteSet(CountedDays(dayStats)) /\ IsFiniteSet(WinningDays(dayStats))
        BY CountsFinite
      <4>4. /\ rule'.days = Cardinality(CountedDays(dayStats)')
            /\ rule'.winDays = Cardinality(WinningDays(dayStats)')
        <5>1. rule.days = Cardinality(CountedDays(dayStats)) /\ rule.winDays = Cardinality(WinningDays(dayStats))
          BY DEF StatInv
        <5>2. /\ Cardinality(CountedDays(dayStats) \cup {rule.date}) = rule.days + 1
              /\ Cardinality(WinningDays(dayStats) \cup {rule.date}) = rule.winDays + 1
          BY <4>2, <4>3, <5>1, FS_AddElement
        <5>3. rule'.days = Cardinality(CountedDays(dayStats)')
          BY <2>3, <3>3, <4>1, <5>1, <5>2
        <5>4. rule'.winDays = Cardinality(WinningDays(dayStats)')
          BY <2>3, <3>3, <4>1, <5>1, <5>2
        <5>. QED BY <5>3, <5>4
      <4>5. \A d \in ClosedDays : d < today
        BY <2>1, <4>1 DEF StatInv, ClosedDays, Days
      <4>6. QED
        BY <2>3, <4>1, <4>4, <4>5
    <3>4. QED
      BY <3>1, <3>2, <3>3
  <2>7. QED
    BY <2>1, <2>2, <2>3, <2>4, <2>5, <2>6 DEF StatInv
<1>3. QED
  BY <1>1, <1>2

LEMMA StatInvariant == Spec => [](TypeOK /\ StatInv)
<1>1. Init => TypeOK /\ StatInv
  BY InitTyped, StatInvInit
<1>2. TypeOK /\ StatInv /\ [Next]_vars => TypeOK' /\ StatInv'
  BY StepTyped, StatInvStep
<1>3. QED
  BY <1>1, <1>2, PTL DEF Spec

(* The days credited to an account are those its daily rows count, and the *)
(* rows' results add up to the balance the day under way began with: no    *)
(* fill, skipped evaluation or repeated one falls between two rows.        *)
THEOREM StatementsAlwaysAddUp == Spec => []StatementsAddUp
<1>1. TypeOK /\ StatInv => StatementsAddUp
  <2> SUFFICES ASSUME TypeOK, StatInv PROVE StatementsAddUp
    OBVIOUS
  <2>1. CountedDays(dayStats) = {d \in ClosedDays : dayStats[d].counted}
    BY DEF CountedDays, ClosedDays
  <2>2. ASSUME NEW d \in ClosedDays
        PROVE  LET later == {e \in ClosedDays : e > d} IN
               IF later = {} THEN dayStats[d].to = rule.dayStart
               ELSE dayStats[d].to = dayStats[CHOOSE e \in later : \A f \in later : e <= f].from
    <3> DEFINE later == {e \in ClosedDays : e > d}
               next == CHOOSE e \in later : \A f \in later : e <= f
    <3>1. ClosedDays \subseteq Nat
      BY DEF ClosedDays, Days
    <3>2. CASE later = {}
      <4>1. \A e \in ClosedDays : e <= d
        BY <3>1, <3>2
      <4>2. QED
        BY <3>2, <4>1 DEF StatInv, HandedOn
    <3>3. CASE later # {}
      <4>1. \E e \in later : \A f \in later : e <= f
        BY <3>1, <3>3, LeastMember
      <4>2. next \in later /\ \A f \in later : next <= f
        BY <4>1, Zenon
      <4> HIDE DEF next
      <4>3. next \in ClosedDays /\ d < next /\ \A f \in ClosedDays : f <= d \/ next <= f
        BY <3>1, <4>2
      <4>4. dayStats[d].to = dayStats[next].from
        BY <4>3 DEF StatInv, HandedOn
      <4>5. QED
        BY <3>3, <4>4 DEF next
    <3>4. QED
      BY <3>2, <3>3
  <2>3. QED
    BY <2>1, <2>2, Zenon DEF StatementsAddUp, DaysAgreeWithStats, StatsAreContinuous, StatInv
<1>2. QED
  BY <1>1, StatInvariant, PTL

(* An account that has passed traded the days its programme asks for, and  *)
(* won as many: they are in the daily statistics.                          *)
THEOREM PassesAreEarned == Spec => []PassedIsEarned
<1>1. TypeOK /\ StatInv => PassedIsEarned
  <2>1. CountedDays(dayStats) = {d \in ClosedDays : dayStats[d].counted}
    BY DEF CountedDays, ClosedDays
  <2>2. WinningDays(dayStats) =
          {d \in ClosedDays : /\ dayStats[d].counted
                              /\ dayStats[d].to - dayStats[d].from >= config.minWinPnl}
    BY DEF WinningDays, CountedDays, ClosedDays
  <2>3. QED
    BY <2>1, <2>2 DEF StatInv, PassedIsEarned
<1>2. QED
  BY <1>1, StatInvariant, PTL
-------------------------------------------------------------------------------
(* The lockout *)

(* Only a daily limit that locks has an evaluation lock an account that    *)
(* was not locked.                                                         *)
LEMMA LocksByLimit ==
  ASSUME NEW c \in RuleConfig, NEW s \in RuleState, NEW m \in RuleMark,
         EvaluatedStatus(c, s, m) = "LOCKED"
  PROVE  \/ s.status = "LOCKED"
         \/ /\ c.dailyLimit # None /\ c.dailyPolicy # "FAIL"
            /\ c.dailyLimit + (Equity(m) - s.dayStartEquity) <= 0
<1>1. CASE FirstBreach(c, s, m) = None
  <2>1. EvaluatedStatus(c, s, m) \in {"PASSED", "GOAL_REACHED", "ACTIVE", s.status}
    BY <1>1, Zenon DEF EvaluatedStatus
  <2>2. QED
    BY <2>1
<1>2. CASE FirstBreach(c, s, m) # None
  <2>1. FirstBreach(c, s, m)[2] = "LOCKED"
    BY <1>2, Zenon DEF EvaluatedStatus
  <2>2. QED
    BY <1>2, <2>1 DEF FirstBreach
<1>3. QED
  BY <1>1, <1>2

(* An evaluation inside the lockout leaves it only by failing, or with the *)
(* target met and the day's loss below the limit.                          *)
LEMMA LockedStatus ==
  ASSUME NEW c \in RuleConfig, NEW s \in RuleState, NEW m \in RuleMark,
         s.status = "LOCKED", ~LockExpired(s, m.date), c.dailyLimit # None
  PROVE  LET status == EvaluatedStatus(c, s, m)
         IN \/ status \in {"LOCKED", "FAILED"}
            \/ /\ status \in {"GOAL_REACHED", "PASSED"}
               /\ ProfitTargetMet(c, m.balance)
               /\ s.dayStartEquity - Equity(m) < c.dailyLimit
<1>1. CASE FirstBreach(c, s, m) = None
  <2>1. \/ EvaluatedStatus(c, s, m) = s.status
        \/ /\ EvaluatedStatus(c, s, m) \in {"GOAL_REACHED", "PASSED"}
           /\ ProfitTargetMet(c, m.balance)
    BY <1>1, Zenon DEF EvaluatedStatus
  <2>2. ~(c.dailyLimit + (Equity(m) - s.dayStartEquity) <= 0)
    <3> SUFFICES ASSUME c.dailyLimit + (Equity(m) - s.dayStartEquity) <= 0 PROVE FALSE
      OBVIOUS
    <3>1. FirstBreach(c, s, m) \in Breaches
      BY DEF FirstBreach, Breaches, BreachCode, RuleState
    <3>2. QED
      BY <1>1, <3>1, NoneAssumption
  <2>3. c.dailyLimit \in Int /\ Equity(m) \in Int /\ s.dayStartEquity \in Int
    BY DEF RuleConfig, RuleState, RuleMark, Equity
  <2>4. s.dayStartEquity - Equity(m) < c.dailyLimit
    BY <2>2, <2>3
  <2>5. QED
    BY <2>1, <2>4
<1>2. CASE FirstBreach(c, s, m) # None
  <2>1. FirstBreach(c, s, m) \in Breaches /\ EvaluatedStatus(c, s, m) = FirstBreach(c, s, m)[2]
    BY <1>2, BreachTyped, Zenon DEF EvaluatedStatus
  <2>2. QED
    BY <2>1 DEF Breaches
<1>3. QED
  BY <1>1, <1>2

(* A locked account is on a programme with a daily limit that locks. *)
LockedByLimit == rule.status = "LOCKED" => config.dailyLimit # None /\ config.dailyPolicy # "FAIL"

LEMMA LockedByLimitStep ==
  TypeOK /\ LockedByLimit /\ [Next]_vars => LockedByLimit'
<1> SUFFICES ASSUME TypeOK, LockedByLimit, [Next]_vars PROVE LockedByLimit'
  OBVIOUS
<1>1. config' = config /\ (Evaluate \/ rule' = rule)
  BY OnlyEvaluateChangesRules
<1>2. CASE Evaluate
  <2> DEFINE r == RollTradingDay(config, rule, Mark)
             a == AdvanceDrawdown(config, r, Mark)
  <2>1. config \in RuleConfig /\ rule \in RuleState /\ Mark \in RuleMark
    BY ConfigsAssumption, MarkTyped DEF TypeOK
  <2>2. r \in RuleState /\ a \in RuleState
    BY <2>1, RollTyped, AdvanceTyped
  <2>3. rule'.status = EvaluatedStatus(config, a, Mark) /\ a.status = r.status
    BY <1>2, <2>1, <2>2, ApplyFields, AdvanceFields DEF Evaluate, Anchored
  <2>4. r.status = "LOCKED" => rule.status = "LOCKED"
    BY <2>1, RollCounts, RollFields
  <2> HIDE DEF r, a
  <2>5. QED
    BY <1>1, <2>1, <2>2, <2>3, <2>4, LocksByLimit DEF LockedByLimit
<1>3. CASE rule' = rule
  BY <1>1, <1>3 DEF LockedByLimit
<1>4. QED
  BY <1>1, <1>2, <1>3

LEMMA LockedByLimitHolds == Spec => []LockedByLimit
<1>1. Init => LockedByLimit
  BY DEF Init, FreshState, LockedByLimit
<1>2. QED
  BY <1>1, LockedByLimitStep, TypeCorrect, PTL DEF Spec

(* A lockout is over on the next date, unless that date's own loss locks   *)
(* the account again.                                                      *)
THEOREM LockoutsAreForADay == Spec => LockoutEndsWithItsDay
<1> DEFINE Over == Evaluate /\ rule.status = "LOCKED" /\ today > rule.date
                     => rule'.status # "LOCKED" \/ RelockedAnew
<1>1. TypeOK /\ StatInv /\ [Next]_vars => [Over]_vars
  <2> SUFFICES ASSUME TypeOK, StatInv, Evaluate, rule.status = "LOCKED", today > rule.date,
                      rule'.status = "LOCKED"
               PROVE  RelockedAnew
    BY DEF Over
  <2> DEFINE r == RollTradingDay(config, rule, Mark)
             a == AdvanceDrawdown(config, r, Mark)
  <2>1. /\ config \in RuleConfig /\ rule \in RuleState /\ Mark \in RuleMark
        /\ Mark.date = today /\ today \in Nat
    BY ConfigsAssumption, MarkTyped DEF TypeOK, Mark
  <2>2. rule.date # today
    BY <2>1 DEF RuleState
  <2>3. LockExpired(rule, today)
    BY <2>1 DEF LockExpired, StatInv, RuleState
  <2>4. r.status = "ACTIVE" /\ r.lockedUntil = None
    BY <2>1, <2>2, <2>3, RollCounts
  <2>5. r \in RuleState /\ a \in RuleState
    BY <2>1, RollTyped, AdvanceTyped
  <2>6. a.status = "ACTIVE" /\ a.lockedUntil = None
    BY <2>1, <2>4, <2>5, AdvanceFields, AdvanceCounts
  <2>7. /\ rule'.status = EvaluatedStatus(config, a, Mark)
        /\ rule'.dayStartEquity = a.dayStartEquity
        /\ rule'.lockedUntil = today + 1
    BY <2>1, <2>6, ApplyFields, ApplyCounts DEF Evaluate, Anchored
  <2> HIDE DEF r, a
  <2>8. config.dailyLimit # None /\ config.dailyLimit + (Equity(Mark) - a.dayStartEquity) <= 0
    BY <2>1, <2>5, <2>6, <2>7, LocksByLimit
  <2>9. a.dayStartEquity \in Int /\ Equity(Mark) \in Int /\ config.dailyLimit \in Int
    BY <2>1, <2>5, <2>8 DEF RuleState, RuleMark, RuleConfig, Equity
  <2>10. QED
    BY <2>7, <2>8, <2>9 DEF RelockedAnew
<1> HIDE DEF Over
<1>2. Spec => [][Over]_vars
  BY <1>1, StatInvariant, PTL DEF Spec
<1>3. QED
  BY <1>2 DEF LockoutEndsWithItsDay, Over

(* Whatever the programme, nothing but the profit target lifts a lockout   *)
(* before its date (evaluateRules tests the target before the lock), and   *)
(* only while the loss of the day is below the limit.                      *)
THEOREM LockoutsLast == Spec => LockoutLiftedOnlyAtTarget
<1> DEFINE Lasts == rule.status = "LOCKED" /\ ~LockExpired(rule, today)
                      => rule'.status \in {"LOCKED", "FAILED"} \/ LiftedByTarget
<1>1. TypeOK /\ StatInv /\ LockedByLimit /\ [Next]_vars => [Lasts]_vars
  <2> SUFFICES ASSUME TypeOK, StatInv, LockedByLimit, [Next]_vars,
                      rule.status = "LOCKED", ~LockExpired(rule, today)
               PROVE  rule'.status \in {"LOCKED", "FAILED"} \/ LiftedByTarget
    BY DEF Lasts
  <2>1. /\ config \in RuleConfig /\ rule \in RuleState /\ Mark \in RuleMark
        /\ Mark.date = today /\ Mark.balance = balance /\ today \in Nat
    BY ConfigsAssumption, MarkTyped DEF TypeOK, Mark
  <2>2. CASE rule' = rule
    BY <2>2
  <2>3. CASE Evaluate
    <3> DEFINE a == AdvanceDrawdown(config, rule, Mark)
    <3>1. rule.date = today
      BY <2>1 DEF LockExpired, StatInv, RuleState
    <3>2. RollTradingDay(config, rule, Mark) = rule
      BY <2>1, <3>1, RollFields
    <3>3. a \in RuleState /\ a.status = "LOCKED" /\ a.lockedUntil = rule.lockedUntil
      BY <2>1, AdvanceTyped, AdvanceFields, AdvanceCounts
    <3>4. /\ rule'.status = EvaluatedStatus(config, a, Mark)
          /\ rule'.dayStartEquity = a.dayStartEquity
      BY <2>1, <2>3, <3>2, ApplyFields DEF Evaluate, Anchored
    <3> HIDE DEF a
    <3>5. ~LockExpired(a, Mark.date) /\ config.dailyLimit # None
      BY <2>1, <3>3 DEF LockExpired, LockedByLimit
    <3>6. QED
      BY <2>1, <3>3, <3>4, <3>5, LockedStatus DEF LiftedByTarget
  <2>4. QED
    BY <2>2, <2>3, OnlyEvaluateChangesRules
<1> HIDE DEF Lasts
<1>2. Spec => [][Lasts]_vars
  BY <1>1, StatInvariant, LockedByLimitHolds, PTL DEF Spec
<1>3. QED
  BY <1>2 DEF LockoutLiftedOnlyAtTarget, Lasts
===============================================================================
