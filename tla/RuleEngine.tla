------------------------------ MODULE RuleEngine ------------------------------
(***************************************************************************)
(* The pure rule engine of packages/core/src/rules/rules.ts and the order  *)
(* in which apps/server/src/trading/account-rules.ts applies it: roll the  *)
(* trading day, advance the drawdown anchor, evaluate, and work out the    *)
(* state to persist.                                                       *)
(*                                                                         *)
(* Money is an integer number of units, a trading date the index of the    *)
(* day, and null is the model value None.  The ratio of the consistency    *)
(* rule is compared in percent, so no division is needed.                  *)
(***************************************************************************)
EXTENDS Integers

CONSTANT None

Larger(a, b)  == IF a >= b THEN a ELSE b
Smaller(a, b) == IF a <= b THEN a ELSE b
Magnitude(a)  == IF a >= 0 THEN a ELSE -a

DrawdownType == {"STATIC", "INTRADAY_TRAILING", "EOD_TRAILING"}
AccountRuleStatus == {"ACTIVE", "GOAL_REACHED", "PASSED", "FAILED", "LOCKED"}
BreachCode == {"MAX_LOSS_LIMIT", "TRAILING_DRAWDOWN_BREACH",
               "DAILY_LOSS_LIMIT", "MAX_TRADING_DAYS"}

(* A programme, as normalizeRuleConfig leaves it.  start stands for the    *)
(* account's startingBalanceMicros, which no rule ever changes.            *)
RuleConfig ==
  [start: Int, maxLoss: Nat, drawdown: DrawdownType,
   trailLock: Nat \cup {None},
   dailyLimit: (Nat \ {0}) \cup {None}, dailyPolicy: {"LOCK_DAY", "FAIL"},
   target: Nat,
   consistency: {"BEST_DAY_OVER_TOTAL", "BEST_DAY_OVER_TARGET", None},
   percent: 1..100,
   minDays: Nat, minWinDays: Nat, maxDays: (Nat \ {0}) \cup {None},
   minPnlToCount: Int, minWinPnl: Int, flattenOnBreach: BOOLEAN]

(* The persisted part of an account the rules read and advance. *)
RuleState ==
  [status: AccountRuleStatus, hwm: Int, floor: Int,
   dayStart: Int, dayStartEquity: Int, date: Nat \cup {None},
   days: Nat, winDays: Nat, best: Int,
   lockedUntil: Nat \cup {None}, failedReason: BreachCode \cup {None}]

(* None is no date and no breach. *)
Breaches == BreachCode \X {"LOCKED", "FAILED"}
ASSUME NoneAssumption == None \notin Nat /\ None \notin BreachCode /\ None \notin Breaches

RuleMark == [balance: Int, open: Int, date: Nat]

Equity(mark) == mark.balance + mark.open

(* A freshly provisioned (or reset) account. *)
FreshState(config) ==
  [status |-> "ACTIVE", hwm |-> config.start,
   floor |-> config.start - config.maxLoss,
   dayStart |-> config.start, dayStartEquity |-> config.start, date |-> None,
   days |-> 0, winDays |-> 0, best |-> 0,
   lockedUntil |-> None, failedReason |-> None]

-------------------------------------------------------------------------------
(* Drawdown *)

(* The floor an anchor supports, never above the trail ceiling. *)
FloorWithoutLock(config, anchor) == anchor - config.maxLoss \* mutant: no ceiling

FloorFor(config, anchor) ==
  IF config.trailLock = None
    THEN anchor - config.maxLoss
    ELSE Smaller(anchor - config.maxLoss, config.start + config.trailLock)

HasFloor(config, type) == config.maxLoss > 0 /\ config.drawdown = type

(* A mark always raises the high-water mark to the equity it shows; only   *)
(* an intraday trailing drawdown drags the floor along with it.            *)
AdvanceToEquity(config, s, mark) == \* mutant: the floor follows equity down
  LET hwm == Larger(s.hwm, Equity(mark))
  IN [s EXCEPT !.hwm = hwm,
        !.floor = IF HasFloor(config, "INTRADAY_TRAILING")
                  THEN FloorFor(config, Equity(mark)) ELSE s.floor]

AdvanceAnyTrailing(config, s, mark) == \* mutant: end-of-day trails intraday too
  LET hwm == Larger(s.hwm, Equity(mark))
  IN [s EXCEPT !.hwm = hwm,
        !.floor = IF HasFloor(config, "STATIC") THEN config.start - config.maxLoss
                  ELSE Larger(s.floor, FloorFor(config, hwm))]

AdvanceDrawdown(config, s, mark) ==
  LET hwm == Larger(s.hwm, Equity(mark))
      floor == IF HasFloor(config, "STATIC") THEN config.start - config.maxLoss
               ELSE IF HasFloor(config, "INTRADAY_TRAILING")
                    THEN Larger(s.floor, FloorFor(config, hwm))
               ELSE s.floor
  IN [s EXCEPT !.hwm = hwm, !.floor = floor]

-------------------------------------------------------------------------------
(* The trading day *)

LockExpiredLate(s, date) == \* mutant: one day too many
  s.lockedUntil = None \/ date > s.lockedUntil

LockExpired(s, date) == s.lockedUntil = None \/ date >= s.lockedUntil

(* What the day that just ended amounts to. *)
ClosedDay(config, s, mark) ==
  LET net == mark.balance - s.dayStart
      counted == s.date # None /\ net # 0 /\ Magnitude(net) >= config.minPnlToCount
  IN [net |-> net, counted |-> counted,
      winning |-> counted /\ net >= config.minWinPnl]

RollTradingDay(config, s, mark) ==
  LET closed == ClosedDay(config, s, mark)
      peak == Larger(s.hwm, mark.balance)
      status == IF s.status = "LOCKED" /\ LockExpired(s, mark.date)
                THEN "ACTIVE" ELSE s.status
  IN IF s.date = mark.date THEN s
     ELSE [s EXCEPT
       !.status = status,
       !.hwm = peak,
       !.floor = IF HasFloor(config, "EOD_TRAILING")
                   THEN Larger(s.floor, FloorFor(config, peak))
                 ELSE IF HasFloor(config, "STATIC") THEN config.start - config.maxLoss
                 ELSE s.floor,
       !.date = mark.date,
       !.dayStart = mark.balance,
       !.dayStartEquity = mark.balance,
       !.days = IF closed.counted THEN s.days + 1 ELSE s.days,
       !.winDays = IF closed.winning THEN s.winDays + 1 ELSE s.winDays,
       !.best = IF closed.counted THEN Larger(s.best, closed.net) ELSE s.best,
       !.lockedUntil = IF status = "LOCKED" THEN s.lockedUntil ELSE None]

-------------------------------------------------------------------------------
(* Evaluation *)

(* The rule a mark breaks, as <<code, status it leads to>>, or None.  An   *)
(* account already failed keeps reporting the rule that ended it.          *)
FirstBreachBelowFloor(config, s, mark) == \* mutant: touching the floor survives
  IF s.status = "FAILED" THEN <<s.failedReason, "FAILED">>
  ELSE IF config.maxLoss > 0 /\ Equity(mark) < s.floor
       THEN <<"MAX_LOSS_LIMIT", "FAILED">>
  ELSE None

FirstBreach(config, s, mark) ==
  IF s.status = "FAILED" THEN
     <<IF s.failedReason = None THEN "MAX_LOSS_LIMIT" ELSE s.failedReason, "FAILED">>
  ELSE IF config.maxLoss > 0 /\ Equity(mark) <= s.floor THEN
     <<IF config.drawdown = "STATIC" THEN "MAX_LOSS_LIMIT"
                                     ELSE "TRAILING_DRAWDOWN_BREACH", "FAILED">>
  ELSE IF /\ config.dailyLimit # None
          /\ config.dailyLimit + (Equity(mark) - s.dayStartEquity) <= 0 THEN
     <<"DAILY_LOSS_LIMIT", IF config.dailyPolicy = "FAIL" THEN "FAILED" ELSE "LOCKED">>
  ELSE IF config.maxDays # None /\ s.days > config.maxDays THEN
     <<"MAX_TRADING_DAYS", "FAILED">>
  ELSE None

(* best / denominator <= threshold, nothing traded yet cannot fail it. *)
ConsistencyPassing(config, s, balance) ==
  LET denominator == IF config.consistency = "BEST_DAY_OVER_TARGET"
                     THEN config.target ELSE Larger(0, balance - config.start)
  IN \/ config.consistency = None
     \/ denominator <= 0
     \/ 100 * s.best <= config.percent * denominator

ProfitTargetMet(config, balance) ==
  config.target > 0 /\ balance - config.start >= config.target

RequirementsWithoutWinDays(config, s, balance) == \* mutant: a requirement is lost
  /\ s.days >= config.minDays
  /\ ConsistencyPassing(config, s, balance)

RequirementsMet(config, s, balance) ==
  /\ config.target > 0 => ProfitTargetMet(config, balance)
  /\ s.days >= config.minDays
  /\ s.winDays >= config.minWinDays
  /\ ConsistencyPassing(config, s, balance)

StatusUnlocksEarly(config, s, mark) == \* mutant: any clean mark lifts the lockout
  LET breach == FirstBreach(config, s, mark) IN
  CASE breach # None -> breach[2]
    [] OTHER -> IF s.status = "LOCKED" THEN "ACTIVE" ELSE s.status

EvaluatedStatus(config, s, mark) ==
  LET breach == FirstBreach(config, s, mark) IN
  CASE breach # None -> breach[2]
    [] breach = None /\ ProfitTargetMet(config, mark.balance) ->
         IF RequirementsMet(config, s, mark.balance) THEN "PASSED" ELSE "GOAL_REACHED"
    [] OTHER ->
         IF s.status \in {"GOAL_REACHED", "PASSED"} THEN "ACTIVE"
         ELSE IF s.status = "LOCKED" /\ LockExpired(s, mark.date) THEN "ACTIVE"
         ELSE s.status

(* The order of applyRules: roll, advance the anchor, evaluate, persist. *)
Anchored(config, s, mark) ==
  AdvanceDrawdown(config, RollTradingDay(config, s, mark), mark)

ApplyRules(config, s, mark) ==
  LET anchored == Anchored(config, s, mark)
      breach == FirstBreach(config, anchored, mark)
      status == EvaluatedStatus(config, anchored, mark)
  IN [anchored EXCEPT
       !.status = status,
       !.failedReason = IF status = "FAILED" /\ anchored.failedReason = None
                        THEN breach[1] ELSE anchored.failedReason,
       !.lockedUntil =
          IF status = "LOCKED"
            THEN IF anchored.lockedUntil = None THEN mark.date + 1
                                                ELSE anchored.lockedUntil
            ELSE IF LockExpired(anchored, mark.date) THEN None
                                                     ELSE anchored.lockedUntil]

(* The breach this evaluation reports as new: none when the account was    *)
(* already locked or failed.                                               *)
NewBreach(config, s, mark) ==
  IF s.status \in {"FAILED", "LOCKED"} THEN None
  ELSE FirstBreach(config, Anchored(config, s, mark), mark)
===============================================================================
