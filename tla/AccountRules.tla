----------------------------- MODULE AccountRules -----------------------------
(***************************************************************************)
(* One account under its programme's rules, as the trading engine runs     *)
(* them (rulesLocked in apps/server/src/trading/engine.ts).                *)
(*                                                                         *)
(* The account trades one lot.  Filling, moving the market, turning the    *)
(* exchange's date and evaluating the rules are separate steps because     *)
(* they are separate in the code: a fill commits its own transaction, the  *)
(* evaluation reads the market and the date afresh afterwards, and the     *)
(* process may stop in between.                                            *)
(***************************************************************************)
EXTENDS RuleEngine, FiniteSets

CONSTANTS
  Configs,       \* the programmes an account may be on
  Fee,           \* commission charged by every fill
  OpenBound,     \* largest open profit or loss explored
  BalanceBound,  \* largest distance of the balance from the start explored
  MaxDay         \* last trading date explored

ASSUME ConfigsAssumption == Configs \subseteq RuleConfig
ASSUME FeeAssumption == Fee \in Nat
ASSUME BoundsAssumption ==
  OpenBound \in Nat /\ BalanceBound \in Nat /\ MaxDay \in Nat

VARIABLES
  config,      \* the account's programme
  rule,        \* the persisted RuleState
  balance,     \* accounts.balanceMicros
  resting,     \* is an entry order working
  exposed,     \* is the lot open
  open,        \* its unrealized profit at the market, 0 when flat
  today,       \* the exchange's trading date, accountTradingDate()
  dayStats,    \* daily_account_stats: the row of each closed date, or None
  riskEvents   \* what the risk_events rows written for new breaches say

vars == <<config, rule, balance, resting, exposed, open, today, dayStats, riskEvents>>

Days == 0..MaxDay
DayRow == [from: Int, to: Int, counted: BOOLEAN]
ASSUME RowAssumption == None \notin DayRow

Mark == [balance |-> balance, open |-> open, date |-> today]

TypeOK ==
  /\ config \in Configs
  /\ rule \in RuleState
  /\ balance \in Int
  /\ resting \in BOOLEAN
  /\ exposed \in BOOLEAN
  /\ open \in Int
  /\ ~exposed => open = 0
  /\ today \in Nat
  /\ dayStats \in [Days -> DayRow \cup {None}]
  /\ riskEvents \subseteq Breaches

Init ==
  /\ config \in Configs
  /\ rule = FreshState(config)
  /\ balance = config.start
  /\ resting = FALSE
  /\ exposed = FALSE
  /\ open = 0
  /\ today = 0
  /\ dayStats = [d \in Days |-> None]
  /\ riskEvents = {}

-------------------------------------------------------------------------------
InBounds(b) == Magnitude(b - config.start) <= BalanceBound

(* An entry the order gate accepts: checkOrder lets only these two trade. *)
Submit ==
  /\ rule.status \in {"ACTIVE", "GOAL_REACHED"}
  /\ ~resting /\ ~exposed
  /\ resting' = TRUE
  /\ UNCHANGED <<config, rule, balance, exposed, open, today, dayStats, riskEvents>>

Cancel ==
  /\ resting
  /\ resting' = FALSE
  /\ UNCHANGED <<config, rule, balance, exposed, open, today, dayStats, riskEvents>>

(* The matcher does not consult the account's status: an order accepted    *)
(* earlier fills whenever the market reaches it.                           *)
Enter ==
  /\ resting
  /\ InBounds(balance - Fee)
  /\ resting' = FALSE
  /\ exposed' = TRUE
  /\ open' = 0
  /\ balance' = balance - Fee
  /\ UNCHANGED <<config, rule, today, dayStats, riskEvents>>

MarketMoves ==
  /\ exposed
  /\ open' \in -OpenBound..OpenBound
  /\ UNCHANGED <<config, rule, balance, resting, exposed, today, dayStats, riskEvents>>

(* A stop, a target, a flatten or a liquidation closes the lot. *)
Exit ==
  /\ exposed
  /\ InBounds(balance + open - Fee)
  /\ exposed' = FALSE
  /\ open' = 0
  /\ balance' = balance + open - Fee
  /\ UNCHANGED <<config, rule, resting, today, dayStats, riskEvents>>

(* The newest quote the market shows belongs to the next trading date. *)
NextDay ==
  /\ today < MaxDay
  /\ today' = today + 1
  /\ UNCHANGED <<config, rule, balance, resting, exposed, open, dayStats, riskEvents>>

(* rulesLocked: mark the account, apply the rules, persist the state and   *)
(* the row of the day that closed in one transaction, report a new breach, *)
(* and cancel what is working when the breach flattens.                    *)
RecordEquityAtRoll(stats, s, mark) == \* mutant: the day closes at its equity
  IF s.date = None \/ s.date = mark.date THEN stats
  ELSE [stats EXCEPT ![s.date] =
          [from |-> s.dayStart, to |-> Equity(mark),
           counted |-> ClosedDay(config, s, mark).counted]]

RecordClosedDay(stats, s, mark) ==
  IF s.date = None \/ s.date = mark.date THEN stats
  ELSE [stats EXCEPT ![s.date] =
          [from |-> IF stats[s.date] = None THEN s.dayStart ELSE stats[s.date].from,
           to |-> mark.balance, counted |-> ClosedDay(config, s, mark).counted]]

Evaluate ==
  LET next == ApplyRules(config, rule, Mark)
      breach == NewBreach(config, rule, Mark)
  IN /\ rule' = next
     /\ dayStats' = RecordClosedDay(dayStats, rule, Mark)
     /\ riskEvents' = IF breach = None THEN riskEvents
                      ELSE riskEvents \cup {breach}
     /\ resting' = (resting /\ ~(next.status \in {"FAILED", "LOCKED"} /\ config.flattenOnBreach))
     /\ UNCHANGED <<config, balance, exposed, open, today>>

Next ==
  \/ Submit \/ Cancel \/ Enter \/ MarketMoves \/ Exit \/ NextDay \/ Evaluate

(* The valuation timer evaluates locked, exposed and stale accounts every  *)
(* second, and trading dates keep coming; nothing obliges the trader.      *)
Spec == Init /\ [][Next]_vars /\ WF_vars(Evaluate) /\ WF_vars(NextDay)
-------------------------------------------------------------------------------
(* A drawdown buffer never gives ground back: the floor only ever rises    *)
(* (advanceDrawdown, rollTradingDay).                                      *)
FloorNeverLowers == [][rule'.floor >= rule.floor]_vars

(* Once a trailing floor has reached its lock it stops: it never passes    *)
(* the starting balance plus trailingLockAt, however high equity went.     *)
FloorStopsAtLock ==
  config.trailLock # None => rule.floor <= config.start + config.trailLock

(* A failed account stays failed, and keeps the reason that ended it,      *)
(* through day rolls, recoveries and profit.                               *)
FailedForever ==
  [][rule.status = "FAILED" =>
       rule'.status = "FAILED" /\ rule'.failedReason = rule.failedReason]_vars

(* Between two day rolls an end-of-day trailing floor stands still:        *)
(* intraday unrealized profit alone never moves it.                        *)
EodFloorOnlyMovesAtRoll ==
  [][config.drawdown = "EOD_TRAILING" /\ rule'.date = rule.date
       => rule'.floor = rule.floor]_vars

(* A statement the platform hands out: the days the account has been       *)
(* credited with are exactly the daily rows marked as counted, and the     *)
(* rows' results add up from the starting balance to the current day's     *)
(* starting balance, whatever was filled, skipped or retried in between.   *)
ClosedDays == {d \in Days : dayStats[d] # None}
DaysAgreeWithStats ==
  rule.days = Cardinality({d \in ClosedDays : dayStats[d].counted})
StatsAreContinuous ==
  \A d \in ClosedDays :
    LET later == {e \in ClosedDays : e > d} IN
    IF later = {} THEN dayStats[d].to = rule.dayStart
    ELSE dayStats[d].to = dayStats[CHOOSE e \in later : \A f \in later : e <= f].from
StatementsAddUp == DaysAgreeWithStats /\ StatsAreContinuous

(* Every evaluation of a surviving account leaves it room: its equity is   *)
(* above the floor it was just measured against, within the loss that the  *)
(* highest equity so far permits, and inside the daily limit unless it was *)
(* locked for the day.                                                     *)
SurvivorsHaveRoom ==
  [][Evaluate /\ rule'.status # "FAILED" /\ config.maxLoss > 0 =>
       /\ Equity(Mark) > rule'.floor
       /\ config.drawdown = "INTRADAY_TRAILING" /\ config.trailLock = None
            => rule'.hwm - Equity(Mark) < config.maxLoss
       /\ config.dailyLimit # None /\ rule'.status # "LOCKED"
            => rule'.dayStartEquity - Equity(Mark) < config.dailyLimit]_vars

(* A passed evaluation was earned: the minimum trading days and winning    *)
(* days it needed are there in the daily statistics, not only in the       *)
(* account's own counters.                                                 *)
PassedIsEarned ==
  rule.status = "PASSED" =>
    /\ Cardinality({d \in ClosedDays : dayStats[d].counted}) >= config.minDays
    /\ Cardinality({d \in ClosedDays : /\ dayStats[d].counted
                                        /\ dayStats[d].to - dayStats[d].from >= config.minWinPnl})
         >= config.minWinDays

(* Trading stops for the rest of the day: a locked account leaves LOCKED   *)
(* only by failing or by the date reaching the end of its lockout.         *)
LockedForTheDay ==
  [][rule.status = "LOCKED" /\ ~LockExpired(rule, today) =>
       rule'.status \in {"LOCKED", "FAILED"}]_vars

(* What evaluateRules keeps of that: before its date a lockout is lifted by *)
(* the profit target alone.  No recovery short of it, new date, skipped     *)
(* evaluation or order of fills does; and not even the target does while    *)
(* the equity is down by the limit since the day it is then measured from.  *)
LiftedByTarget ==
  /\ rule'.status \in {"GOAL_REACHED", "PASSED"}
  /\ ProfitTargetMet(config, balance)
  /\ rule'.dayStartEquity - Equity(Mark) < config.dailyLimit
LockoutLiftedOnlyAtTarget ==
  [][rule.status = "LOCKED" /\ ~LockExpired(rule, today) =>
       rule'.status \in {"LOCKED", "FAILED"} \/ LiftedByTarget]_vars

(* A lockout is temporary: a locked, flat account is eventually released   *)
(* when another trading date comes.                                        *)
LockoutEnds ==
  (rule.status = "LOCKED" /\ ~exposed /\ today < MaxDay) ~> (rule.status # "LOCKED")

(* A lockout is for one day: an evaluation on a later date than the one the *)
(* account was locked on lifts it, unless the loss since that date began    *)
(* locks it anew, and then until the date after.                            *)
RelockedAnew ==
  /\ config.dailyLimit # None
  /\ rule'.dayStartEquity - Equity(Mark) >= config.dailyLimit
  /\ rule'.lockedUntil = today + 1
LockoutEndsWithItsDay ==
  [][Evaluate /\ rule.status = "LOCKED" /\ today > rule.date
       => rule'.status # "LOCKED" \/ RelockedAnew]_vars

(* Every rule that ends an account leaves a risk event saying so.          *)
FailureIsRecorded ==
  rule.status = "FAILED" =>
    <<rule.failedReason, "FAILED">> \in riskEvents

(* The end-of-day floor follows the balances days closed at, and nothing   *)
(* else: max over closes of min(close - maxLoss, start + trailingLockAt).  *)
EodFloorFollowsCloses ==
  config.drawdown = "EOD_TRAILING" /\ rule.floor > config.start - config.maxLoss =>
    \E d \in ClosedDays : rule.floor <= FloorFor(config, dayStats[d].to)
===============================================================================
