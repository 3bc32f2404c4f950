------------------------------ MODULE Programmes ------------------------------
(***************************************************************************)
(* Small programmes the model-checking modules put accounts on.  The       *)
(* amounts are units; what matters is which rules are on and how they      *)
(* compare, not their size.                                                *)
(***************************************************************************)
EXTENDS RuleEngine

(* The terms every small programme starts from. *)
BaseTerms ==
  [start |-> 0, maxLoss |-> 3, drawdown |-> "STATIC", trailLock |-> None,
   dailyLimit |-> None, dailyPolicy |-> "LOCK_DAY", target |-> 0,
   consistency |-> None, percent |-> 50, minDays |-> 0, minWinDays |-> 0,
   maxDays |-> None, minPnlToCount |-> 0, minWinPnl |-> 1,
   flattenOnBreach |-> TRUE]

(* Funded accounts: every drawdown type, with and without a trail lock and *)
(* a daily limit, and no profit target.                                    *)
FundedTerms ==
  {[BaseTerms EXCEPT !.drawdown = d, !.trailLock = l, !.dailyLimit = lim] :
     d \in DrawdownType, l \in {None, 0}, lim \in {None, 2}}

(* Evaluation accounts: a profit target, minimum days, and a consistency   *)
(* rule, on a trailing drawdown.                                           *)
EvaluationTerms ==
  {[BaseTerms EXCEPT !.drawdown = d, !.target = 2, !.trailLock = 0,
                     !.minDays = 1, !.minWinDays = 1, !.consistency = k,
                     !.maxDays = m, !.flattenOnBreach = (m = None)] :
     d \in {"INTRADAY_TRAILING", "EOD_TRAILING"},
     k \in {None, "BEST_DAY_OVER_TOTAL"}, m \in {None, 1}}

(* The shapes of the templates the platform is seeded with (db/seed.ts): a *)
(* profit target beside a daily limit that locks for the day, a            *)
(* consistency rule and minimum days, under each drawdown.                 *)
SeededTerms ==
  LET seeded == [BaseTerms EXCEPT !.target = 2, !.dailyLimit = 1, !.minDays = 1,
                                  !.consistency = "BEST_DAY_OVER_TOTAL"]
  IN {[seeded EXCEPT !.drawdown = "EOD_TRAILING", !.trailLock = 3],
      [seeded EXCEPT !.drawdown = "INTRADAY_TRAILING", !.maxDays = 2, !.percent = 40],
      [seeded EXCEPT !.minDays = 0, !.consistency = None]}

(* All of them, for the run that has every rule on some account. *)
AllTerms == FundedTerms \cup EvaluationTerms \cup SeededTerms

(* A LOCK_DAY limit, with and without a profit target beside it. *)
DailyLimitWithTarget ==
  {[BaseTerms EXCEPT !.target = 2, !.dailyLimit = 1, !.maxLoss = 3]}
DailyLimitTerms == {[BaseTerms EXCEPT !.dailyLimit = 2, !.maxLoss = 3]}
EodTerms == {[BaseTerms EXCEPT !.drawdown = "EOD_TRAILING"]}
===============================================================================
