------------------------ MODULE MCAccountRulesHistory -------------------------
(***************************************************************************)
(* AccountRules with a history variable: the balance the account had when  *)
(* the exchange's current trading date began.  No code keeps it; it is     *)
(* what a day's loss is measured from when the property below is stated.   *)
(***************************************************************************)
EXTENDS AccountRules, Programmes

VARIABLE opening

historyVars == <<vars, opening>>

HistoryInit == Init /\ opening = config.start
HistoryNext == Next /\ opening' = IF today' # today THEN balance ELSE opening
HistorySpec == HistoryInit /\ [][HistoryNext]_historyVars
-------------------------------------------------------------------------------
(* A mark is judged against the limits of the date it belongs to: once an *)
(* account has lost its daily limit since the date began, an evaluation on *)
(* that date locks or fails it (an account the rules have seen before).    *)
DailyLossIsChargedToItsDay ==
  [][Evaluate /\ rule.date # None /\ config.dailyLimit # None
       /\ opening - Equity(Mark) >= config.dailyLimit
       => rule'.status \in {"LOCKED", "FAILED"}]_historyVars
===============================================================================
