------------------------------- MODULE Payouts -------------------------------
(***************************************************************************)
(* The payout ledger of one funded account (platform/payouts.ts with the   *)
(* decisions of payout-core.ts): a request, its approval (the one debit of *)
(* the balance), its settlement or its reversal (failPayout of             *)
(* payout-operations.ts), the qualification cycles, and the trading days   *)
(* that the engine closes beside them.                                     *)
(*                                                                         *)
(* A transaction that takes the account's advisory lock, or the rows it    *)
(* decides on FOR UPDATE, is one action.  The engine's pass over the rules *)
(* loads the account in one statement and writes it in a later one, under  *)
(* the advisory lock: it is two actions, and only what does not ask for    *)
(* that lock comes between them.                                           *)
(*                                                                         *)
(* Money is counted in units of the smallest win, as profit: the balance   *)
(* less the starting balance.                                              *)
(***************************************************************************)
EXTENDS Integers, Sequences, FiniteSets, FiniteSetsExt, Functions

CONSTANTS
  Requests,          \* ids of payout requests
  Policies,          \* the payout policies to choose from
  Amounts,           \* the gross amounts a trader asks for
  Wins,              \* what one trade may add to the balance
  Record,            \* net result of each day closed before the first step
  ActivatedOn,       \* the account's activation date, in UTC
  LastDay,           \* bound: the last trading date
  Profits,           \* bound: trading stays in this range
  MAX_PAYOUT_CYCLES

\* What the recorded days have made.
Earned == SumFunction(Record)

ASSUME PayoutAssumption ==
  /\ IsFiniteSet(Requests)
  /\ LastDay \in Nat /\ ActivatedOn \in Nat /\ MAX_PAYOUT_CYCLES \in Nat
  /\ Record \in Seq(Int) /\ Len(Record) < LastDay /\ Earned \in Int
  /\ Amounts \subseteq Nat \ {0} /\ Wins \subseteq Int /\ Profits \subseteq Int

VARIABLES
  policy,    \* payoutRules of the account's product version
  account,   \* accounts: profit, dayStart, date (currentTradeDate), status, held
  today,     \* the exchange's trading date
  utc,       \* the server's UTC date, a day behind in the evening session
  stats,     \* daily_account_stats: the days closed so far
  cycles,    \* payout_cycles, by ordinal
  requests,  \* payout_requests
  ledger,    \* payout_ledger
  pass,      \* what the engine's pass over the rules has loaded
  \* history, read by no action
  traded,    \* what trading has made since the day was rolled
  results,   \* what trading made on each closed day
  spent      \* the winning days that each approval counted

accountVars == <<account, today, utc, stats, pass, traded, results>>
payoutVars == <<policy, account, today, utc, stats, cycles, requests, ledger,
                pass, traded, results, spent>>

Dates == 0..LastDay
PayoutState == {"REQUESTED", "UNDER_REVIEW", "APPROVED", "PROCESSING",
                "PAID", "REJECTED", "CANCELLED", "FAILED"}
ALLOWED ==
  [REQUESTED    |-> {"UNDER_REVIEW", "APPROVED", "REJECTED", "CANCELLED"},
   UNDER_REVIEW |-> {"APPROVED", "REJECTED", "CANCELLED"},
   APPROVED     |-> {"PROCESSING", "FAILED"},
   PROCESSING   |-> {"PAID", "FAILED"},
   PAID |-> {}, REJECTED |-> {}, CANCELLED |-> {}, FAILED |-> {}]
NON_TERMINAL == {"REQUESTED", "UNDER_REVIEW", "APPROVED", "PROCESSING"}
Standing == {"APPROVED", "PROCESSING", "PAID"}

\* A request nobody has made yet; no row exists for it.
NotMade == [state |-> "NONE", gross |-> 0, ordinal |-> 0, cycle |-> 0,
            held |-> FALSE, qualifying |-> 0]
NoPass == [on |-> FALSE, profit |-> 0, dayStart |-> 0, date |-> 0, mark |-> 0]

In(states) == {r \in Requests : requests[r].state \in states}
Entry(r, type) == [request |-> r, type |-> type, amount |-> requests[r].gross]
Has(r, type) == \E entry \in ledger : entry.request = r /\ entry.type = type

-------------------------------------------------------------------------------
(* Eligibility *)

grossWithdrawable(profit) == IF profit > policy.buffer THEN profit - policy.buffer ELSE 0

capForOrdinal(ordinal) ==
  policy.caps[IF ordinal > Len(policy.caps) THEN Len(policy.caps) ELSE ordinal]

currentCycle == IF cycles = <<>> THEN [startedOn |-> 0, closed |-> TRUE, unlocked |-> FALSE]
                ELSE cycles[Len(cycles)]

QualifyingDays ==
  {s.date : s \in {d \in stats : d.net >= policy.threshold /\ d.date > currentCycle.startedOn}}

EnoughDays == Cardinality(QualifyingDays) >= policy.days

DailyUnlocked ==
  /\ policy.model = "DAILY"
  /\ currentCycle.unlocked \/ (EnoughDays /\ account.profit >= policy.buffer)

\* payoutConsistencyThreshold in percent, 0 where the policy has none.
Consistent ==
  policy.consistency = 0 \/ account.profit <= 0 \/
  \A s \in stats : s.net * 100 <= policy.consistency * account.profit

PendingEvenItself(but) == In(NON_TERMINAL) # {} \* mutant: finds the request itself
pendingRequestExists(but) == In(NON_TERMINAL) \ but # {}

\* The request that is decided, but, does not stand in its own way.
Eligible(but) ==
  /\ ~account.held
  /\ ~pendingRequestExists(but)
  /\ Cardinality(In(Standing)) < MAX_PAYOUT_CYCLES
  /\ IF policy.model = "DAILY"
     THEN /\ DailyUnlocked
          /\ \A r \in In(Standing) \ but : account.profit > requests[r].qualifying
     ELSE EnoughDays /\ Consistent
  /\ grossWithdrawable(account.profit) >= policy.min

resolvePayoutRequest(but, gross, ordinal) ==
  /\ Eligible(but)
  /\ gross >= policy.min
  /\ gross <= capForOrdinal(ordinal)
  /\ gross <= grossWithdrawable(account.profit) \div 2

\* mutant: counts every row
OrdinalOfRows == Cardinality({r \in Requests : requests[r].state # "NONE"}) + 1
NextOrdinal == Cardinality(In(Standing)) + 1

-------------------------------------------------------------------------------
(* The trader and the engine *)

LockFree == ~pass.on

\* A fill's realized result; the projection adds it to the balance.
Trade(win) ==
  /\ LockFree
  /\ account.profit + win \in Profits
  /\ account' = [account EXCEPT !.profit = @ + win]
  /\ traded' = traded + win
  /\ UNCHANGED <<policy, today, utc, stats, cycles, requests, ledger, pass, results, spent>>

\* rulesLocked loads the account and marks it with the trading date.
LoadRow ==
  /\ LockFree
  /\ pass' = [on |-> TRUE, profit |-> account.profit, dayStart |-> account.dayStart,
              date |-> account.date, mark |-> today]
  /\ UNCHANGED <<policy, account, today, utc, stats, cycles, requests, ledger,
                 traded, results, spent>>

\* The closed day, recorded with the row that was loaded.
ClosedDay == [date |-> pass.date, net |-> pass.profit - pass.dayStart]

\* A day has ended: it is recorded and the next one starts from the balance.
RollDay ==
  /\ pass.on /\ pass.mark # pass.date
  /\ stats' = {s \in stats : s.date # pass.date} \cup {ClosedDay}
  /\ account' = [account EXCEPT !.dayStart = pass.profit, !.date = pass.mark, !.status = "ACTIVE"]
  /\ results' = results \cup {[date |-> pass.date, net |-> traded]}
  /\ traded' = 0
  /\ pass' = NoPass
  /\ UNCHANGED <<policy, today, utc, cycles, requests, ledger, spent>>

\* The same day: the rule state is written whole, or not at all when the
\* marks of the pass changed none of it.
WriteRow ==
  /\ pass.on /\ pass.mark = pass.date
  /\ \/ account' = [account EXCEPT !.dayStart = pass.dayStart, !.status = "ACTIVE"]
     \/ account' = account
  /\ pass' = NoPass
  /\ UNCHANGED <<policy, today, utc, stats, cycles, requests, ledger, traded, results, spent>>

\* The exchange's date moves in the evening, UTC's at midnight.
NextSession ==
  /\ utc = today /\ today < LastDay
  /\ today' = today + 1
  /\ UNCHANGED <<policy, account, utc, stats, cycles, requests, ledger, pass, traded, results, spent>>

Midnight ==
  /\ utc < today
  /\ utc' = today
  /\ UNCHANGED <<policy, account, today, stats, cycles, requests, ledger, pass, traded, results, spent>>

\* An account hold or an enforcement hold, placed or lifted.
ToggleHold ==
  /\ LockFree
  /\ account' = [account EXCEPT !.held = ~@]
  /\ UNCHANGED <<policy, today, utc, stats, cycles, requests, ledger, pass, traded, results, spent>>

-------------------------------------------------------------------------------
(* Requests *)

\* ensureCycle, which also keeps a DAILY account unlocked.
ensureCycle ==
  IF currentCycle.closed
  THEN Append(cycles, [startedOn |-> ActivatedOn, closed |-> FALSE, unlocked |-> DailyUnlocked])
  ELSE [cycles EXCEPT ![Len(cycles)].unlocked = @ \/ DailyUnlocked]

requestPayout(r, gross) ==
  /\ LockFree
  /\ requests[r].state = "NONE"
  /\ resolvePayoutRequest({}, gross, NextOrdinal)
  /\ cycles' = ensureCycle
  /\ requests' = [requests EXCEPT ![r] =
       [NotMade EXCEPT !.state = "REQUESTED", !.gross = gross, !.ordinal = NextOrdinal,
                       !.cycle = Len(ensureCycle)]]
  /\ UNCHANGED <<policy, ledger, spent, accountVars>>

AdvanceFromYesterday(r) == \* mutant: the day counted stays in
  LET c == requests[r].cycle IN
    IF policy.model = "DAILY" \/ cycles[c].closed THEN cycles
    ELSE Append([cycles EXCEPT ![c].closed = TRUE],
                [startedOn |-> utc - 1, closed |-> FALSE, unlocked |-> FALSE])

\* The cycle that was paid out closes; the next counts days after today.
advanceCycleAfterPayout(r) ==
  LET c == requests[r].cycle IN
    IF policy.model = "DAILY" \/ cycles[c].closed THEN cycles
    ELSE Append([cycles EXCEPT ![c].closed = TRUE],
                [startedOn |-> utc, closed |-> FALSE, unlocked |-> FALSE])

Approvable(r) ==
  /\ "APPROVED" \in ALLOWED[requests[r].state]
  /\ ~requests[r].held
  /\ resolvePayoutRequest({r}, requests[r].gross, NextOrdinal)

\* mutant: the day's anchor stays behind
DebitedBalanceOnly(gross) == [account EXCEPT !.profit = @ - gross]
\* mutant: less is debited than booked
DebitedInPart(gross) == [account EXCEPT !.profit = @ - (gross \div 2), !.dayStart = @ - (gross \div 2)]

\* A withdrawal takes the day's anchors down with the balance.
Debited(gross) == [account EXCEPT !.profit = @ - gross, !.dayStart = @ - gross]
Credited(gross) == [account EXCEPT !.profit = @ + gross, !.dayStart = @ + gross]

ApproveSnapshotsAfter(r) == \* mutant: the balance after the debit qualifies
  /\ LockFree
  /\ requests[r].state # "NONE" /\ Approvable(r)
  /\ account' = Debited(requests[r].gross)
  /\ ledger' = ledger \cup {Entry(r, "DEBIT")}
  /\ requests' = [requests EXCEPT ![r].state = "APPROVED", ![r].qualifying = account'.profit]
  /\ cycles' = advanceCycleAfterPayout(r)
  /\ spent' = [spent EXCEPT ![r] = QualifyingDays]
  /\ UNCHANGED <<policy, today, utc, stats, pass, traded, results>>

approvePayout(r) ==
  /\ LockFree
  /\ requests[r].state # "NONE" /\ Approvable(r)
  /\ account' = Debited(requests[r].gross)
  /\ ledger' = ledger \cup {Entry(r, "DEBIT")}
  /\ requests' = [requests EXCEPT ![r].state = "APPROVED", ![r].qualifying = account.profit]
  /\ cycles' = advanceCycleAfterPayout(r)
  /\ spent' = [spent EXCEPT ![r] = QualifyingDays]
  /\ UNCHANGED <<policy, today, utc, stats, pass, traded, results>>

\* rejectPayout, cancelPayout and markProcessing.
simpleTransition(r, to) ==
  /\ requests[r].state # "NONE" /\ to \in ALLOWED[requests[r].state]
  /\ requests' = [requests EXCEPT ![r].state = to]
  /\ UNCHANGED <<policy, cycles, ledger, spent, accountVars>>

placeHold(r) ==
  /\ requests[r].state \in {"REQUESTED", "UNDER_REVIEW"}
  /\ requests' = [requests EXCEPT ![r].state = "UNDER_REVIEW", ![r].held = TRUE]
  /\ UNCHANGED <<policy, cycles, ledger, spent, accountVars>>

removeHold(r) ==
  /\ requests[r].held
  /\ requests' = [requests EXCEPT ![r].held = FALSE]
  /\ UNCHANGED <<policy, cycles, ledger, spent, accountVars>>

\* The settlement moves no balance; the last payout of an account completes it.
Settled(r) ==
  /\ requests' = [requests EXCEPT ![r].state = "PAID"]
  /\ ledger' = ledger \cup {Entry(r, "SETTLEMENT")}
  /\ account' = IF Cardinality(In({"PAID"})) + 1 >= MAX_PAYOUT_CYCLES
                THEN [account EXCEPT !.status = "COMPLETED"] ELSE account
  /\ UNCHANGED <<policy, today, utc, stats, cycles, pass, traded, results, spent>>

markPaid(r) == requests[r].state # "NONE" /\ "PAID" \in ALLOWED[requests[r].state] /\ Settled(r)

FailEvenPaid(r) == \* mutant: no test for PAID
  /\ requests[r].state \in Standing
  /\ requests' = [requests EXCEPT ![r].state = "FAILED"]
  /\ account' = Credited(requests[r].gross)
  /\ ledger' = ledger \cup {Entry(r, "REVERSAL")}
  /\ UNCHANGED <<policy, today, utc, stats, cycles, pass, traded, results, spent>>

\* The provider says that the money did not move: the debit is given back.
\* The request's and the account's rows are locked, the advisory lock is not
\* asked for: a reversal may fall between the two halves of a pass.
failPayout(r) ==
  /\ requests[r].state \in {"APPROVED", "PROCESSING"}
  /\ requests' = [requests EXCEPT ![r].state = "FAILED"]
  /\ IF Has(r, "REVERSAL") THEN UNCHANGED <<account, ledger>>
     ELSE /\ account' = Credited(requests[r].gross)
          /\ ledger' = ledger \cup {Entry(r, "REVERSAL")}
  /\ UNCHANGED <<policy, today, utc, stats, cycles, pass, traded, results, spent>>

-------------------------------------------------------------------------------

PayoutInit ==
  /\ policy \in Policies
  /\ stats = {[date |-> d, net |-> Record[d]] : d \in 1..Len(Record)}
  /\ results = stats
  /\ account = [profit |-> Earned, dayStart |-> Earned, date |-> Len(Record) + 1,
                status |-> "ACTIVE", held |-> FALSE]
  /\ today = Len(Record) + 1 /\ utc = today
  /\ cycles = <<>> /\ ledger = {} /\ pass = NoPass /\ traded = 0
  /\ requests = [r \in Requests |-> NotMade]
  /\ spent = [r \in Requests |-> {}]

Trading == \E win \in Wins : Trade(win)
Judging == LoadRow \/ RollDay \/ WriteRow
Clock == NextSession \/ Midnight
Asking == \E r \in Requests, gross \in Amounts : requestPayout(r, gross)
Deciding ==
  \E r \in Requests :
    \/ approvePayout(r) \/ placeHold(r) \/ removeHold(r)
    \/ \E to \in {"REJECTED", "CANCELLED"} : simpleTransition(r, to)
Settling ==
  \E r \in Requests : simpleTransition(r, "PROCESSING") \/ markPaid(r) \/ failPayout(r)

PayoutNext ==
  Trading \/ Judging \/ Clock \/ ToggleHold \/ Asking \/ Deciding \/ Settling

PayoutSpec == PayoutInit /\ [][PayoutNext]_payoutVars

-------------------------------------------------------------------------------

RequestRow == [state : PayoutState \cup {"NONE"}, gross : Nat, ordinal : Nat, cycle : Nat,
               held : BOOLEAN, qualifying : Int]
CycleRow == [startedOn : Nat, closed : BOOLEAN, unlocked : BOOLEAN]
DayRow == [date : Dates, net : Int]

PayoutTypeOK ==
  /\ policy \in Policies
  /\ account \in [profit : Int, dayStart : Int, date : Dates,
                  status : {"ACTIVE", "COMPLETED"}, held : BOOLEAN]
  /\ today \in Dates /\ utc \in Dates
  /\ stats \subseteq DayRow /\ results \subseteq DayRow
  /\ cycles \in Seq(CycleRow)
  /\ requests \in [Requests -> RequestRow]
  /\ ledger \subseteq [request : Requests, type : {"DEBIT", "SETTLEMENT", "REVERSAL"}, amount : Nat]
  /\ pass \in [on : BOOLEAN, profit : Int, dayStart : Int, date : Dates, mark : Dates]
  /\ traded \in Int
  /\ spent \in [Requests -> SUBSET Dates]

(* The ledger tells the whole story of a request: it was debited exactly   *)
(* when it stands or failed, given back exactly when it failed, settled    *)
(* exactly when it is PAID, each once and for the amount asked             *)
(* (approvePayout, markPaid, failPayout, whoever calls them and however    *)
(* often).                                                                 *)
LedgerAgrees ==
  \A r \in Requests :
    LET s == requests[r].state IN
    /\ {entry.type : entry \in {e \in ledger : e.request = r}} =
         CASE s = "PAID" -> {"DEBIT", "SETTLEMENT"}
           [] s = "FAILED" -> {"DEBIT", "REVERSAL"}
           [] s \in {"APPROVED", "PROCESSING"} -> {"DEBIT"}
           [] OTHER -> {}
    /\ \A entry \in ledger : entry.request = r => entry.amount = requests[r].gross

(* No money appears or vanishes: the profit is what trading made, less     *)
(* what was debited, plus what was given back, over every closed day and   *)
(* the current one.                                                        *)
Sum(type) == SumFunction([e \in {entry \in ledger : entry.type = type} |-> e.amount])
Traded == SumFunction([s \in results |-> s.net]) + traded
BooksBalance == account.profit = Traded - Sum("DEBIT") + Sum("REVERSAL")

(* A withdrawal, or its return, is never mistaken for a day's trading      *)
(* (payouts.ts:431, payout-operations.ts:606): the current day's net and   *)
(* every recorded day's are what trading made.                             *)
DayNet == account.profit - account.dayStart
DaysAreTrading == DayNet = traded /\ stats = results

(* What is left of that when reversals fall inside passes: a withdrawal is *)
(* never mistaken for a loss, so no day shows less than trading made of    *)
(* it; and what days show too much is money that failed payouts gave back, *)
(* each in one day at most, whatever rolls, skipped writes, approvals and  *)
(* further reversals come between.  Until a payout fails the days are      *)
(* exact.                                                                  *)
RecordedNet == SumFunction([s \in stats |-> s.net])
NoDayShowsLess ==
  DayNet >= traded /\ \A r \in results : \E s \in stats : s.date = r.date /\ s.net >= r.net
ReversalsShowOnce == RecordedNet + DayNet <= Traded + Sum("REVERSAL")
DaysMisreadOnlyReversals == NoDayShowsLess /\ ReversalsShowOnce

(* The payouts that stand are numbered from one without a gap, and the     *)
(* next request bears the next number, although a failed payout gives its  *)
(* number back: the progressive caps go by it.                             *)
OrdinalsAreDense ==
  LET standing == In(Standing) IN
  /\ {requests[r].ordinal : r \in standing} = 1..Cardinality(standing)
  /\ \A r \in In({"REQUESTED", "UNDER_REVIEW"}) : requests[r].ordinal = Cardinality(standing) + 1

(* Each payout of a DAILY account qualified above every earlier one that   *)
(* stands, failures in between included (payouts.ts:160).                  *)
LaterQualifiesHigher ==
  policy.model = "DAILY" =>
    \A r, s \in In(Standing) :
      requests[r].ordinal < requests[s].ordinal => requests[r].qualifying < requests[s].qualifying

(* A winning day earns one payout: no two approvals counted the same day,  *)
(* whatever UTC date the new cycle was opened on (payouts.ts:523).         *)
WinningDaySpentOnce ==
  policy.model # "DAILY" => \A r, s \in Requests : r # s => spent[r] \cap spent[s] = {}

(* A request that is accepted could be approved as it stands: the two      *)
(* handlers agree on eligibility, the request itself and the cycle it      *)
(* opens included.                                                         *)
Accepted(r) == requests[r].state = "NONE" /\ requests'[r].state = "REQUESTED"
AcceptedAlwaysApprovable == [][\A r \in Requests : Accepted(r) => Approvable(r)']_payoutVars

(* They agree for every request but one: the request that opens the first  *)
(* cycle is judged by the winning days of the activation date too, and its *)
(* approval only by those after it (payouts.ts:378, :415).                 *)
NeedsActivationDay ==
  /\ currentCycle.closed /\ policy.model # "DAILY"
  /\ ~(Cardinality({d \in QualifyingDays : d > ActivatedOn}) >= policy.days)
AcceptedIsApprovable ==
  [][\A r \in Requests : Accepted(r) /\ ~NeedsActivationDay => Approvable(r)']_payoutVars

(* A payout that failed leaves the trader where it found him: its winning  *)
(* days count again.                                                       *)
FailureGivesDaysBack ==
  \A r \in In({"FAILED"}) : \A d \in spent[r] :
    In(NON_TERMINAL \cup {"PAID"}) = {} => d \in QualifyingDays
=============================================================================
