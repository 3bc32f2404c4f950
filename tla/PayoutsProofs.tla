---------------------------- MODULE PayoutsProofs ----------------------------
(* What is proved of Payouts, for any number of requests, any policies,    *)
(* amounts and days.                                                       *)
EXTENDS PayoutOperations, FiniteSetTheorems, WellFoundedInduction, TLAPS

-------------------------------------------------------------------------------
(* Sums over finite sets *)

\* The recursion of a sum, unfolded: the function that solves its equation.
First(U) == CHOOSE x \in U : TRUE
Solves(g, f, T) ==
  g = [U \in SUBSET T |-> IF U = {} THEN 0 ELSE f[First(U)] + g[U \ {First(U)}]]
Solution(f, T) == CHOOSE g : Solves(g, f, T)

LEMMA SumUnfolds ==
  ASSUME NEW f, NEW T PROVE SumFunctionOnSet(f, T) = Solution(f, T)[T]
BY DEF SumFunctionOnSet, FoldFunctionOnSet, MapThenFoldSet, Solution, Solves, First

\* Among finite sets there is one that contains no other of them.
LEMMA SmallestSet ==
  ASSUME NEW T, IsFiniteSet(T), NEW B \in SUBSET (SUBSET T), B # {}
  PROVE  \E U \in B : \A V \in SUBSET U : V # U => V \notin B
<1>1. B \subseteq FiniteSubsetsOf(T)
  BY FS_Subset DEF FiniteSubsetsOf
<1>2. PICK U \in B : \A V \in B : ~(<<V, U>> \in StrictSubsetOrdering(T))
  BY <1>1, FS_StrictSubsetOrderingWellFounded, WFMin, Zenon
<1>3. ASSUME NEW V \in SUBSET U, V # U, V \in B PROVE FALSE
  BY <1>1, <1>2, <1>3 DEF StrictSubsetOrdering
<1>. QED BY <1>3

LEMMA FirstIsIn == ASSUME NEW U, U # {} PROVE First(U) \in U
BY DEF First

LEMMA SolutionsAgree ==
  ASSUME NEW W, IsFiniteSet(W), NEW f, NEW e, \A x \in W : f[x] = e[x],
         NEW T, NEW g, W \subseteq T, Solves(g, f, T),
         NEW R, NEW h, W \subseteq R, Solves(h, e, R)
  PROVE  g[W] = h[W]
<1>. DEFINE B == {U \in SUBSET W : g[U] # h[U]}
<1>. SUFFICES ASSUME B # {} PROVE FALSE
  OBVIOUS
<1>2. PICK U \in B : \A V \in SUBSET U : V # U => V \notin B
  <2>1. B \in SUBSET (SUBSET W)
    OBVIOUS
  <2>. HIDE DEF B
  <2>. QED BY <2>1, SmallestSet
<1>3. U \in SUBSET T /\ U \in SUBSET R /\ g[U] # h[U]
  OBVIOUS
<1>4. /\ g[U] = IF U = {} THEN 0 ELSE f[First(U)] + g[U \ {First(U)}]
      /\ h[U] = IF U = {} THEN 0 ELSE e[First(U)] + h[U \ {First(U)}]
  BY <1>3 DEF Solves
<1>5. U # {}
  BY <1>3, <1>4
<1>6. First(U) \in U /\ f[First(U)] = e[First(U)]
  BY <1>3, <1>5, FirstIsIn
<1>7. g[U \ {First(U)}] = h[U \ {First(U)}]
  BY <1>2, <1>6
<1>. QED BY <1>3, <1>4, <1>6, <1>7

LEMMA SolutionExists ==
  ASSUME NEW T, IsFiniteSet(T), NEW f
  PROVE  Solves(Solution(f, T), f, T)
<1>. DEFINE B == {U \in SUBSET T : \A g : ~Solves(g, f, U)}
<1>1. SUFFICES B = {}
  BY DEF Solution
<1>2. SUFFICES ASSUME B # {} PROVE FALSE
  OBVIOUS
<1>3. PICK U \in B : \A V \in SUBSET U : V # U => V \notin B
  <2>1. B \in SUBSET (SUBSET T)
    OBVIOUS
  <2>. HIDE DEF B
  <2>. QED BY <1>2, <2>1, SmallestSet
<1>4. \A V \in SUBSET U : V # U => Solves(Solution(f, V), f, V)
  BY <1>3 DEF Solution
<1>. DEFINE Value(V) == Solution(f, V)[V]
            Total(V) == IF V = {} THEN 0 ELSE f[First(V)] + Value(V \ {First(V)})
            g == [V \in SUBSET U |-> Total(V)]
<1>5. \A V \in SUBSET U : V # U => Value(V) = Total(V)
  <2>. TAKE V \in SUBSET U
  <2>. HAVE V # U
  <2>1. Solves(Solution(f, V), f, V)
    BY <1>4
  <2>2. CASE V = {}
    BY <2>1, <2>2 DEF Solves
  <2>3. CASE V # {}
    <3>1. First(V) \in V
      BY <2>3, FirstIsIn
    <3>. DEFINE W == V \ {First(V)}
    <3>2. W \in SUBSET V /\ W \in SUBSET U /\ W # U /\ IsFiniteSet(V)
      BY <3>1, FS_Subset
    <3>3. Solves(Solution(f, W), f, W)
      BY <1>4, <3>2
    <3>4. IsFiniteSet(W) /\ W \subseteq W /\ \A x \in W : f[x] = f[x]
      BY <3>2, FS_Subset
    <3>5. Solution(f, V)[W] = Solution(f, W)[W]
      BY <2>1, <3>2, <3>3, <3>4, SolutionsAgree
    <3>6. Solution(f, V)[V] = f[First(V)] + Solution(f, V)[W]
      BY <2>1, <2>3 DEF Solves
    <3>. QED BY <2>3, <3>5, <3>6
  <2>. QED BY <2>2, <2>3
<1>6. \A V \in SUBSET U : g[V] = IF V = {} THEN 0 ELSE f[First(V)] + g[V \ {First(V)}]
  <2>. TAKE V \in SUBSET U
  <2>1. CASE V = {}
    BY <2>1
  <2>2. CASE V # {}
    <3>1. First(V) \in V
      BY <2>2, FirstIsIn
    <3>2. V \ {First(V)} \in SUBSET U /\ V \ {First(V)} # U
      BY <3>1
    <3>3. g[V \ {First(V)}] = Value(V \ {First(V)})
      BY <1>5, <3>2
    <3>. HIDE DEF Value
    <3>. QED BY <2>2, <3>3
  <2>. QED BY <2>1, <2>2
<1>7. Solves(g, f, U)
  <2>1. g = [V \in SUBSET U |-> g[V]]
    OBVIOUS
  <2>. HIDE DEF g
  <2>. QED BY <1>6, <2>1 DEF Solves
<1>. HIDE DEF g
<1>. QED BY <1>3, <1>7

(* What a sum does: the community module's recursive definition says so of *)
(* the element that it chooses, this lemma of every element.               *)
LEMMA SumOfNone == ASSUME NEW f PROVE SumFunctionOnSet(f, {}) = 0
<1>1. Solves(Solution(f, {}), f, {})
  BY SolutionExists, FS_EmptySet
<1>. QED BY <1>1, SumUnfolds DEF Solves

LEMMA SumIsInt ==
  ASSUME NEW T, IsFiniteSet(T), NEW f, \A x \in T : f[x] \in Int
  PROVE  SumFunctionOnSet(f, T) \in Int
<1>. DEFINE g == Solution(f, T)
            B == {U \in SUBSET T : g[U] \notin Int}
<1>1. Solves(g, f, T)
  BY SolutionExists
<1>. HIDE DEF g
<1>. SUFFICES ASSUME B # {} PROVE FALSE
  BY SumUnfolds DEF g
<1>2. PICK U \in B : \A V \in SUBSET U : V # U => V \notin B
  <2>1. B \in SUBSET (SUBSET T)
    OBVIOUS
  <2>. HIDE DEF B
  <2>. QED BY <2>1, SmallestSet
<1>3. g[U] = IF U = {} THEN 0 ELSE f[First(U)] + g[U \ {First(U)}]
  BY <1>1 DEF Solves
<1>4. U # {} /\ First(U) \in U
  BY <1>3, FirstIsIn
<1>5. g[U \ {First(U)}] \in Int
  BY <1>2, <1>4
<1>. QED BY <1>3, <1>4, <1>5

LEMMA SumOfOneMore ==
  ASSUME NEW T, IsFiniteSet(T), NEW f, \A y \in T : f[y] \in Int, NEW x \in T
  PROVE  SumFunctionOnSet(f, T) = f[x] + SumFunctionOnSet(f, T \ {x})
<1>. DEFINE g == Solution(f, T)
            B == {U \in SUBSET T : \E y \in U : g[U] # f[y] + g[U \ {y}]}
<1>1. Solves(g, f, T)
  BY SolutionExists
<1>2. \A U \in SUBSET T : SumFunctionOnSet(f, U) = g[U]
  <2>. TAKE U \in SUBSET T
  <2>1. IsFiniteSet(U) /\ U \subseteq T /\ U \subseteq U
    BY FS_Subset
  <2>2. Solves(Solution(f, U), f, U)
    BY <2>1, SolutionExists
  <2>. HIDE DEF g
  <2>4. Solution(f, U)[U] = g[U]
    BY <1>1, <2>1, <2>2, SolutionsAgree
  <2>. QED BY <2>4, SumUnfolds
<1>. HIDE DEF g
<1>3. \A U \in SUBSET T : g[U] \in Int
  <2>. TAKE U \in SUBSET T
  <2>. QED BY <1>2, SumIsInt, FS_Subset
<1>. SUFFICES ASSUME B # {} PROVE FALSE
  <2>1. T \in SUBSET T /\ T \ {x} \in SUBSET T /\ T \notin B
    OBVIOUS
  <2>2. g[T] = f[x] + g[T \ {x}]
    BY <2>1
  <2>. QED BY <1>2, <2>1, <2>2
<1>4. PICK U \in B : \A V \in SUBSET U : V # U => V \notin B
  <2>1. B \in SUBSET (SUBSET T)
    OBVIOUS
  <2>. HIDE DEF B
  <2>. QED BY <2>1, SmallestSet
<1>5. PICK y \in U : g[U] # f[y] + g[U \ {y}]
  OBVIOUS
<1>. DEFINE c == First(U)
<1>6. c \in U /\ g[U] = f[c] + g[U \ {c}]
  BY <1>1, FirstIsIn DEF Solves
<1>. HIDE DEF c
<1>7. c # y
  BY <1>5, <1>6
<1>8. g[U \ {c}] = f[y] + g[(U \ {c}) \ {y}]
  BY <1>4, <1>6, <1>7
<1>9. g[U \ {y}] = f[c] + g[(U \ {y}) \ {c}]
  BY <1>4, <1>6, <1>7
<1>10. (U \ {c}) \ {y} = (U \ {y}) \ {c}
  OBVIOUS
<1>11. f[c] \in Int /\ f[y] \in Int /\ g[(U \ {y}) \ {c}] \in Int
  BY <1>3, <1>6
<1>12. /\ g[U] = f[c] + (f[y] + g[(U \ {y}) \ {c}])
       /\ f[y] + g[U \ {y}] = f[y] + (f[c] + g[(U \ {y}) \ {c}])
  BY <1>6, <1>8, <1>9, <1>10
<1>. QED BY <1>5, <1>11, <1>12

LEMMA SumsAgree ==
  ASSUME NEW T, IsFiniteSet(T), NEW f, NEW e, \A x \in T : f[x] = e[x]
  PROVE  SumFunctionOnSet(f, T) = SumFunctionOnSet(e, T)
<1>1. Solves(Solution(f, T), f, T) /\ Solves(Solution(e, T), e, T)
  BY SolutionExists
<1>2. T \subseteq T
  OBVIOUS
<1>3. Solution(f, T)[T] = Solution(e, T)[T]
  BY <1>1, <1>2, SolutionsAgree
<1>. QED BY <1>3, SumUnfolds

-------------------------------------------------------------------------------

USE PayoutAssumption DEF PayoutAssumption, Dates

CycleShape == cycles \in Seq(CycleRow)

-------------------------------------------------------------------------------
(* Types *)

LEMMA CountIsNat ==
  ASSUME NEW S \in SUBSET Requests
  PROVE  IsFiniteSet(S) /\ Cardinality(S) \in Nat
BY FS_Subset, FS_CardinalityType

LEMMA OrdinalIsNat == NextOrdinal \in Nat
BY CountIsNat DEF NextOrdinal, In

LEMMA UnlockedIsBoolean == DailyUnlocked \in BOOLEAN
BY DEF DailyUnlocked

LEMMA CurrentCycleType ==
  ASSUME CycleShape
  PROVE  currentCycle \in CycleRow
<1>1. CASE cycles = <<>>
  BY <1>1 DEF currentCycle, CycleRow
<1>2. CASE cycles # <<>>
  BY <1>2 DEF currentCycle, CycleShape
<1>3. QED
  BY <1>1, <1>2

LEMMA RewrittenCycle ==
  ASSUME CycleShape, NEW c \in 1..Len(cycles), NEW row \in CycleRow
  PROVE  [cycles EXCEPT ![c] = row] \in Seq(CycleRow)
BY DEF CycleShape

LEMMA EnsuredType ==
  ASSUME CycleShape
  PROVE  ensureCycle \in Seq(CycleRow)
<1>1. CASE currentCycle.closed
  BY <1>1, UnlockedIsBoolean DEF ensureCycle, CycleShape, CycleRow
<1>2. CASE ~currentCycle.closed
  <2> DEFINE last == cycles[Len(cycles)]
             row == [last EXCEPT !.unlocked = @ \/ DailyUnlocked]
  <2>1. cycles # <<>>
    BY <1>2 DEF currentCycle
  <2>2. Len(cycles) \in 1..Len(cycles) /\ last \in CycleRow
    BY <2>1 DEF CycleShape
  <2>3. row \in CycleRow
    BY <2>2 DEF CycleRow
  <2>4. [cycles EXCEPT ![Len(cycles)] = row] \in Seq(CycleRow)
    BY <2>2, <2>3, RewrittenCycle
  <2>5. QED
    BY <1>2, <2>4, Zenon DEF ensureCycle
<1>3. QED
  BY <1>1, <1>2

LEMMA AdvancedType ==
  ASSUME CycleShape, utc \in Dates, NEW r, requests[r].cycle \in 1..Len(cycles)
  PROVE  advanceCycleAfterPayout(r) \in Seq(CycleRow)
<1> DEFINE c == requests[r].cycle
           row == [cycles[c] EXCEPT !.closed = TRUE]
           next == [startedOn |-> utc, closed |-> FALSE, unlocked |-> FALSE]
<1>1. row \in CycleRow
  <2>1. cycles[c] \in CycleRow
    BY DEF CycleShape
  <2>2. QED
    BY <2>1 DEF CycleRow
<1>2. [cycles EXCEPT ![c] = row] \in Seq(CycleRow)
  BY <1>1, RewrittenCycle
<1>3. next \in CycleRow
  BY DEF CycleRow
<1>4. Append([cycles EXCEPT ![c] = row], next) \in Seq(CycleRow)
  <2> HIDE DEF next, row
  <2>1. QED
    BY <1>2, <1>3
<1>5. QED
  BY <1>4, Zenon DEF advanceCycleAfterPayout, CycleShape

\* The cycle that a request names exists.
CyclesKnown == \A r \in Requests : requests[r].state # "NONE" => requests[r].cycle \in 1..Len(cycles)
TypeInv == PayoutTypeOK /\ CyclesKnown

LEMMA EnsuredLength ==
  ASSUME CycleShape
  PROVE  Len(ensureCycle) \in Nat \ {0} /\ Len(cycles) <= Len(ensureCycle)
<1>1. CASE currentCycle.closed
  BY <1>1 DEF ensureCycle, CycleShape
<1>2. CASE ~currentCycle.closed
  <2>1. cycles # <<>>
    BY <1>2 DEF currentCycle
  <2>2. ensureCycle = [cycles EXCEPT ![Len(cycles)].unlocked = @ \/ DailyUnlocked]
    BY <1>2, Zenon DEF ensureCycle
  <2>3. QED
    BY <2>1, <2>2 DEF CycleShape
<1>3. QED
  BY <1>1, <1>2

LEMMA AdvancedLength ==
  ASSUME CycleShape, NEW r
  PROVE  Len(advanceCycleAfterPayout(r)) \in Nat /\ Len(cycles) <= Len(advanceCycleAfterPayout(r))
BY DEF advanceCycleAfterPayout, CycleShape

LEMMA TypeInit == PayoutInit => TypeInv
<1> SUFFICES ASSUME PayoutInit PROVE TypeInv
  OBVIOUS
<1>1. stats \subseteq DayRow
  BY DEF PayoutInit, DayRow
<1>2. account \in [profit : Int, dayStart : Int, date : Dates,
                   status : {"ACTIVE", "COMPLETED"}, held : BOOLEAN]
  BY DEF PayoutInit
<1>3. requests \in [Requests -> RequestRow]
  BY DEF PayoutInit, NotMade, RequestRow
<1>4. pass \in [on : BOOLEAN, profit : Int, dayStart : Int, date : Dates, mark : Dates]
  BY DEF PayoutInit, NoPass
<1>5. /\ policy \in Policies /\ today \in Dates /\ utc \in Dates /\ results \subseteq DayRow
      /\ cycles \in Seq(CycleRow) /\ traded \in Int /\ spent \in [Requests -> SUBSET Dates]
      /\ ledger \subseteq [request : Requests, type : {"DEBIT", "SETTLEMENT", "REVERSAL"}, amount : Nat]
  BY <1>1 DEF PayoutInit
<1>6. CyclesKnown
  BY DEF PayoutInit, NotMade, CyclesKnown
<1>7. QED
  BY <1>1, <1>2, <1>3, <1>4, <1>5, <1>6 DEF TypeInv, PayoutTypeOK

AccountRow == [profit : Int, dayStart : Int, date : Dates,
               status : {"ACTIVE", "COMPLETED"}, held : BOOLEAN]
PassRow == [on : BOOLEAN, profit : Int, dayStart : Int, date : Dates, mark : Dates]
EntryRow == [request : Requests, type : {"DEBIT", "SETTLEMENT", "REVERSAL"}, amount : Nat]

\* A step that changes a request leaves every cycle that is named known.
LEMMA RequestStep ==
  ASSUME TypeInv, NEW r \in Requests, NEW row \in RequestRow,
         requests' = [requests EXCEPT ![r] = row],
         Len(cycles') \in Nat, Len(cycles) <= Len(cycles'),
         row.state # "NONE" => row.cycle \in 1..Len(cycles')
  PROVE  requests' \in [Requests -> RequestRow] /\ CyclesKnown'
<1>1. requests' \in [Requests -> RequestRow]
  BY DEF TypeInv, PayoutTypeOK
<1>2. ASSUME NEW s \in Requests, requests'[s].state # "NONE"
      PROVE  requests'[s].cycle \in 1..Len(cycles')
  <2>1. CASE s = r
    BY <1>2, <2>1 DEF TypeInv, PayoutTypeOK
  <2>2. CASE s # r
    <3>1. requests'[s] = requests[s]
      BY <2>2 DEF TypeInv, PayoutTypeOK
    <3>2. requests[s].cycle \in 1..Len(cycles) /\ Len(cycles) \in Nat
      BY <1>2, <3>1 DEF TypeInv, CyclesKnown, PayoutTypeOK
    <3>3. QED
      BY <3>1, <3>2
  <2>3. QED
    BY <2>1, <2>2
<1>3. QED
  BY <1>1, <1>2 DEF CyclesKnown

LEMMA Unchanged ==
  ASSUME TypeInv, UNCHANGED <<requests, cycles>>
  PROVE  requests' \in [Requests -> RequestRow] /\ cycles' \in Seq(CycleRow) /\ CyclesKnown'
BY DEF TypeInv, PayoutTypeOK, CyclesKnown

LEMMA EntryType ==
  ASSUME TypeInv, NEW r \in Requests, NEW type \in {"DEBIT", "SETTLEMENT", "REVERSAL"}
  PROVE  ledger \cup {Entry(r, type)} \subseteq EntryRow
BY DEF TypeInv, PayoutTypeOK, Entry, EntryRow, RequestRow

LEMMA Moved ==
  ASSUME account \in AccountRow, NEW g \in Int
  PROVE  /\ [account EXCEPT !.profit = @ + g, !.dayStart = @ + g] \in AccountRow
         /\ [account EXCEPT !.profit = @ - g, !.dayStart = @ - g] \in AccountRow
<1>1. account.profit \in Int /\ account.dayStart \in Int
  BY DEF AccountRow
<1>2. /\ account.profit + g \in Int /\ account.dayStart + g \in Int
      /\ account.profit - g \in Int /\ account.dayStart - g \in Int
  BY <1>1
<1>3. QED
  BY <1>2, Zenon DEF AccountRow

LEMMA MoneyMoved ==
  ASSUME TypeInv, NEW r \in Requests
  PROVE  Debited(requests[r].gross) \in AccountRow /\ Credited(requests[r].gross) \in AccountRow
<1>1. requests[r].gross \in Int
  BY DEF TypeInv, PayoutTypeOK, RequestRow
<1>2. account \in AccountRow
  BY DEF TypeInv, PayoutTypeOK, AccountRow
<1>3. QED
  BY <1>1, <1>2, Moved, Zenon DEF Debited, Credited

LEMMA QualifyingAreDates == TypeInv => QualifyingDays \subseteq Dates
BY DEF TypeInv, PayoutTypeOK, QualifyingDays, DayRow

LEMMA TypeTrading ==
  ASSUME TypeInv, Trading \/ Judging \/ Clock \/ ToggleHold
  PROVE  TypeInv'
<1>1. requests' \in [Requests -> RequestRow] /\ cycles' \in Seq(CycleRow) /\ CyclesKnown'
  BY Unchanged DEF Trading, Judging, Clock, ToggleHold, Trade, LoadRow, RollDay, WriteRow, NextSession, Midnight
<1>2. policy' \in Policies /\ ledger' \subseteq EntryRow /\ spent' \in [Requests -> SUBSET Dates]
  BY DEF TypeInv, PayoutTypeOK, EntryRow, Trading, Judging, Clock, ToggleHold, Trade, LoadRow, RollDay,
         WriteRow, NextSession, Midnight
<1>3. account \in AccountRow /\ pass \in PassRow /\ stats \subseteq DayRow /\ results \subseteq DayRow
      /\ today \in Dates /\ utc \in Dates /\ traded \in Int
  BY DEF TypeInv, PayoutTypeOK, AccountRow, PassRow
<1> DEFINE Goal == /\ account' \in AccountRow /\ pass' \in PassRow /\ stats' \subseteq DayRow
                   /\ results' \subseteq DayRow /\ today' \in Dates /\ utc' \in Dates /\ traded' \in Int
<1>4. ASSUME NEW win \in Wins, Trade(win) PROVE Goal
  <2>1. account.profit \in Int /\ win \in Int
    BY <1>3 DEF AccountRow
  <2>2. account.profit + win \in Int /\ traded + win \in Int
    BY <1>3, <2>1
  <2>3. account' \in AccountRow
    BY <1>3, <1>4, <2>2, Zenon DEF Trade, AccountRow
  <2>4. QED
    BY <1>3, <1>4, <2>2, <2>3 DEF Trade
<1>5. ASSUME LoadRow PROVE Goal
  BY <1>3, <1>5 DEF LoadRow, AccountRow, PassRow
<1>6. ASSUME RollDay PROVE Goal
  <2>1. ClosedDay \in DayRow /\ [date |-> pass.date, net |-> traded] \in DayRow
    BY <1>3 DEF ClosedDay, DayRow, PassRow
  <2>2. account' \in AccountRow
    BY <1>3, <1>6 DEF RollDay, AccountRow, PassRow
  <2>3. NoPass \in PassRow
    BY DEF NoPass, PassRow
  <2>4. stats' \subseteq DayRow /\ results' \subseteq DayRow
    BY <1>3, <1>6, <2>1 DEF RollDay
  <2>5. QED
    BY <1>3, <1>6, <2>2, <2>3, <2>4 DEF RollDay
<1>7. ASSUME WriteRow PROVE Goal
  <2>1. account' \in AccountRow
    BY <1>3, <1>7 DEF WriteRow, AccountRow, PassRow
  <2>2. NoPass \in PassRow
    BY DEF NoPass, PassRow
  <2>3. QED
    BY <1>3, <1>7, <2>1, <2>2 DEF WriteRow
<1>8. ASSUME NextSession PROVE Goal
  BY <1>3, <1>8 DEF NextSession
<1>9. ASSUME Midnight PROVE Goal
  BY <1>3, <1>9 DEF Midnight
<1>10. ASSUME ToggleHold PROVE Goal
  BY <1>3, <1>10 DEF ToggleHold, AccountRow
<1>11. Goal
  BY <1>4, <1>5, <1>6, <1>7, <1>8, <1>9, <1>10 DEF Trading, Judging, Clock
<1>12. QED
  BY <1>1, <1>2, <1>11 DEF TypeInv, PayoutTypeOK, AccountRow, PassRow, EntryRow

LEMMA TypeRequest ==
  ASSUME TypeInv, NEW r \in Requests, NEW gross \in Amounts, requestPayout(r, gross)
  PROVE  TypeInv'
<1> DEFINE row == [NotMade EXCEPT !.state = "REQUESTED", !.gross = gross, !.ordinal = NextOrdinal,
                                  !.cycle = Len(ensureCycle)]
<1>1. CycleShape
  BY DEF TypeInv, PayoutTypeOK, CycleShape
<1>2. row \in RequestRow /\ row.cycle = Len(ensureCycle)
  <2>1. NextOrdinal \in Nat /\ Len(ensureCycle) \in Nat /\ gross \in Nat
    BY <1>1, OrdinalIsNat, EnsuredLength
  <2>2. NotMade \in RequestRow
    BY DEF NotMade, RequestRow
  <2>3. QED
    BY <2>1, <2>2, Zenon DEF RequestRow, PayoutState
<1>3. cycles' = ensureCycle /\ requests' = [requests EXCEPT ![r] = row]
  BY DEF requestPayout
<1>4. cycles' \in Seq(CycleRow)
  BY <1>1, <1>3, EnsuredType
<1>5. requests' \in [Requests -> RequestRow] /\ CyclesKnown'
  <2> HIDE DEF row
  <2>1. Len(cycles') \in Nat \ {0} /\ Len(cycles) \in Nat /\ Len(cycles) <= Len(cycles')
    BY <1>1, <1>3, EnsuredLength DEF CycleShape
  <2>2. row.cycle \in 1..Len(cycles')
    BY <1>2, <1>3, <2>1
  <2>3. QED
    BY <1>2, <1>3, <2>1, <2>2, RequestStep
<1>6. QED
  BY <1>4, <1>5 DEF requestPayout, TypeInv, PayoutTypeOK, accountVars

LEMMA TypeApprove ==
  ASSUME TypeInv, NEW r \in Requests, approvePayout(r)
  PROVE  TypeInv'
<1> DEFINE row == [requests[r] EXCEPT !.state = "APPROVED", !.qualifying = account.profit]
<1>1. CycleShape /\ utc \in Dates /\ requests[r].cycle \in 1..Len(cycles)
  BY DEF TypeInv, PayoutTypeOK, CycleShape, CyclesKnown, approvePayout
<1>2. row \in RequestRow /\ row.cycle = requests[r].cycle
  BY DEF TypeInv, PayoutTypeOK, RequestRow, PayoutState
<1>3. cycles' = advanceCycleAfterPayout(r) /\ requests' = [requests EXCEPT ![r] = row]
  BY DEF approvePayout, TypeInv, PayoutTypeOK
<1>4. cycles' \in Seq(CycleRow)
  BY <1>1, <1>3, AdvancedType
<1>5. requests' \in [Requests -> RequestRow] /\ CyclesKnown'
  <2> HIDE DEF row
  <2>1. Len(cycles') \in Nat /\ Len(cycles) \in Nat /\ Len(cycles) <= Len(cycles')
    BY <1>1, <1>3, AdvancedLength DEF CycleShape
  <2>2. row.cycle \in 1..Len(cycles')
    BY <1>1, <1>2, <2>1
  <2>3. QED
    BY <1>2, <1>3, <2>1, <2>2, RequestStep
<1>6. account' \in AccountRow
  BY MoneyMoved DEF approvePayout
<1>7. ledger' \subseteq EntryRow
  BY EntryType DEF approvePayout
<1>8. spent' \in [Requests -> SUBSET Dates]
  BY QualifyingAreDates DEF approvePayout, TypeInv, PayoutTypeOK
<1>9. QED
  BY <1>4, <1>5, <1>6, <1>7, <1>8 DEF approvePayout, TypeInv, PayoutTypeOK, AccountRow, EntryRow

\* A decision that rewrites one request and leaves the cycles alone.
LEMMA TypeRewrite ==
  ASSUME TypeInv, NEW r \in Requests, NEW state \in PayoutState \cup {"NONE"}, NEW held \in BOOLEAN,
         state # "NONE" => requests[r].state # "NONE",
         requests' = [requests EXCEPT ![r].state = state, ![r].held = held],
         UNCHANGED cycles
  PROVE  requests' \in [Requests -> RequestRow] /\ cycles' \in Seq(CycleRow) /\ CyclesKnown'
<1> DEFINE row == [requests[r] EXCEPT !.state = state, !.held = held]
<1>1. row \in RequestRow /\ row.cycle = requests[r].cycle /\ row.state = state
  <2>1. requests[r] \in RequestRow
    BY DEF TypeInv, PayoutTypeOK
  <2>2. QED
    BY <2>1, Zenon DEF RequestRow
<1>2. requests' = [requests EXCEPT ![r] = row]
  BY DEF TypeInv, PayoutTypeOK
<1>3. /\ state # "NONE" => requests[r].cycle \in 1..Len(cycles')
      /\ Len(cycles') \in Nat /\ Len(cycles) <= Len(cycles')
  BY DEF TypeInv, PayoutTypeOK, CyclesKnown
<1>4. QED
  <2> HIDE DEF row
  <2>1. requests' \in [Requests -> RequestRow] /\ CyclesKnown'
    BY <1>1, <1>2, <1>3, RequestStep
  <2>2. QED
    BY <2>1 DEF TypeInv, PayoutTypeOK

LEMMA TypeDecided ==
  ASSUME TypeInv, NEW r \in Requests,
         \/ \E to \in {"REJECTED", "CANCELLED", "PROCESSING"} : simpleTransition(r, to)
         \/ placeHold(r) \/ removeHold(r)
  PROVE  TypeInv'
<1> DEFINE Goal == requests' \in [Requests -> RequestRow] /\ cycles' \in Seq(CycleRow) /\ CyclesKnown'
<1>1. requests[r] \in RequestRow /\ requests \in [Requests -> RequestRow]
  BY DEF TypeInv, PayoutTypeOK
<1>2. UNCHANGED <<policy, cycles, ledger, spent, accountVars>>
  BY DEF simpleTransition, placeHold, removeHold
<1>3. requests[r].state \in PayoutState \cup {"NONE"} /\ requests[r].held \in BOOLEAN
  BY <1>1 DEF RequestRow
<1>4. ASSUME NEW to \in {"REJECTED", "CANCELLED", "PROCESSING"}, simpleTransition(r, to)
      PROVE  Goal
  <2>1. [requests[r] EXCEPT !.state = to]
          = [requests[r] EXCEPT !.state = to, !.held = requests[r].held]
    BY <1>1, Zenon DEF RequestRow
  <2>2. requests' = [requests EXCEPT ![r].state = to, ![r].held = requests[r].held]
    BY <1>1, <1>4, <2>1 DEF simpleTransition
  <2>3. requests[r].state # "NONE" /\ to \in PayoutState
    BY <1>4 DEF simpleTransition, PayoutState
  <2>4. QED
    BY <1>2, <1>3, <2>2, <2>3, TypeRewrite
<1>5. ASSUME placeHold(r) PROVE Goal
  <2>1. requests[r].state # "NONE" /\ "UNDER_REVIEW" \in PayoutState
    BY <1>5 DEF placeHold, PayoutState
  <2>2. requests' = [requests EXCEPT ![r].state = "UNDER_REVIEW", ![r].held = TRUE]
    BY <1>5 DEF placeHold
  <2>3. QED
    BY <1>2, <2>1, <2>2, TypeRewrite
<1>6. ASSUME removeHold(r) PROVE Goal
  <2>1. [requests[r] EXCEPT !.held = FALSE]
          = [requests[r] EXCEPT !.state = requests[r].state, !.held = FALSE]
    BY <1>1, Zenon DEF RequestRow
  <2>2. requests' = [requests EXCEPT ![r].state = requests[r].state, ![r].held = FALSE]
    BY <1>1, <1>6, <2>1 DEF removeHold
  <2>3. QED
    BY <1>2, <1>3, <2>2, TypeRewrite
<1>7. QED
  BY <1>2, <1>4, <1>5, <1>6 DEF TypeInv, PayoutTypeOK, accountVars

LEMMA TypeSettled ==
  ASSUME TypeInv, NEW r \in Requests, (requests[r].state # "NONE" /\ Settled(r)) \/ failPayout(r)
  PROVE  TypeInv'
<1>1. requests[r] \in RequestRow /\ account \in AccountRow
  BY DEF TypeInv, PayoutTypeOK, AccountRow
<1>2. requests[r].state # "NONE"
  BY DEF failPayout
<1>3. UNCHANGED <<policy, today, utc, stats, cycles, pass, traded, results, spent>>
  BY DEF Settled, failPayout
<1>4. ASSUME NEW state \in {"PAID", "FAILED"}, requests' = [requests EXCEPT ![r].state = state]
      PROVE  requests' \in [Requests -> RequestRow] /\ cycles' \in Seq(CycleRow) /\ CyclesKnown'
  <2>1. [requests[r] EXCEPT !.state = state]
          = [requests[r] EXCEPT !.state = state, !.held = requests[r].held]
    BY <1>1, Zenon DEF RequestRow
  <2>2. requests' = [requests EXCEPT ![r].state = state, ![r].held = requests[r].held]
    BY <1>4, <2>1 DEF TypeInv, PayoutTypeOK
  <2>3. state \in PayoutState /\ requests[r].held \in BOOLEAN
    BY <1>1 DEF PayoutState, RequestRow
  <2>4. QED
    BY <1>2, <1>3, <2>2, <2>3, TypeRewrite
<1>5. ledger' \subseteq EntryRow
  <2>1. ledger \subseteq EntryRow
    BY DEF TypeInv, PayoutTypeOK, EntryRow
  <2>2. QED
    BY <2>1, EntryType DEF Settled, failPayout
<1>6. account' \in AccountRow
  <2>1. [account EXCEPT !.status = "COMPLETED"] \in AccountRow
    BY <1>1, Zenon DEF AccountRow
  <2>2. QED
    BY <1>1, <2>1, MoneyMoved DEF Settled, failPayout
<1>7. requests' \in [Requests -> RequestRow] /\ cycles' \in Seq(CycleRow) /\ CyclesKnown'
  BY <1>4 DEF Settled, failPayout
<1>8. QED
  BY <1>3, <1>5, <1>6, <1>7 DEF TypeInv, PayoutTypeOK, AccountRow, EntryRow

LEMMA TypeStep == TypeInv /\ [PayoutNext]_payoutVars => TypeInv'
<1> SUFFICES ASSUME TypeInv, [PayoutNext]_payoutVars PROVE TypeInv'
  OBVIOUS
<1>1. CASE Trading \/ Judging \/ Clock \/ ToggleHold
  BY <1>1, TypeTrading
<1>2. CASE Asking
  BY <1>2, TypeRequest DEF Asking
<1>3. CASE Deciding
  BY <1>3, TypeApprove, TypeDecided DEF Deciding
<1>4. CASE Settling
  BY <1>4, TypeDecided, TypeSettled DEF Settling, markPaid
<1>5. CASE UNCHANGED payoutVars
  BY <1>5 DEF payoutVars, TypeInv, PayoutTypeOK, CyclesKnown
<1>6. QED
  BY <1>1, <1>2, <1>3, <1>4, <1>5 DEF PayoutNext

LEMMA TypesHold == PayoutSpec => []TypeInv
BY TypeInit, TypeStep, PTL DEF PayoutSpec

(* Every row keeps its shape, whoever calls the handlers in whatever order *)
(* (payouts.ts).                                                           *)
THEOREM PayoutTypes == PayoutSpec => []PayoutTypeOK
<1>1. TypeInv => PayoutTypeOK
  BY DEF TypeInv
<1>2. QED
  BY <1>1, TypesHold, PTL

-------------------------------------------------------------------------------
(* The ledger *)

TypesOf(r) == {entry.type : entry \in {e \in ledger : e.request = r}}
Story(s) == CASE s = "PAID" -> {"DEBIT", "SETTLEMENT"}
              [] s = "FAILED" -> {"DEBIT", "REVERSAL"}
              [] s \in {"APPROVED", "PROCESSING"} -> {"DEBIT"}
              [] OTHER -> {}

LEMMA Told ==
  LedgerAgrees <=> \A r \in Requests :
                     /\ TypesOf(r) = Story(requests[r].state)
                     /\ \A e \in ledger : e.request = r => e.amount = requests[r].gross
BY Zenon DEF LedgerAgrees, TypesOf, Story

\* The story of one request goes on and that of the others stays.
LEMMA StoryStep ==
  ASSUME LedgerAgrees, NEW r \in Requests,
         \A s \in Requests \ {r} : requests'[s] = requests[s],
         requests'[r].gross = requests[r].gross \/ TypesOf(r) = {},
         \/ ledger' = ledger /\ Story(requests'[r].state) = Story(requests[r].state)
         \/ \E type \in {"DEBIT", "SETTLEMENT", "REVERSAL"} :
              /\ ledger' = ledger \cup {Entry(r, type)}
              /\ Story(requests'[r].state) = Story(requests[r].state) \cup {type}
              /\ requests'[r].gross = requests[r].gross
  PROVE  LedgerAgrees'
<1>1. \A s \in Requests : /\ TypesOf(s) = Story(requests[s].state)
                          /\ \A e \in ledger : e.request = s => e.amount = requests[s].gross
  BY Told
<1> SUFFICES ASSUME NEW s \in Requests
             PROVE  /\ TypesOf(s)' = Story(requests'[s].state)
                    /\ \A e \in ledger' : e.request = s => e.amount = requests'[s].gross
  BY Zenon DEF LedgerAgrees, TypesOf, Story
<1>2. CASE ledger' = ledger /\ Story(requests'[r].state) = Story(requests[r].state)
  <2>1. TypesOf(s)' = TypesOf(s)
    BY <1>2 DEF TypesOf
  <2>2. \A e \in ledger : e.request = r => e.type \in TypesOf(r)
    BY DEF TypesOf
  <2>3. QED
    BY <1>1, <1>2, <2>1, <2>2
<1>3. ASSUME NEW type \in {"DEBIT", "SETTLEMENT", "REVERSAL"},
             ledger' = ledger \cup {Entry(r, type)},
             Story(requests'[r].state) = Story(requests[r].state) \cup {type},
             requests'[r].gross = requests[r].gross
      PROVE  /\ TypesOf(s)' = Story(requests'[s].state)
             /\ \A e \in ledger' : e.request = s => e.amount = requests'[s].gross
  <2>1. Entry(r, type).request = r /\ Entry(r, type).type = type /\ Entry(r, type).amount = requests[r].gross
    BY DEF Entry
  <2>2. TypesOf(s)' = IF s = r THEN TypesOf(s) \cup {type} ELSE TypesOf(s)
    BY <1>3, <2>1 DEF TypesOf
  <2>3. QED
    BY <1>1, <1>3, <2>1, <2>2
<1>4. QED
  BY <1>2, <1>3

LEMMA AllowedMoves ==
  ASSUME NEW s \in PayoutState, NEW to \in ALLOWED[s]
  PROVE  \/ s = "REQUESTED" /\ to = "UNDER_REVIEW"
         \/ s \in {"REQUESTED", "UNDER_REVIEW"} /\ to \in {"APPROVED", "REJECTED", "CANCELLED"}
         \/ s = "APPROVED" /\ to = "PROCESSING"
         \/ s = "PROCESSING" /\ to = "PAID"
         \/ s \in {"APPROVED", "PROCESSING"} /\ to = "FAILED"
<1>1. /\ ALLOWED["REQUESTED"] = {"UNDER_REVIEW", "APPROVED", "REJECTED", "CANCELLED"}
      /\ ALLOWED["UNDER_REVIEW"] = {"APPROVED", "REJECTED", "CANCELLED"}
      /\ ALLOWED["APPROVED"] = {"PROCESSING", "FAILED"}
      /\ ALLOWED["PROCESSING"] = {"PAID", "FAILED"}
      /\ ALLOWED["PAID"] = {} /\ ALLOWED["REJECTED"] = {}
      /\ ALLOWED["CANCELLED"] = {} /\ ALLOWED["FAILED"] = {}
  BY DEF ALLOWED
<1>2. QED
  BY <1>1 DEF PayoutState

LEMMA LedgerSettled ==
  ASSUME TypeInv, LedgerAgrees, NEW r \in Requests, requests[r].state \in {"APPROVED", "PROCESSING"},
         Settled(r)
  PROVE  LedgerAgrees'
<1>0. requests \in [Requests -> RequestRow]
  BY DEF TypeInv, PayoutTypeOK
<1>1. /\ requests'[r].state = "PAID" /\ requests'[r].gross = requests[r].gross
      /\ \A s \in Requests \ {r} : requests'[s] = requests[s]
      /\ ledger' = ledger \cup {Entry(r, "SETTLEMENT")}
  BY <1>0, Zenon DEF Settled, RequestRow
<1>2. Story("PAID") = Story(requests[r].state) \cup {"SETTLEMENT"}
  BY DEF Story
<1>. QED BY <1>1, <1>2, StoryStep

LEMMA LedgerStep == TypeInv /\ LedgerAgrees /\ [PayoutNext]_payoutVars => LedgerAgrees'
<1> SUFFICES ASSUME TypeInv, LedgerAgrees, [PayoutNext]_payoutVars PROVE LedgerAgrees'
  OBVIOUS
<1>0. requests \in [Requests -> RequestRow]
  BY DEF TypeInv, PayoutTypeOK
<1>1. \A r \in Requests : TypesOf(r) = Story(requests[r].state)
  BY Told
<1>2. CASE UNCHANGED <<requests, ledger>>
  BY <1>2, Zenon DEF LedgerAgrees
<1>3. ASSUME NEW r \in Requests, NEW gross \in Amounts, requestPayout(r, gross)
      PROVE  LedgerAgrees'
  <2>1. requests[r].state = "NONE" /\ requests'[r].state = "REQUESTED" /\ ledger' = ledger
    BY <1>0, <1>3 DEF requestPayout, NotMade
  <2>2. \A s \in Requests \ {r} : requests'[s] = requests[s]
    BY <1>0, <1>3 DEF requestPayout
  <2>3. Story("NONE") = {} /\ Story("REQUESTED") = {}
    BY DEF Story
  <2>4. QED
    BY <1>1, <2>1, <2>2, <2>3, StoryStep
<1>4. ASSUME NEW r \in Requests, approvePayout(r)
      PROVE  LedgerAgrees'
  <2>1. requests[r].state \in {"REQUESTED", "UNDER_REVIEW"}
    BY <1>0, <1>4, AllowedMoves DEF approvePayout, Approvable, RequestRow
  <2>2. /\ requests'[r].state = "APPROVED" /\ requests'[r].gross = requests[r].gross
        /\ \A s \in Requests \ {r} : requests'[s] = requests[s]
        /\ ledger' = ledger \cup {Entry(r, "DEBIT")}
    BY <1>0, <1>4, Zenon DEF approvePayout, RequestRow
  <2>3. Story("APPROVED") = Story(requests[r].state) \cup {"DEBIT"}
    BY <2>1 DEF Story
  <2>4. QED
    BY <2>2, <2>3, StoryStep
<1>5. ASSUME NEW r \in Requests, NEW to \in {"REJECTED", "CANCELLED", "PROCESSING"}, simpleTransition(r, to)
      PROVE  LedgerAgrees'
  <2>1. \/ requests[r].state \in {"REQUESTED", "UNDER_REVIEW"} /\ to \in {"REJECTED", "CANCELLED"}
        \/ requests[r].state = "APPROVED" /\ to = "PROCESSING"
    BY <1>0, <1>5, AllowedMoves DEF simpleTransition, RequestRow
  <2>2. /\ requests'[r].state = to /\ requests'[r].gross = requests[r].gross
        /\ \A s \in Requests \ {r} : requests'[s] = requests[s]
        /\ ledger' = ledger
    BY <1>0, <1>5, Zenon DEF simpleTransition, RequestRow
  <2>3. Story(to) = Story(requests[r].state)
    BY <2>1 DEF Story
  <2>4. QED
    BY <2>2, <2>3, StoryStep
<1>6. ASSUME NEW r \in Requests, placeHold(r) \/ removeHold(r)
      PROVE  LedgerAgrees'
  <2>1. \/ requests[r].state \in {"REQUESTED", "UNDER_REVIEW"} /\ requests'[r].state = "UNDER_REVIEW"
        \/ requests'[r].state = requests[r].state
    BY <1>0, <1>6, Zenon DEF placeHold, removeHold, RequestRow
  <2>2. /\ requests'[r].gross = requests[r].gross /\ ledger' = ledger
        /\ \A s \in Requests \ {r} : requests'[s] = requests[s]
    BY <1>0, <1>6, Zenon DEF placeHold, removeHold, RequestRow
  <2>3. Story(requests'[r].state) = Story(requests[r].state)
    BY <2>1 DEF Story
  <2>4. QED
    BY <2>2, <2>3, StoryStep
<1>7. ASSUME NEW r \in Requests, markPaid(r)
      PROVE  LedgerAgrees'
  <2>1. requests[r].state = "PROCESSING"
    BY <1>0, <1>7, AllowedMoves DEF markPaid, RequestRow
  <2>2. QED
    BY <1>7, <2>1, LedgerSettled DEF markPaid
<1>8. ASSUME NEW r \in Requests, failPayout(r)
      PROVE  LedgerAgrees'
  <2>1. requests[r].state \in {"APPROVED", "PROCESSING"}
    BY <1>8 DEF failPayout
  <2>2. /\ requests'[r].state = "FAILED" /\ requests'[r].gross = requests[r].gross
        /\ \A s \in Requests \ {r} : requests'[s] = requests[s]
    BY <1>0, <1>8, Zenon DEF failPayout, RequestRow
  <2>3. TypesOf(r) = {"DEBIT"}
    BY <1>1, <2>1 DEF Story
  <2>4. ~Has(r, "REVERSAL")
    BY <2>3 DEF Has, TypesOf
  <2>5. ledger' = ledger \cup {Entry(r, "REVERSAL")}
    BY <1>8, <2>4 DEF failPayout
  <2>6. Story("FAILED") = Story(requests[r].state) \cup {"REVERSAL"}
    BY <2>1 DEF Story
  <2>7. QED
    BY <2>2, <2>5, <2>6, StoryStep
<1>9. UNCHANGED <<requests, ledger>> \/ Asking \/ Deciding \/ Settling
  BY DEF PayoutNext, Trading, Judging, Clock, Trade, LoadRow, RollDay, WriteRow, NextSession, Midnight,
         ToggleHold, payoutVars
<1>10. QED
  BY <1>2, <1>3, <1>4, <1>5, <1>6, <1>7, <1>8, <1>9 DEF Asking, Deciding, Settling

(* The ledger tells the whole story of every request, through decisions,   *)
(* settlements and failures that are repeated, late or out of order        *)
(* (payouts.ts:396, payout-operations.ts:580).                             *)
THEOREM LedgerTellsAll == PayoutSpec => []LedgerAgrees
<1>1. PayoutInit => LedgerAgrees
  BY DEF PayoutInit, NotMade, LedgerAgrees
<1>2. QED
  BY <1>1, LedgerStep, TypesHold, PTL DEF PayoutSpec

-------------------------------------------------------------------------------
(* The trading days *)

\* The dates: every closed day is behind the account's, which is behind the
\* exchange's, and UTC's is at most a day behind that.
ClockInv ==
  /\ account.date <= today /\ utc \in {today - 1, today}
  /\ \A s \in stats : s.date < account.date
  /\ pass.on => pass.date = account.date /\ pass.date <= pass.mark /\ pass.mark <= today

\* While a pass is on, money only comes back to the account; the day that it
\* has loaded shows no less than trading made either.
DayInv ==
  /\ NoDayShowsLess
  /\ pass.on => pass.profit <= account.profit /\ pass.profit - pass.dayStart >= traded

LEMMA MovedTogether ==
  ASSUME TypeInv, NEW r \in Requests
  PROVE  \A a \in {Debited(requests[r].gross), Credited(requests[r].gross)} :
           a.profit - a.dayStart = account.profit - account.dayStart /\ a.date = account.date
<1>1. requests[r].gross \in Int /\ account \in AccountRow
  BY DEF TypeInv, PayoutTypeOK, RequestRow, AccountRow
<1>2. account.profit \in Int /\ account.dayStart \in Int
  BY <1>1 DEF AccountRow
<1>3. /\ Debited(requests[r].gross).profit = account.profit - requests[r].gross
      /\ Debited(requests[r].gross).dayStart = account.dayStart - requests[r].gross
      /\ Credited(requests[r].gross).profit = account.profit + requests[r].gross
      /\ Credited(requests[r].gross).dayStart = account.dayStart + requests[r].gross
      /\ Debited(requests[r].gross).date = account.date
      /\ Credited(requests[r].gross).date = account.date
  BY <1>1, Zenon DEF Debited, Credited, AccountRow
<1>4. QED
  BY <1>1, <1>2, <1>3

\* What everyone but the trader, the engine and the clock does to the account.
LEMMA BesideTheDay ==
  ASSUME TypeInv, Asking \/ Deciding \/ Settling
  PROVE  /\ UNCHANGED <<today, utc, stats, pass, traded, results>>
         /\ account'.profit - account'.dayStart = account.profit - account.dayStart
         /\ account'.date = account.date
         /\ LockFree \/ account'.profit >= account.profit
<1>1. account \in AccountRow
  BY DEF TypeInv, PayoutTypeOK, AccountRow
<1>2. ASSUME UNCHANGED accountVars
      PROVE  UNCHANGED <<account, today, utc, stats, pass, traded, results>>
  BY <1>2 DEF accountVars
<1>3. ASSUME NEW r \in Requests, NEW gross \in Amounts, requestPayout(r, gross)
      PROVE  UNCHANGED accountVars
  BY <1>3 DEF requestPayout
<1>4. ASSUME NEW r \in Requests, approvePayout(r)
      PROVE  /\ UNCHANGED <<today, utc, stats, pass, traded, results>>
             /\ account' = Debited(requests[r].gross) /\ LockFree
  BY <1>4 DEF approvePayout
<1>5. ASSUME NEW r \in Requests, failPayout(r)
      PROVE  /\ UNCHANGED <<today, utc, stats, pass, traded, results>>
             /\ account' \in {account, Credited(requests[r].gross)}
             /\ account'.profit >= account.profit
  <2>1. account' \in {account, Credited(requests[r].gross)}
    BY <1>5 DEF failPayout
  <2>2. account'.profit \in {account.profit, account.profit + requests[r].gross}
    BY <1>1, <2>1, Zenon DEF Credited, AccountRow
  <2>3. account.profit \in Int /\ requests[r].gross \in Nat
    BY DEF TypeInv, PayoutTypeOK, RequestRow
  <2>4. account'.profit >= account.profit
    BY <2>2, <2>3
  <2>5. QED
    BY <1>5, <2>1, <2>4 DEF failPayout
<1>6. ASSUME NEW r \in Requests, markPaid(r)
      PROVE  /\ UNCHANGED <<today, utc, stats, pass, traded, results>>
             /\ account'.profit = account.profit /\ account'.dayStart = account.dayStart
             /\ account'.date = account.date
  BY <1>1, <1>6, Zenon DEF markPaid, Settled, AccountRow
<1>7. ASSUME NEW r \in Requests,
             \/ \E to \in {"REJECTED", "CANCELLED", "PROCESSING"} : simpleTransition(r, to)
             \/ placeHold(r) \/ removeHold(r)
      PROVE  UNCHANGED accountVars
  BY <1>7 DEF simpleTransition, placeHold, removeHold
<1>8. \/ UNCHANGED accountVars
      \/ \E r \in Requests : approvePayout(r) \/ failPayout(r) \/ markPaid(r)
  BY <1>3, <1>7 DEF Asking, Deciding, Settling
<1>9. account.profit >= account.profit
  BY DEF TypeInv, PayoutTypeOK
<1>10. QED
  BY <1>2, <1>4, <1>5, <1>6, <1>8, <1>9, MovedTogether

LEMMA ClockStep == TypeInv /\ ClockInv /\ [PayoutNext]_payoutVars => ClockInv'
<1> SUFFICES ASSUME TypeInv, ClockInv, [PayoutNext]_payoutVars PROVE ClockInv'
  OBVIOUS
<1>0. /\ account \in AccountRow /\ pass \in PassRow /\ today \in Dates /\ utc \in Dates
      /\ stats \subseteq DayRow
  BY DEF TypeInv, PayoutTypeOK, AccountRow, PassRow
<1> DEFINE Same == account'.date = account.date
<1>1. ASSUME UNCHANGED <<today, utc, stats, pass>>, account'.date = account.date
      PROVE  ClockInv'
  BY <1>1 DEF ClockInv
<1>2. ASSUME NEW win \in Wins, Trade(win) PROVE ClockInv'
  <2>1. account'.date = account.date
    BY <1>0, <1>2, Zenon DEF Trade, AccountRow
  <2>2. QED
    BY <1>1, <1>2, <2>1 DEF Trade
<1>3. ASSUME LoadRow PROVE ClockInv'
  BY <1>0, <1>3 DEF LoadRow, ClockInv, AccountRow
<1>4. ASSUME RollDay PROVE ClockInv'
  <2>1. account'.date = pass.mark
    BY <1>0, <1>4, Zenon DEF RollDay, AccountRow
  <2>2. pass' = NoPass /\ ~pass'.on
    BY <1>4 DEF RollDay, NoPass
  <2>3. pass.date = account.date /\ pass.date < pass.mark /\ pass.mark <= today
    BY <1>0, <1>4 DEF RollDay, ClockInv, PassRow
  <2>4. ASSUME NEW s \in stats' PROVE s.date < pass.mark
    <3>1. s \in stats \/ s = ClosedDay
      BY <1>4 DEF RollDay
    <3>2. CASE s \in stats
      BY <1>0, <2>3, <3>2 DEF ClockInv, DayRow, AccountRow, PassRow
    <3>3. CASE s = ClosedDay
      BY <2>3, <3>3 DEF ClosedDay
    <3>4. QED
      BY <3>1, <3>2, <3>3
  <2>5. today' = today /\ utc' = utc
    BY <1>4 DEF RollDay
  <2>6. QED
    BY <2>1, <2>2, <2>3, <2>4, <2>5 DEF ClockInv
<1>5. ASSUME WriteRow PROVE ClockInv'
  <2>1. account'.date = account.date
    BY <1>0, <1>5, Zenon DEF WriteRow, AccountRow
  <2>2. pass' = NoPass /\ ~pass'.on /\ UNCHANGED <<today, utc, stats>>
    BY <1>5 DEF WriteRow, NoPass
  <2>3. QED
    BY <2>1, <2>2 DEF ClockInv
<1>6. ASSUME NextSession PROVE ClockInv'
  BY <1>0, <1>6 DEF NextSession, ClockInv, AccountRow, PassRow
<1>7. ASSUME Midnight PROVE ClockInv'
  BY <1>0, <1>7 DEF Midnight, ClockInv, AccountRow, PassRow
<1>8. ASSUME ToggleHold PROVE ClockInv'
  <2>1. account'.date = account.date
    BY <1>0, <1>8, Zenon DEF ToggleHold, AccountRow
  <2>2. QED
    BY <1>1, <1>8, <2>1 DEF ToggleHold
<1>9. ASSUME Asking \/ Deciding \/ Settling PROVE ClockInv'
  BY <1>1, <1>9, BesideTheDay
<1>10. CASE UNCHANGED payoutVars
  BY <1>1, <1>10 DEF payoutVars
<1>11. QED
  BY <1>2, <1>3, <1>4, <1>5, <1>6, <1>7, <1>8, <1>9, <1>10 DEF PayoutNext, Trading, Judging, Clock

LEMMA ClockInit == PayoutInit => ClockInv
BY DEF PayoutInit, ClockInv, NoPass

LEMMA ClockHolds == PayoutSpec => []ClockInv
BY TypesHold, ClockInit, ClockStep, PTL DEF PayoutSpec

LEMMA DayStep == TypeInv /\ ClockInv /\ DayInv /\ [PayoutNext]_payoutVars => DayInv'
<1> SUFFICES ASSUME TypeInv, ClockInv, DayInv, [PayoutNext]_payoutVars PROVE DayInv'
  OBVIOUS
<1>0. /\ account \in AccountRow /\ pass \in PassRow /\ traded \in Int
      /\ stats \subseteq DayRow /\ results \subseteq DayRow
      /\ account.profit \in Int /\ account.dayStart \in Int
      /\ pass.profit \in Int /\ pass.dayStart \in Int
  BY DEF TypeInv, PayoutTypeOK, AccountRow, PassRow
<1>1. /\ account.profit - account.dayStart >= traded
      /\ \A r \in results : \E s \in stats : s.date = r.date /\ s.net >= r.net
  BY DEF DayInv, NoDayShowsLess, DayNet
<1>2. ASSUME UNCHANGED <<stats, results, traded, pass>>,
             account'.profit - account'.dayStart = account.profit - account.dayStart,
             account'.profit \in Int, LockFree \/ account'.profit >= account.profit
      PROVE  DayInv'
  <2>1. NoDayShowsLess'
    BY <1>1, <1>2 DEF NoDayShowsLess, DayNet
  <2>2. ASSUME pass.on PROVE pass.profit <= account'.profit
    BY <1>0, <1>2, <2>2 DEF DayInv, LockFree
  <2>3. QED
    BY <1>2, <2>1, <2>2 DEF DayInv
<1>3. ASSUME NEW win \in Wins, Trade(win) PROVE DayInv'
  <2>1. account'.profit = account.profit + win /\ account'.dayStart = account.dayStart
    BY <1>0, <1>3, Zenon DEF Trade, AccountRow
  <2>2. win \in Int /\ traded' = traded + win /\ UNCHANGED <<stats, results, pass>> /\ ~pass.on
    BY <1>3 DEF Trade, LockFree
  <2>3. NoDayShowsLess'
    BY <1>0, <1>1, <2>1, <2>2 DEF NoDayShowsLess, DayNet
  <2>4. QED
    BY <2>2, <2>3 DEF DayInv
<1>4. ASSUME LoadRow PROVE DayInv'
  <2>1. /\ UNCHANGED <<account, stats, results, traded>>
        /\ pass'.profit = account.profit /\ pass'.dayStart = account.dayStart
    BY <1>4 DEF LoadRow
  <2>2. NoDayShowsLess'
    BY <1>1, <2>1 DEF NoDayShowsLess, DayNet
  <2>3. QED
    BY <1>0, <1>1, <2>1, <2>2 DEF DayInv
<1>5. ASSUME RollDay PROVE DayInv'
  <2>1. account'.profit = account.profit /\ account'.dayStart = pass.profit
    BY <1>0, <1>5, Zenon DEF RollDay, AccountRow
  <2>2. pass' = NoPass /\ ~pass'.on /\ traded' = 0
    BY <1>5 DEF RollDay, NoPass
  <2>3. /\ pass.on /\ pass.date = account.date
        /\ pass.profit <= account.profit /\ pass.profit - pass.dayStart >= traded
    BY <1>5 DEF RollDay, ClockInv, DayInv
  <2>4. stats' = stats \cup {ClosedDay}
    BY <1>0, <1>5, <2>3 DEF RollDay, ClockInv, DayRow, AccountRow
  <2>5. ASSUME NEW r \in results' PROVE \E s \in stats' : s.date = r.date /\ s.net >= r.net
    <3>1. r \in results \/ r = [date |-> pass.date, net |-> traded]
      BY <1>5 DEF RollDay
    <3>2. CASE r \in results
      BY <1>1, <2>4, <3>2
    <3>3. CASE r = [date |-> pass.date, net |-> traded]
      <4>1. ClosedDay \in stats' /\ ClosedDay.date = r.date /\ ClosedDay.net >= r.net
        BY <2>3, <2>4, <3>3 DEF ClosedDay
      <4>2. QED
        BY <4>1
    <3>4. QED
      BY <3>1, <3>2, <3>3
  <2>6. account'.profit - account'.dayStart >= traded'
    BY <1>0, <2>1, <2>2, <2>3
  <2>7. QED
    BY <2>2, <2>5, <2>6 DEF DayInv, NoDayShowsLess, DayNet
<1>6. ASSUME WriteRow PROVE DayInv'
  <2>1. account'.profit = account.profit /\ account'.dayStart \in {account.dayStart, pass.dayStart}
    BY <1>0, <1>6, Zenon DEF WriteRow, AccountRow
  <2>2. pass' = NoPass /\ ~pass'.on /\ UNCHANGED <<stats, results, traded>>
    BY <1>6 DEF WriteRow, NoPass
  <2>3. pass.profit <= account.profit /\ pass.profit - pass.dayStart >= traded
    BY <1>6 DEF WriteRow, DayInv
  <2>4. account'.profit - account'.dayStart >= traded
    BY <1>0, <1>1, <2>1, <2>3
  <2>5. QED
    BY <1>1, <2>2, <2>4 DEF DayInv, NoDayShowsLess, DayNet
<1>7. ASSUME Clock PROVE DayInv'
  BY <1>0, <1>2, <1>7 DEF Clock, NextSession, Midnight
<1>8. ASSUME ToggleHold PROVE DayInv'
  <2>1. account'.profit = account.profit /\ account'.dayStart = account.dayStart
    BY <1>0, <1>8, Zenon DEF ToggleHold, AccountRow
  <2>2. QED
    BY <1>0, <1>2, <1>8, <2>1 DEF ToggleHold
<1>9. ASSUME Asking \/ Deciding \/ Settling PROVE DayInv'
  <2>1. account'.profit \in Int
    BY TypeStep DEF TypeInv, PayoutTypeOK
  <2>2. QED
    BY <1>2, <1>9, <2>1, BesideTheDay
<1>10. CASE UNCHANGED payoutVars
  BY <1>0, <1>2, <1>10 DEF payoutVars
<1>11. QED
  BY <1>3, <1>4, <1>5, <1>6, <1>7, <1>8, <1>9, <1>10 DEF PayoutNext, Trading, Judging

LEMMA DayInit == PayoutInit => DayInv
<1> SUFFICES ASSUME PayoutInit PROVE DayInv
  OBVIOUS
<1>1. account.profit - account.dayStart = 0 /\ traded = 0 /\ results = stats /\ ~pass.on
  BY PayoutAssumption DEF PayoutInit, NoPass
<1>2. \A r \in results : r.net \in Int
  BY TypeInit DEF TypeInv, PayoutTypeOK, DayRow
<1>3. \A r \in results : \E s \in stats : s.date = r.date /\ s.net >= r.net
  BY <1>1, <1>2
<1>4. QED
  BY <1>1, <1>3 DEF DayInv, NoDayShowsLess, DayNet

LEMMA DayHolds == PayoutSpec => []DayInv
BY TypesHold, ClockHolds, DayInit, DayStep, PTL DEF PayoutSpec

-------------------------------------------------------------------------------
(* The queue of requests *)

Pending == {"REQUESTED", "UNDER_REVIEW"}
Underway == {"APPROVED", "PROCESSING"}

\* At most one request is open.
OneOpen == \A r, s \in In(NON_TERMINAL) : r = s

\* The payouts that stand are numbered, each by itself; the one underway is
\* the last of them and the one that is asked for is the next.
Numbered ==
  /\ {requests[r].ordinal : r \in In(Standing)} = 1..Cardinality(In(Standing))
  /\ \A r, s \in In(Standing) : requests[r].ordinal = requests[s].ordinal => r = s
  /\ \A r \in In(Underway) : requests[r].ordinal = Cardinality(In(Standing))
  /\ \A r \in In(Pending) : requests[r].ordinal = Cardinality(In(Standing)) + 1

QueueInv == OneOpen /\ Numbered /\ LaterQualifiesHigher

LEMMA NumberedIsDense == Numbered => OrdinalsAreDense
BY DEF Numbered, OrdinalsAreDense, Pending

LEMMA QueueKeeps ==
  ASSUME QueueInv, policy' = policy, NEW r \in Requests,
         \A s \in Requests \ {r} : requests'[s] = requests[s],
         requests'[r].ordinal = requests[r].ordinal,
         requests'[r].qualifying = requests[r].qualifying,
         \/ requests'[r].state = requests[r].state
         \/ requests[r].state \in Pending /\ requests'[r].state \in Pending \cup {"REJECTED", "CANCELLED"}
         \/ requests[r].state \in Underway /\ requests'[r].state \in {"PROCESSING", "PAID"}
  PROVE  QueueInv'
<1>1. \A s \in Requests : /\ requests'[s].ordinal = requests[s].ordinal
                          /\ requests'[s].qualifying = requests[s].qualifying
  OBVIOUS
<1>2. In(Standing)' = In(Standing)
  BY DEF In, Standing, Pending, Underway
<1>3. /\ In(NON_TERMINAL)' \subseteq In(NON_TERMINAL)
      /\ In(Pending)' \subseteq In(Pending) /\ In(Underway)' \subseteq In(Underway)
  BY DEF In, NON_TERMINAL, Pending, Underway
<1>4. In(Standing) \subseteq Requests /\ In(Pending) \subseteq Requests /\ In(Underway) \subseteq Requests
  BY DEF In
<1>5. OneOpen'
  BY <1>3 DEF OneOpen, QueueInv
<1>6. Numbered'
  <2>1. {requests'[s].ordinal : s \in In(Standing)} = {requests[s].ordinal : s \in In(Standing)}
    BY <1>1, <1>4
  <2>2. QED
    BY <1>1, <1>2, <1>3, <1>4, <2>1 DEF Numbered, QueueInv
<1>7. LaterQualifiesHigher'
  BY <1>1, <1>2, <1>4 DEF LaterQualifiesHigher, QueueInv
<1>8. QED
  BY <1>5, <1>6, <1>7 DEF QueueInv

LEMMA QueueAsked ==
  ASSUME TypeInv, QueueInv, NEW r \in Requests, NEW gross \in Amounts, requestPayout(r, gross)
  PROVE  QueueInv'
<1>0. requests \in [Requests -> RequestRow]
  BY DEF TypeInv, PayoutTypeOK
<1>1. requests[r].state = "NONE" /\ In(NON_TERMINAL) = {} /\ policy' = policy
  BY DEF requestPayout, resolvePayoutRequest, Eligible, pendingRequestExists
<1>2. requests'[r].state = "REQUESTED" /\ requests'[r].ordinal = NextOrdinal
  BY <1>0, Zenon DEF requestPayout, NotMade
<1>3. \A s \in Requests \ {r} : requests'[s] = requests[s]
  BY <1>0 DEF requestPayout
<1>4. In(Standing)' = In(Standing) /\ r \notin In(Standing) /\ In(Standing) \subseteq Requests
  BY <1>1, <1>2, <1>3 DEF In, Standing
<1>5. In(NON_TERMINAL)' = {r} /\ In(Underway)' = {} /\ In(Pending)' = {r}
  BY <1>1, <1>2, <1>3 DEF In, NON_TERMINAL, Pending, Underway
<1>6. \A s \in In(Standing) : requests'[s] = requests[s]
  BY <1>3, <1>4
<1>7. OneOpen'
  BY <1>5 DEF OneOpen
<1>8. Numbered'
  <2>1. {requests'[s].ordinal : s \in In(Standing)} = {requests[s].ordinal : s \in In(Standing)}
    BY <1>6
  <2>2. requests'[r].ordinal = Cardinality(In(Standing)) + 1
    BY <1>2 DEF NextOrdinal
  <2>3. QED
    BY <1>4, <1>5, <1>6, <2>1, <2>2 DEF Numbered, QueueInv
<1>9. LaterQualifiesHigher'
  BY <1>1, <1>4, <1>6 DEF LaterQualifiesHigher, QueueInv
<1>10. QED
  BY <1>7, <1>8, <1>9 DEF QueueInv

LEMMA QueueApproved ==
  ASSUME TypeInv, QueueInv, NEW r \in Requests, approvePayout(r)
  PROVE  QueueInv'
<1>0. requests \in [Requests -> RequestRow]
  BY DEF TypeInv, PayoutTypeOK
<1>1. requests[r].state \in Pending
  BY <1>0, AllowedMoves DEF approvePayout, Approvable, RequestRow, Pending
<1>2. /\ requests'[r].state = "APPROVED" /\ requests'[r].ordinal = requests[r].ordinal
      /\ requests'[r].qualifying = account.profit /\ policy' = policy
  BY <1>0, Zenon DEF approvePayout, RequestRow
<1>3. \A s \in Requests \ {r} : requests'[s] = requests[s]
  BY <1>0, Zenon DEF approvePayout
<1> DEFINE n == Cardinality(In(Standing))
<1>4. In(Standing) \subseteq Requests /\ r \notin In(Standing) /\ In(Standing)' = In(Standing) \cup {r}
  BY <1>1, <1>2, <1>3 DEF In, Standing, Pending
<1>5. n \in Nat /\ Cardinality(In(Standing)') = n + 1
  BY <1>4, CountIsNat, FS_AddElement
<1>6. In(NON_TERMINAL) = {r}
  BY <1>1 DEF In, NON_TERMINAL, Pending, QueueInv, OneOpen
<1>7. In(NON_TERMINAL)' = {r} /\ In(Underway)' = {r} /\ In(Pending)' = {}
  BY <1>2, <1>3, <1>6 DEF In, NON_TERMINAL, Pending, Underway
<1>8. requests'[r].ordinal = n + 1
  BY <1>1, <1>2 DEF QueueInv, Numbered, In
<1>9. \A s \in In(Standing) : requests'[s] = requests[s] /\ requests[s].ordinal \in 1..n
  BY <1>3, <1>4 DEF QueueInv, Numbered
<1>10. OneOpen'
  BY <1>7 DEF OneOpen
<1>11. Numbered'
  <2>1. {requests'[s].ordinal : s \in In(Standing) \cup {r}}
          = {requests[s].ordinal : s \in In(Standing)} \cup {n + 1}
    BY <1>8, <1>9
  <2>2. (1..n) \cup {n + 1} = 1..(n + 1)
    BY <1>5
  <2>3. {requests'[s].ordinal : s \in In(Standing)'} = 1..Cardinality(In(Standing)')
    BY <1>4, <1>5, <2>1, <2>2 DEF QueueInv, Numbered
  <2>4. ASSUME NEW s \in In(Standing)', NEW t \in In(Standing)', requests'[s].ordinal = requests'[t].ordinal
        PROVE  s = t
    BY <1>4, <1>5, <1>8, <1>9, <2>4 DEF QueueInv, Numbered
  <2>5. QED
    BY <1>5, <1>7, <1>8, <2>3, <2>4 DEF Numbered
<1>12. LaterQualifiesHigher'
  <2>1. SUFFICES ASSUME policy.model = "DAILY", NEW s \in In(Standing)', NEW t \in In(Standing)',
                        requests'[s].ordinal < requests'[t].ordinal
                 PROVE  requests'[s].qualifying < requests'[t].qualifying
    BY <1>2 DEF LaterQualifiesHigher
  <2>2. s # r
    BY <1>4, <1>5, <1>8, <1>9, <2>1
  <2>3. CASE t = r
    <3>1. account.profit > requests[s].qualifying
      BY <1>4, <2>1, <2>2 DEF approvePayout, Approvable, resolvePayoutRequest, Eligible
    <3>2. account.profit \in Int /\ requests[s].qualifying \in Int
      BY <1>0, <1>4, <2>2 DEF TypeInv, PayoutTypeOK, RequestRow
    <3>3. QED
      BY <1>2, <1>4, <1>9, <2>2, <2>3, <3>1, <3>2
  <2>4. CASE t # r
    BY <1>4, <1>9, <2>1, <2>2, <2>4 DEF QueueInv, LaterQualifiesHigher
  <2>5. QED
    BY <2>3, <2>4
<1>13. QED
  BY <1>10, <1>11, <1>12 DEF QueueInv

LEMMA QueueFailed ==
  ASSUME TypeInv, QueueInv, NEW r \in Requests, failPayout(r)
  PROVE  QueueInv'
<1>0. requests \in [Requests -> RequestRow]
  BY DEF TypeInv, PayoutTypeOK
<1>1. requests[r].state \in Underway /\ policy' = policy
  BY DEF failPayout, Underway
<1>2. requests'[r].state = "FAILED" /\ \A s \in Requests \ {r} : requests'[s] = requests[s]
  BY <1>0, Zenon DEF failPayout, RequestRow
<1> DEFINE n == Cardinality(In(Standing))
<1>3. r \in In(Standing) /\ In(Standing) \subseteq Requests /\ In(Standing)' = In(Standing) \ {r}
  BY <1>1, <1>2 DEF In, Standing, Underway
<1>4. n \in Nat \ {0} /\ Cardinality(In(Standing)') = n - 1
  <2>1. IsFiniteSet(In(Standing)) /\ n \in Nat /\ n # 0
    BY <1>3, CountIsNat, FS_EmptySet
  <2>2. QED
    BY <1>3, <2>1, FS_RemoveElement
<1>5. In(NON_TERMINAL) = {r}
  BY <1>1 DEF In, NON_TERMINAL, Underway, QueueInv, OneOpen
<1>6. In(NON_TERMINAL)' = {} /\ In(Underway)' = {} /\ In(Pending)' = {}
  BY <1>2, <1>5 DEF In, NON_TERMINAL, Pending, Underway
<1>7. requests[r].ordinal = n
  BY <1>1 DEF QueueInv, Numbered, In
<1>8. \A s \in In(Standing)' : requests'[s] = requests[s] /\ s \in In(Standing) /\ s # r
  BY <1>2, <1>3
<1>9. OneOpen'
  BY <1>6 DEF OneOpen
<1>10. Numbered'
  <2>1. {requests'[s].ordinal : s \in In(Standing)'}
          = {requests[s].ordinal : s \in In(Standing)} \ {n}
    BY <1>3, <1>7, <1>8 DEF QueueInv, Numbered
  <2>2. (1..n) \ {n} = 1..(n - 1)
    BY <1>4
  <2>3. QED
    BY <1>4, <1>6, <1>8, <2>1, <2>2 DEF QueueInv, Numbered
<1>11. LaterQualifiesHigher'
  BY <1>1, <1>8 DEF QueueInv, LaterQualifiesHigher
<1>12. QED
  BY <1>9, <1>10, <1>11 DEF QueueInv

LEMMA QueueStep == TypeInv /\ QueueInv /\ [PayoutNext]_payoutVars => QueueInv'
<1> SUFFICES ASSUME TypeInv, QueueInv, [PayoutNext]_payoutVars PROVE QueueInv'
  OBVIOUS
<1>0. requests \in [Requests -> RequestRow]
  BY DEF TypeInv, PayoutTypeOK
<1>1. CASE UNCHANGED <<policy, requests>>
  <2>1. /\ In(Standing)' = In(Standing) /\ In(NON_TERMINAL)' = In(NON_TERMINAL)
        /\ In(Pending)' = In(Pending) /\ In(Underway)' = In(Underway)
    BY <1>1 DEF In
  <2>2. QED
    BY <1>1, <2>1 DEF QueueInv, OneOpen, Numbered, LaterQualifiesHigher
<1>2. ASSUME NEW r \in Requests, NEW to \in {"REJECTED", "CANCELLED", "PROCESSING"}, simpleTransition(r, to)
      PROVE  QueueInv'
  <2>1. \/ requests[r].state \in Pending /\ to \in {"REJECTED", "CANCELLED"}
        \/ requests[r].state = "APPROVED" /\ to = "PROCESSING"
    BY <1>0, <1>2, AllowedMoves DEF simpleTransition, RequestRow, Pending
  <2>2. /\ requests'[r].state = to /\ requests'[r].ordinal = requests[r].ordinal
        /\ requests'[r].qualifying = requests[r].qualifying /\ policy' = policy
        /\ \A s \in Requests \ {r} : requests'[s] = requests[s]
    BY <1>0, <1>2, Zenon DEF simpleTransition, RequestRow
  <2>3. QED
    BY <2>1, <2>2, QueueKeeps DEF Underway
<1>3. ASSUME NEW r \in Requests, placeHold(r) \/ removeHold(r)
      PROVE  QueueInv'
  <2>1. \/ requests[r].state \in Pending /\ requests'[r].state = "UNDER_REVIEW"
        \/ requests'[r].state = requests[r].state
    BY <1>0, <1>3, Zenon DEF placeHold, removeHold, RequestRow, Pending
  <2>2. /\ requests'[r].ordinal = requests[r].ordinal
        /\ requests'[r].qualifying = requests[r].qualifying /\ policy' = policy
        /\ \A s \in Requests \ {r} : requests'[s] = requests[s]
    BY <1>0, <1>3, Zenon DEF placeHold, removeHold, RequestRow
  <2>3. QED
    BY <2>1, <2>2, QueueKeeps DEF Pending
<1>4. ASSUME NEW r \in Requests, markPaid(r)
      PROVE  QueueInv'
  <2>1. requests[r].state = "PROCESSING"
    BY <1>0, <1>4, AllowedMoves DEF markPaid, RequestRow
  <2>2. /\ requests'[r].state = "PAID" /\ requests'[r].ordinal = requests[r].ordinal
        /\ requests'[r].qualifying = requests[r].qualifying /\ policy' = policy
        /\ \A s \in Requests \ {r} : requests'[s] = requests[s]
    BY <1>0, <1>4, Zenon DEF markPaid, Settled, RequestRow
  <2>3. QED
    BY <2>1, <2>2, QueueKeeps DEF Underway
<1>5. UNCHANGED <<policy, requests>> \/ Asking \/ Deciding \/ Settling
  BY DEF PayoutNext, Trading, Judging, Clock, Trade, LoadRow, RollDay, WriteRow, NextSession, Midnight,
         ToggleHold, payoutVars
<1>6. QED
  BY <1>1, <1>2, <1>3, <1>4, <1>5, QueueAsked, QueueApproved, QueueFailed DEF Asking, Deciding, Settling

LEMMA QueueInit == PayoutInit => QueueInv
<1> SUFFICES ASSUME PayoutInit PROVE QueueInv
  OBVIOUS
<1>1. In(Standing) = {} /\ In(NON_TERMINAL) = {} /\ In(Underway) = {} /\ In(Pending) = {}
  BY DEF PayoutInit, NotMade, In, Standing, NON_TERMINAL, Underway, Pending
<1>2. Cardinality(In(Standing)) = 0
  BY <1>1, FS_EmptySet
<1>3. QED
  BY <1>1, <1>2 DEF QueueInv, OneOpen, Numbered, LaterQualifiesHigher

LEMMA QueueHolds == PayoutSpec => []QueueInv
BY TypesHold, QueueInit, QueueStep, PTL DEF PayoutSpec

(* The payouts that stand are numbered without a gap, whatever was         *)
(* rejected, cancelled or failed in between: the cap of a payout is the    *)
(* one of its place (payouts.ts:222).                                      *)
THEOREM OrdinalsStayDense == PayoutSpec => []OrdinalsAreDense
<1>1. QueueInv => OrdinalsAreDense
  BY NumberedIsDense DEF QueueInv
<1>2. QED
  BY <1>1, QueueHolds, PTL

(* A DAILY account qualifies for each payout above every earlier one that  *)
(* stands (payouts.ts:160).                                                *)
THEOREM QualificationRises == PayoutSpec => []LaterQualifiesHigher
<1>1. QueueInv => LaterQualifiesHigher
  BY DEF QueueInv
<1>2. QED
  BY <1>1, QueueHolds, PTL

-------------------------------------------------------------------------------
(* The cycles *)

\* The cycle that is open is the last one, the request that is open names it,
\* and what earlier approvals counted lies behind it and behind the account.
CycleInv ==
  /\ cycles # <<>> => ~cycles[Len(cycles)].closed
  /\ policy.model # "DAILY" =>
       \A r \in In(Pending) : requests[r].cycle = Len(cycles)
  /\ policy.model # "DAILY" =>
       \A r \in Requests : \A d \in spent[r] :
         cycles # <<>> /\ d <= currentCycle.startedOn /\ d < account.date

\* A request opens the first cycle and no other.
LEMMA CycleAsked ==
  ASSUME TypeInv, CycleInv, NEW r \in Requests, NEW gross \in Amounts, requestPayout(r, gross)
  PROVE  CycleInv'
<1>0. requests \in [Requests -> RequestRow] /\ cycles \in Seq(CycleRow)
  BY DEF TypeInv, PayoutTypeOK
<1>1. /\ cycles' = ensureCycle /\ requests'[r].cycle = Len(cycles') /\ In(NON_TERMINAL) = {}
      /\ UNCHANGED <<policy, spent, account>> /\ \A s \in Requests \ {r} : requests'[s] = requests[s]
  <2>1. cycles' = ensureCycle /\ In(NON_TERMINAL) = {} /\ UNCHANGED <<policy, spent, account>>
    BY DEF requestPayout, resolvePayoutRequest, Eligible, pendingRequestExists, accountVars
  <2>2. requests'[r].cycle = Len(ensureCycle)
    BY <1>0, Zenon DEF requestPayout, NotMade
  <2>3. \A s \in Requests \ {r} : requests'[s] = requests[s]
    BY <1>0 DEF requestPayout
  <2>4. QED
    BY <2>1, <2>2, <2>3
<1>2. In(Pending)' \subseteq {r}
  BY <1>1 DEF In, NON_TERMINAL, Pending
<1>3. CASE cycles = <<>>
  <2>1. currentCycle.closed
    BY <1>3 DEF currentCycle
  <2> DEFINE first == [startedOn |-> ActivatedOn, closed |-> FALSE, unlocked |-> DailyUnlocked]
  <2>2. cycles' = Append(cycles, first)
    BY <1>1, <2>1, Zenon DEF ensureCycle
  <2>3. ~cycles'[Len(cycles')].closed
    <3>1. ~first.closed
      OBVIOUS
    <3>2. cycles'[Len(cycles')] = first
      <4> HIDE DEF first
      <4>1. QED
        BY <1>0, <2>2
    <3>3. QED
      BY <3>1, <3>2
  <2>4. policy.model # "DAILY" => \A s \in Requests : spent[s] = {}
    BY <1>3 DEF CycleInv
  <2>5. QED
    BY <1>1, <1>2, <2>3, <2>4 DEF CycleInv
<1>4. CASE cycles # <<>>
  <2> DEFINE last == cycles[Len(cycles)]
             row == [last EXCEPT !.unlocked = @ \/ DailyUnlocked]
  <2>1. last \in CycleRow /\ Len(cycles) \in 1..Len(cycles) /\ ~last.closed /\ currentCycle = last
    BY <1>0, <1>4 DEF CycleInv, currentCycle
  <2>2. row.closed = last.closed /\ row.startedOn = last.startedOn
    BY <2>1 DEF CycleRow
  <2>3. cycles' = [cycles EXCEPT ![Len(cycles)] = row]
    BY <1>1, <2>1, Zenon DEF ensureCycle
  <2>4. Len(cycles') = Len(cycles) /\ cycles'[Len(cycles')] = row /\ cycles' # <<>>
    <3> HIDE DEF row, last
    <3>1. QED
      BY <1>0, <2>1, <2>3
  <2>5. currentCycle' = row
    BY <2>4 DEF currentCycle
  <2>6. QED
    BY <1>1, <1>2, <1>4, <2>1, <2>2, <2>4, <2>5 DEF CycleInv
<1>5. QED
  BY <1>3, <1>4

\* What an approval counts lies behind the cycle that it opens.
LEMMA CycleApproved ==
  ASSUME TypeInv, ClockInv, QueueInv, CycleInv, NEW r \in Requests, approvePayout(r)
  PROVE  CycleInv'
<1>0. /\ requests \in [Requests -> RequestRow] /\ cycles \in Seq(CycleRow) /\ account \in AccountRow
      /\ spent \in [Requests -> SUBSET Dates] /\ stats \subseteq DayRow /\ today \in Dates /\ utc \in Dates
  BY DEF TypeInv, PayoutTypeOK, AccountRow
<1>1. requests[r].state \in Pending
  BY <1>0, AllowedMoves DEF approvePayout, Approvable, RequestRow, Pending
<1>2. /\ requests'[r].state = "APPROVED" /\ policy' = policy
      /\ cycles' = advanceCycleAfterPayout(r) /\ spent' = [spent EXCEPT ![r] = QualifyingDays]
      /\ \A s \in Requests \ {r} : requests'[s] = requests[s]
  BY <1>0, Zenon DEF approvePayout, RequestRow
<1>3. account'.date = account.date
  BY MovedTogether DEF approvePayout
<1>4. In(Pending)' = {}
  <2>1. \A s \in In(Pending) : s = r
    BY <1>1 DEF QueueInv, OneOpen, In, NON_TERMINAL, Pending
  <2>2. QED
    BY <1>2, <2>1 DEF In, Pending
<1>5. requests[r].cycle \in 1..Len(cycles) /\ cycles # <<>>
  <2>1. requests[r].cycle \in 1..Len(cycles)
    BY <1>1 DEF TypeInv, CyclesKnown, Pending
  <2>2. QED
    BY <2>1
<1>6. CASE policy.model = "DAILY"
  <2>1. cycles' = cycles
    BY <1>2, <1>6 DEF advanceCycleAfterPayout
  <2>2. QED
    BY <1>2, <1>6, <2>1 DEF CycleInv
<1>7. CASE policy.model # "DAILY"
  <2> DEFINE c == requests[r].cycle
             row == [cycles[c] EXCEPT !.closed = TRUE]
             next == [startedOn |-> utc, closed |-> FALSE, unlocked |-> FALSE]
  <2>1. c = Len(cycles) /\ ~cycles[c].closed
    BY <1>1, <1>5, <1>7 DEF CycleInv, In
  <2>2. cycles' = Append([cycles EXCEPT ![c] = row], next)
    BY <1>2, <1>7, <2>1, Zenon DEF advanceCycleAfterPayout
  <2>3. [cycles EXCEPT ![c] = row] \in Seq(CycleRow)
    <3>1. row \in CycleRow
      <4>1. cycles[c] \in CycleRow
        BY <1>0, <1>5
      <4>2. QED
        BY <4>1 DEF CycleRow
    <3>2. QED
      BY <1>0, <1>5, <3>1, RewrittenCycle DEF CycleShape
  <2>4. cycles' # <<>> /\ cycles'[Len(cycles')] = next
    <3> HIDE DEF next, row
    <3>1. QED
      BY <2>2, <2>3
  <2>5. currentCycle' = next
    BY <2>4 DEF currentCycle
  <2>6. \A d \in QualifyingDays : d < account.date
    BY <1>0 DEF QualifyingDays, ClockInv
  <2>7. \A s \in Requests : \A d \in spent'[s] : d \in Dates /\ d < account.date
    BY <1>0, <1>2, <1>7, <2>6, QualifyingAreDates DEF CycleInv
  <2>8. \A d \in Dates : d < account.date => d <= utc
    BY <1>0 DEF ClockInv, AccountRow
  <2>9. QED
    BY <1>2, <1>3, <1>4, <2>4, <2>5, <2>7, <2>8 DEF CycleInv
<1>8. QED
  BY <1>6, <1>7

LEMMA CycleKept ==
  ASSUME TypeInv, CycleInv, UNCHANGED <<policy, cycles, spent>>, account.date <= account'.date,
         account'.date \in Dates, In(Pending)' \subseteq In(Pending),
         \A r \in Requests : requests'[r].cycle = requests[r].cycle
  PROVE  CycleInv'
<1>1. account.date \in Dates /\ spent \in [Requests -> SUBSET Dates] /\ In(Pending) \subseteq Requests
  BY DEF TypeInv, PayoutTypeOK, In
<1>2. currentCycle' = currentCycle
  BY DEF currentCycle
<1>3. \A r \in Requests : \A d \in spent[r] : d < account.date => d < account'.date
  BY <1>1
<1>4. QED
  BY <1>1, <1>2, <1>3 DEF CycleInv

LEMMA CycleStep ==
  TypeInv /\ ClockInv /\ QueueInv /\ CycleInv /\ [PayoutNext]_payoutVars => CycleInv'
<1> SUFFICES ASSUME TypeInv, ClockInv, QueueInv, CycleInv, [PayoutNext]_payoutVars PROVE CycleInv'
  OBVIOUS
<1>0. /\ requests \in [Requests -> RequestRow] /\ account \in AccountRow /\ account' \in AccountRow
      /\ pass \in PassRow
  BY TypeStep DEF TypeInv, PayoutTypeOK, AccountRow, PassRow
<1>1. CASE Trading \/ Judging \/ Clock \/ ToggleHold \/ UNCHANGED payoutVars
  <2>1. UNCHANGED <<policy, cycles, spent, requests>>
    BY <1>1 DEF Trading, Judging, Clock, ToggleHold, Trade, LoadRow, RollDay, WriteRow, NextSession,
                Midnight, payoutVars
  <2>2. account.date <= account'.date
    <3>1. CASE RollDay
      <4>1. account'.date = pass.mark
        BY <1>0, <3>1, Zenon DEF RollDay, AccountRow
      <4>2. QED
        BY <1>0, <3>1, <4>1 DEF RollDay, ClockInv, PassRow
    <3>2. CASE ~RollDay
      <4>1. account'.date = account.date
        <5>1. ASSUME NEW win \in Wins, Trade(win) PROVE account'.date = account.date
          BY <1>0, <5>1, Zenon DEF Trade, AccountRow
        <5>2. CASE WriteRow
          BY <1>0, <5>2, Zenon DEF WriteRow, AccountRow
        <5>3. CASE ToggleHold
          BY <1>0, <5>3, Zenon DEF ToggleHold, AccountRow
        <5>4. CASE LoadRow \/ Clock \/ UNCHANGED payoutVars
          BY <5>4 DEF LoadRow, Clock, NextSession, Midnight, payoutVars
        <5>5. QED
          BY <1>1, <3>2, <5>1, <5>2, <5>3, <5>4 DEF Trading, Judging
      <4>2. QED
        BY <1>0, <4>1 DEF AccountRow
    <3>3. QED
      BY <3>1, <3>2
  <2>3. QED
    BY <1>0, <2>1, <2>2, CycleKept DEF In, AccountRow
<1>2. ASSUME NEW r \in Requests,
             \/ \E to \in {"REJECTED", "CANCELLED", "PROCESSING"} : simpleTransition(r, to)
             \/ placeHold(r) \/ removeHold(r) \/ markPaid(r) \/ failPayout(r)
      PROVE  CycleInv'
  <2>1. UNCHANGED <<policy, cycles, spent>>
    BY <1>2 DEF simpleTransition, placeHold, removeHold, markPaid, Settled, failPayout
  <2>2. account.date <= account'.date
    <3>1. account'.date = account.date
      BY <1>2, BesideTheDay DEF Deciding, Settling
    <3>2. QED
      BY <1>0, <3>1 DEF AccountRow
  <2> DEFINE Keeps == /\ \A s \in Requests \ {r} : requests'[s] = requests[s]
                      /\ requests'[r].cycle = requests[r].cycle
                      /\ requests'[r].state \in Pending => requests[r].state \in Pending
  <2>3. Keeps
    <3>1. ASSUME NEW to \in {"REJECTED", "CANCELLED", "PROCESSING"}, simpleTransition(r, to) PROVE Keeps
      BY <1>0, <3>1, Zenon DEF simpleTransition, RequestRow, Pending
    <3>2. ASSUME placeHold(r) PROVE Keeps
      BY <1>0, <3>2, Zenon DEF placeHold, RequestRow, Pending
    <3>3. ASSUME removeHold(r) PROVE Keeps
      BY <1>0, <3>3, Zenon DEF removeHold, RequestRow, Pending
    <3>4. ASSUME markPaid(r) PROVE Keeps
      BY <1>0, <3>4, Zenon DEF markPaid, Settled, RequestRow, Pending
    <3>5. ASSUME failPayout(r) PROVE Keeps
      BY <1>0, <3>5, Zenon DEF failPayout, RequestRow, Pending
    <3>6. QED
      BY <1>2, <3>1, <3>2, <3>3, <3>4, <3>5
  <2>4. /\ \A s \in Requests : requests'[s].cycle = requests[s].cycle
        /\ \A s \in Requests : requests'[s].state \in Pending => requests[s].state \in Pending
    BY <2>3
  <2>5. In(Pending)' \subseteq In(Pending)
    BY <2>4 DEF In
  <2>6. QED
    BY <1>0, <2>1, <2>2, <2>4, <2>5, CycleKept DEF AccountRow
<1>3. QED
  BY <1>1, <1>2, CycleAsked, CycleApproved DEF PayoutNext, Asking, Deciding, Settling

LEMMA SpentStep ==
  TypeInv /\ CycleInv /\ WinningDaySpentOnce /\ [PayoutNext]_payoutVars => WinningDaySpentOnce'
<1> SUFFICES ASSUME TypeInv, CycleInv, WinningDaySpentOnce, [PayoutNext]_payoutVars
             PROVE  WinningDaySpentOnce'
  OBVIOUS
<1>0. spent \in [Requests -> SUBSET Dates] /\ cycles \in Seq(CycleRow)
  BY DEF TypeInv, PayoutTypeOK
<1>1. CASE UNCHANGED <<policy, spent>>
  BY <1>1 DEF WinningDaySpentOnce
<1>2. ASSUME NEW r \in Requests, approvePayout(r) PROVE WinningDaySpentOnce'
  <2>1. policy' = policy /\ spent' = [spent EXCEPT ![r] = QualifyingDays]
    BY <1>2 DEF approvePayout
  <2>2. SUFFICES ASSUME policy.model # "DAILY", NEW s \in Requests, s # r
                 PROVE  QualifyingDays \cap spent[s] = {}
    BY <1>0, <2>1 DEF WinningDaySpentOnce
  <2>3. \A d \in QualifyingDays : d > currentCycle.startedOn /\ d \in Dates
    BY QualifyingAreDates DEF QualifyingDays
  <2>4. \A d \in spent[s] : d <= currentCycle.startedOn
    BY <2>2 DEF CycleInv
  <2>5. currentCycle.startedOn \in Int
    BY <1>0, CurrentCycleType DEF CycleShape, CycleRow
  <2>6. QED
    BY <2>3, <2>4, <2>5
<1>3. UNCHANGED <<policy, spent>> \/ \E r \in Requests : approvePayout(r)
  BY DEF PayoutNext, Trading, Judging, Clock, Trade, LoadRow, RollDay, WriteRow, NextSession, Midnight,
         ToggleHold, payoutVars, Asking, Deciding, Settling, requestPayout, simpleTransition, placeHold,
         removeHold, markPaid, Settled, failPayout
<1>4. QED
  BY <1>1, <1>2, <1>3

(* A winning day earns one payout only: the cycle that an approval opens   *)
(* starts on a UTC date no earlier than any day that was counted           *)
(* (payouts.ts:523).                                                       *)
THEOREM DaysAreSpentOnce == PayoutSpec => []WinningDaySpentOnce
<1>1. PayoutInit => CycleInv /\ WinningDaySpentOnce
  BY DEF PayoutInit, CycleInv, WinningDaySpentOnce, In, Pending, NotMade
<1>2. QED
  BY <1>1, TypesHold, ClockHolds, QueueHolds, CycleStep, SpentStep, PTL DEF PayoutSpec

-------------------------------------------------------------------------------
(* The books *)

LEMMA SumGrows ==
  ASSUME NEW T, IsFiniteSet(T), NEW x, x \notin T, NEW f, NEW e,
         f[x] \in Int, \A y \in T : e[y] \in Int /\ f[y] = e[y]
  PROVE  SumFunctionOnSet(f, T \cup {x}) = f[x] + SumFunctionOnSet(e, T)
<1>1. IsFiniteSet(T \cup {x}) /\ x \in T \cup {x}
  BY FS_AddElement
<1>2. \A y \in T \cup {x} : f[y] \in Int
  OBVIOUS
<1>3. SumFunctionOnSet(f, T \cup {x}) = f[x] + SumFunctionOnSet(f, (T \cup {x}) \ {x})
  BY <1>1, <1>2, SumOfOneMore
<1>4. (T \cup {x}) \ {x} = T
  OBVIOUS
<1>5. SumFunctionOnSet(f, T) = SumFunctionOnSet(e, T)
  BY SumsAgree
<1>. QED BY <1>3, <1>4, <1>5

AmountsOf(S, type) == [e \in {entry \in S : entry.type = type} |-> e.amount]
NetsOf(S) == [s \in S |-> s.net]

LEMMA BookedSum ==
  ASSUME NEW S, NEW type
  PROVE  SumFunction(AmountsOf(S, type)) = SumFunctionOnSet(AmountsOf(S, type), {e \in S : e.type = type})
BY DEF SumFunction, AmountsOf

LEMMA BookedIsInt ==
  ASSUME NEW S, IsFiniteSet(S), S \subseteq EntryRow, NEW type
  PROVE  SumFunction(AmountsOf(S, type)) \in Int
<1>. DEFINE T == {e \in S : e.type = type}
<1>1. IsFiniteSet(T)
  BY FS_Subset
<1>2. \A e \in T : AmountsOf(S, type)[e] \in Int
  BY DEF AmountsOf, EntryRow
<1>3. SumFunction(AmountsOf(S, type)) = SumFunctionOnSet(AmountsOf(S, type), T)
  BY BookedSum
<1>. HIDE DEF T
<1>. QED BY <1>1, <1>2, <1>3, SumIsInt

\* Booking an entry adds its amount to the sum of its type and to no other.
LEMMA Booked ==
  ASSUME NEW S, IsFiniteSet(S), S \subseteq EntryRow, NEW entry \in EntryRow, entry \notin S, NEW type
  PROVE  SumFunction(AmountsOf(S \cup {entry}, type)) =
           SumFunction(AmountsOf(S, type)) + (IF entry.type = type THEN entry.amount ELSE 0)
<1>. DEFINE T == {e \in S : e.type = type}
            U == {e \in S \cup {entry} : e.type = type}
<1>1. IsFiniteSet(T) /\ entry \notin T
  BY FS_Subset
<1>2. \A e \in T : AmountsOf(S, type)[e] \in Int /\ AmountsOf(S \cup {entry}, type)[e] = AmountsOf(S, type)[e]
  BY DEF AmountsOf, EntryRow
<1>3. SumFunction(AmountsOf(S, type)) = SumFunctionOnSet(AmountsOf(S, type), T) /\ SumFunction(AmountsOf(S \cup {entry}, type)) = SumFunctionOnSet(AmountsOf(S \cup {entry}, type), U)
  BY BookedSum
<1>4. SumFunction(AmountsOf(S, type)) \in Int
  BY BookedIsInt
<1>5. CASE entry.type = type
  <2>1. U = T \cup {entry}
    BY <1>5
  <2>2. AmountsOf(S \cup {entry}, type)[entry] = entry.amount /\ entry.amount \in Int
    BY <1>5 DEF AmountsOf, EntryRow
  <2>. HIDE DEF T, U
  <2>3. SumFunctionOnSet(AmountsOf(S \cup {entry}, type), T \cup {entry}) = AmountsOf(S \cup {entry}, type)[entry] + SumFunctionOnSet(AmountsOf(S, type), T)
    BY <1>1, <1>2, <2>2, SumGrows
  <2>. QED BY <1>3, <1>4, <1>5, <2>1, <2>2, <2>3
<1>6. CASE entry.type # type
  <2>1. U = T
    BY <1>6
  <2>. HIDE DEF T, U
  <2>2. \A e \in T : AmountsOf(S \cup {entry}, type)[e] = AmountsOf(S, type)[e]
    BY <1>2
  <2>3. SumFunctionOnSet(AmountsOf(S \cup {entry}, type), T) = SumFunctionOnSet(AmountsOf(S, type), T)
    BY <1>1, <2>2, SumsAgree
  <2>. QED BY <1>3, <1>4, <1>6, <2>1, <2>3
<1>. QED BY <1>5, <1>6

LEMMA NetsAreInt ==
  ASSUME NEW S, IsFiniteSet(S), S \subseteq DayRow
  PROVE  SumFunction(NetsOf(S)) \in Int
<1>1. \A s \in S : NetsOf(S)[s] \in Int
  BY DEF NetsOf, DayRow
<1>2. SumFunction(NetsOf(S)) = SumFunctionOnSet(NetsOf(S), S)
  BY DEF SumFunction, NetsOf
<1>. QED BY <1>1, <1>2, SumIsInt

\* So does recording a day.
LEMMA DayCounted ==
  ASSUME NEW S, IsFiniteSet(S), S \subseteq DayRow, NEW row \in DayRow, row \notin S
  PROVE  SumFunction(NetsOf(S \cup {row})) = SumFunction(NetsOf(S)) + row.net
<1>1. \A s \in S : NetsOf(S)[s] \in Int /\ NetsOf(S \cup {row})[s] = NetsOf(S)[s]
  BY DEF NetsOf, DayRow
<1>2. NetsOf(S \cup {row})[row] = row.net /\ row.net \in Int
  BY DEF NetsOf, DayRow
<1>3. SumFunction(NetsOf(S)) = SumFunctionOnSet(NetsOf(S), S) /\ SumFunction(NetsOf(S \cup {row})) = SumFunctionOnSet(NetsOf(S \cup {row}), S \cup {row})
  BY DEF SumFunction, NetsOf
<1>4. SumFunction(NetsOf(S)) \in Int
  BY NetsAreInt
<1>5. SumFunctionOnSet(NetsOf(S \cup {row}), S \cup {row}) = NetsOf(S \cup {row})[row] + SumFunctionOnSet(NetsOf(S), S)
  BY <1>1, <1>2, SumGrows
<1>. QED BY <1>2, <1>3, <1>4, <1>5

\* The books before the first step.
RecordedDay(d) == [date |-> d, net |-> Record[d]]
RecordedDays(U) == {RecordedDay(d) : d \in U}
Recorded == 1..Len(Record)

LEMMA RecordedRows ==
  ASSUME NEW U \in SUBSET Recorded
  PROVE  IsFiniteSet(U) /\ IsFiniteSet(RecordedDays(U)) /\ RecordedDays(U) \subseteq DayRow
<1>1. Len(Record) \in Nat
  OBVIOUS
<1>2. IsFiniteSet(U)
  <2>1. IsFiniteSet(Recorded)
    BY <1>1, FS_Interval, 1 \in Int, Len(Record) \in Int, Zenon DEF Recorded
  <2>. QED BY <2>1, FS_Subset
<1>3. IsFiniteSet(RecordedDays(U))
  <2>. DEFINE f == [d \in U |-> RecordedDay(d)]
  <2>1. f \in Surjection(U, RecordedDays(U))
    BY DEF RecordedDays, Surjection, Range
  <2>. HIDE DEF f
  <2>. QED BY <1>2, <2>1, FS_Surjection
<1>4. RecordedDays(U) \subseteq DayRow
  BY DEF RecordedDays, RecordedDay, Recorded, DayRow
<1>. QED BY <1>2, <1>3, <1>4

LEMMA RecordAddsUp == Earned = SumFunction(NetsOf(RecordedDays(Recorded)))
<1>. DEFINE Sums(U) == SumFunctionOnSet(Record, U) = SumFunction(NetsOf(RecordedDays(U)))
            B == {U \in SUBSET Recorded : ~Sums(U)}
<1>1. Earned = SumFunctionOnSet(Record, Recorded)
  BY DEF Earned, SumFunction, Recorded
<1>2. IsFiniteSet(Recorded) /\ \A d \in Recorded : Record[d] \in Int
  <2>1. \A d \in Recorded : Record[d] \in Int
    BY DEF Recorded
  <2>. QED BY <2>1, RecordedRows
<1>. SUFFICES ASSUME B # {} PROVE FALSE
  BY <1>1
<1>3. PICK U \in B : \A V \in SUBSET U : V # U => V \notin B
  <2>1. B \in SUBSET (SUBSET Recorded)
    OBVIOUS
  <2>. HIDE DEF B
  <2>. QED BY <1>2, <2>1, SmallestSet
<1>4. U # {}
  <2>1. RecordedDays({}) = {} /\ DOMAIN NetsOf({}) = {}
    BY DEF RecordedDays, NetsOf
  <2>2. Sums({})
    BY <2>1, SumOfNone DEF SumFunction
  <2>. QED BY <2>2
<1>5. PICK d \in U : TRUE
  BY <1>4
<1>6. U \in SUBSET Recorded /\ U \ {d} \in SUBSET Recorded /\ d \in Recorded /\ ~Sums(U) /\ Sums(U \ {d})
  BY <1>3
<1>. HIDE DEF B, Sums
<1>7. SumFunctionOnSet(Record, U) = Record[d] + SumFunctionOnSet(Record, U \ {d})
  BY <1>2, <1>6, RecordedRows, SumOfOneMore
<1>8. RecordedDays(U) = RecordedDays(U \ {d}) \cup {RecordedDay(d)}
  BY DEF RecordedDays
<1>9. RecordedDay(d) \notin RecordedDays(U \ {d})
  BY DEF RecordedDays, RecordedDay
<1>10. RecordedDay(d) \in DayRow /\ RecordedDay(d).net = Record[d]
  BY <1>6, RecordedRows, <1>8 DEF RecordedDay
<1>11. SumFunction(NetsOf(RecordedDays(U))) = SumFunction(NetsOf(RecordedDays(U \ {d}))) + Record[d]
  <2>. DEFINE S == RecordedDays(U \ {d})
             row == RecordedDay(d)
  <2>1. IsFiniteSet(S) /\ S \subseteq DayRow
    BY <1>6, RecordedRows
  <2>2. row \in DayRow /\ row \notin S /\ row.net = Record[d] /\ RecordedDays(U) = S \cup {row}
    BY <1>8, <1>9, <1>10
  <2>. HIDE DEF S, row
  <2>3. SumFunction(NetsOf(S \cup {row})) = SumFunction(NetsOf(S)) + row.net
    BY <2>1, <2>2, DayCounted
  <2>4. SumFunction(NetsOf(RecordedDays(U))) = SumFunction(NetsOf(S)) + Record[d]
    BY <2>2, <2>3
  <2>. QED BY <2>4 DEF S
<1>12. SumFunctionOnSet(Record, U \ {d}) \in Int
  BY <1>2, <1>6, RecordedRows, SumIsInt
<1>. QED BY <1>2, <1>6, <1>7, <1>11, <1>12 DEF Sums

\* What the books are made of.
RowsKnown ==
  /\ IsFiniteSet(ledger) /\ IsFiniteSet(results)
  /\ \A s \in results : s.date < account.date
Posted(type) == SumFunction(AmountsOf(ledger, type))
Trades == SumFunction(NetsOf(results)) + traded
BooksInv == RowsKnown /\ account.profit = Trades - Posted("DEBIT") + Posted("REVERSAL")

LEMMA BooksBalanceIs == BooksBalance <=> account.profit = Trades - Posted("DEBIT") + Posted("REVERSAL")
BY DEF BooksBalance, Traded, Sum, Trades, Posted, AmountsOf, NetsOf

LEMMA SumsAreInt == TypeInv /\ RowsKnown => Trades \in Int /\ \A type : Posted(type) \in Int
<1>. SUFFICES ASSUME TypeInv, RowsKnown PROVE Trades \in Int /\ \A type : Posted(type) \in Int
  OBVIOUS
<1>1. ledger \subseteq EntryRow /\ results \subseteq DayRow /\ traded \in Int
  BY DEF TypeInv, PayoutTypeOK, EntryRow
<1>2. SumFunction(NetsOf(results)) \in Int
  BY <1>1, NetsAreInt DEF RowsKnown
<1>3. ASSUME NEW type PROVE Posted(type) \in Int
  BY <1>1, BookedIsInt DEF Posted, RowsKnown
<1>. QED BY <1>1, <1>2, <1>3 DEF Trades

LEMMA BooksInit == PayoutInit => BooksInv
<1>. SUFFICES ASSUME PayoutInit PROVE BooksInv
  OBVIOUS
<1>1. results = RecordedDays(Recorded) /\ ledger = {} /\ traded = 0
  BY DEF PayoutInit, RecordedDays, RecordedDay, Recorded
<1>2. account.profit = Earned /\ account.date = Len(Record) + 1
  BY DEF PayoutInit
<1>3. IsFiniteSet(results) /\ IsFiniteSet(ledger)
  BY <1>1, RecordedRows, FS_EmptySet
<1>4. \A s \in results : s.date < account.date
  BY <1>1, <1>2 DEF RecordedDays, RecordedDay, Recorded
<1>5. Posted("DEBIT") = 0 /\ Posted("REVERSAL") = 0
  <2>1. \A type : DOMAIN AmountsOf(ledger, type) = {}
    BY <1>1 DEF AmountsOf
  <2>. QED BY <2>1, SumOfNone DEF Posted, SumFunction
<1>6. Trades = Earned
  BY <1>1, RecordAddsUp DEF Trades
<1>. QED BY <1>2, <1>3, <1>4, <1>5, <1>6 DEF BooksInv, RowsKnown

\* An entry that is not yet in the ledger adds to the sum of its type.
LEMMA EntryAdds ==
  ASSUME TypeInv, RowsKnown, NEW r \in Requests, NEW type \in {"DEBIT", "SETTLEMENT", "REVERSAL"},
         ~Has(r, type), ledger' = ledger \cup {Entry(r, type)}
  PROVE  /\ IsFiniteSet(ledger')
         /\ \A t : Posted(t)' = Posted(t) + (IF t = type THEN requests[r].gross ELSE 0)
<1>. DEFINE entry == Entry(r, type)
<1>1. entry \in EntryRow /\ entry \notin ledger /\ entry.type = type /\ entry.amount = requests[r].gross
  BY EntryType DEF Entry, Has
<1>2. ledger \subseteq EntryRow /\ IsFiniteSet(ledger)
  BY DEF TypeInv, PayoutTypeOK, EntryRow, RowsKnown
<1>. HIDE DEF entry
<1>3. ledger' = ledger \cup {entry}
  BY DEF entry
<1>4. IsFiniteSet(ledger')
  BY <1>2, <1>3, FS_AddElement
<1>5. ASSUME NEW t PROVE Posted(t)' = Posted(t) + (IF t = type THEN requests[r].gross ELSE 0)
  <2>1. SumFunction(AmountsOf(ledger \cup {entry}, t)) =
          SumFunction(AmountsOf(ledger, t)) + (IF entry.type = t THEN entry.amount ELSE 0)
    BY <1>1, <1>2, Booked
  <2>. QED BY <1>1, <1>3, <2>1 DEF Posted
<1>. QED BY <1>4, <1>5

LEMMA BooksStep ==
  TypeInv /\ LedgerAgrees /\ ClockInv /\ BooksInv /\ [PayoutNext]_payoutVars => BooksInv'
<1>. SUFFICES ASSUME TypeInv, LedgerAgrees, ClockInv, BooksInv, [PayoutNext]_payoutVars
              PROVE  BooksInv'
  OBVIOUS
<1>0. /\ account \in AccountRow /\ pass \in PassRow /\ traded \in Int /\ results \subseteq DayRow
      /\ requests \in [Requests -> RequestRow] /\ account.profit \in Int
  BY DEF TypeInv, PayoutTypeOK, AccountRow, PassRow
<1>1. /\ RowsKnown /\ account.profit = Trades - Posted("DEBIT") + Posted("REVERSAL")
      /\ Trades \in Int /\ \A type : Posted(type) \in Int
  BY SumsAreInt DEF BooksInv
<1>2. \A r \in Requests : TypesOf(r) = Story(requests[r].state)
  BY Told
\* The engine's side: the ledger stays.
<1>3. ASSUME ledger' = ledger, results' = results, account'.date = account.date,
             account'.profit - account.profit = traded' - traded,
             account'.profit \in Int, traded' \in Int
      PROVE  BooksInv'
  <2>1. \A type : Posted(type)' = Posted(type)
    BY <1>3 DEF Posted
  <2>2. SumFunction(NetsOf(results)) \in Int
    BY <1>0, <1>1, NetsAreInt DEF RowsKnown
  <2>3. Trades' = Trades + (traded' - traded)
    BY <1>0, <1>3, <2>2 DEF Trades
  <2>4. RowsKnown'
    BY <1>1, <1>3 DEF RowsKnown
  <2>5. Posted("DEBIT") \in Int /\ Posted("REVERSAL") \in Int
    BY <1>1
  <2>6. Posted("DEBIT")' = Posted("DEBIT") /\ Posted("REVERSAL")' = Posted("REVERSAL")
    BY <2>1
  <2>7. account'.profit = Trades' - Posted("DEBIT")' + Posted("REVERSAL")'
    <3>1. account'.profit = account.profit + (traded' - traded)
      BY <1>0, <1>3
    <3>2. account.profit = Trades - Posted("DEBIT") + Posted("REVERSAL") /\ Trades \in Int
      BY <1>1
    <3>3. traded \in Int /\ traded' \in Int
      BY <1>0, <1>3
    <3>. QED BY <2>3, <2>5, <2>6, <3>1, <3>2, <3>3
  <2>. QED BY <2>4, <2>7 DEF BooksInv
<1>4. ASSUME UNCHANGED <<ledger, results, traded>>, account'.date = account.date,
             account'.profit = account.profit
      PROVE  BooksInv'
  BY <1>0, <1>3, <1>4
<1>5. ASSUME NEW win \in Wins, Trade(win) PROVE BooksInv'
  <2>1. account'.profit = account.profit + win /\ account'.date = account.date
    BY <1>0, <1>5, Zenon DEF Trade, AccountRow
  <2>2. win \in Int /\ traded' = traded + win /\ ledger' = ledger /\ results' = results
    BY <1>5 DEF Trade
  <2>. QED BY <1>0, <1>3, <2>1, <2>2
<1>6. ASSUME RollDay PROVE BooksInv'
  <2>. DEFINE row == [date |-> pass.date, net |-> traded]
  <2>1. account'.profit = account.profit /\ account'.date = pass.mark
    BY <1>0, <1>6, Zenon DEF RollDay, AccountRow
  <2>2. pass.date = account.date /\ pass.date < pass.mark
    BY <1>0, <1>6 DEF RollDay, ClockInv, PassRow
  <2>3. row \in DayRow /\ row \notin results /\ row.net = traded /\ row.date = pass.date
    BY <1>0, <1>1, <2>2 DEF DayRow, PassRow, RowsKnown
  <2>4. results' = results \cup {row} /\ traded' = 0 /\ ledger' = ledger
    BY <1>6 DEF RollDay
  <2>. HIDE DEF row
  <2>5. SumFunction(NetsOf(results \cup {row})) = SumFunction(NetsOf(results)) + row.net
    BY <1>0, <1>1, <2>3, DayCounted DEF RowsKnown
  <2>6. SumFunction(NetsOf(results)) \in Int
    BY <1>0, <1>1, NetsAreInt DEF RowsKnown
  <2>7. Trades' = Trades
    BY <1>0, <2>3, <2>4, <2>5, <2>6 DEF Trades
  <2>8. \A type : Posted(type)' = Posted(type)
    BY <2>4 DEF Posted
  <2>9. IsFiniteSet(results') /\ IsFiniteSet(ledger')
    BY <1>1, <2>4, FS_AddElement DEF RowsKnown
  <2>10. \A s \in results' : s.date < account'.date
    BY <1>0, <1>1, <2>1, <2>2, <2>3, <2>4 DEF RowsKnown, DayRow, PassRow
  <2>. QED BY <1>1, <2>1, <2>7, <2>8, <2>9, <2>10 DEF BooksInv, RowsKnown
<1>7. ASSUME LoadRow \/ WriteRow \/ Clock \/ ToggleHold PROVE BooksInv'
  <2>1. account'.profit = account.profit /\ account'.date = account.date
    BY <1>0, <1>7, Zenon DEF LoadRow, WriteRow, Clock, NextSession, Midnight, ToggleHold, AccountRow
  <2>2. UNCHANGED <<ledger, results, traded>>
    BY <1>7 DEF LoadRow, WriteRow, Clock, NextSession, Midnight, ToggleHold
  <2>. QED BY <1>4, <2>1, <2>2
\* The desk's side: an entry is booked and the balance moves by it.
<1>8. ASSUME NEW r \in Requests, NEW type \in {"DEBIT", "SETTLEMENT", "REVERSAL"},
             type \notin TypesOf(r), ledger' = ledger \cup {Entry(r, type)},
             UNCHANGED <<results, traded>>, account'.date = account.date,
             account'.profit = CASE type = "DEBIT" -> account.profit - requests[r].gross
                                 [] type = "REVERSAL" -> account.profit + requests[r].gross
                                 [] OTHER -> account.profit
      PROVE  BooksInv'
  <2>1. ~Has(r, type)
    BY <1>8 DEF Has, TypesOf
  <2>2. /\ IsFiniteSet(ledger')
        /\ \A t : Posted(t)' = Posted(t) + (IF t = type THEN requests[r].gross ELSE 0)
    BY <1>1, <1>8, <2>1, EntryAdds
  <2>3. Trades' = Trades
    BY <1>8 DEF Trades
  <2>4. RowsKnown'
    BY <1>1, <1>8, <2>2 DEF RowsKnown
  <2>5. requests[r].gross \in Int
    BY <1>0 DEF RequestRow
  <2>6. account'.profit = Trades' - Posted("DEBIT")' + Posted("REVERSAL")'
    <3>1. Posted("DEBIT") \in Int /\ Posted("REVERSAL") \in Int
      BY <1>1
    <3>2. /\ Posted("DEBIT")' = Posted("DEBIT") + (IF type = "DEBIT" THEN requests[r].gross ELSE 0)
          /\ Posted("REVERSAL")' = Posted("REVERSAL") + (IF type = "REVERSAL" THEN requests[r].gross ELSE 0)
      BY <2>2
    <3>3. CASE type = "DEBIT"
      <4>1. /\ account'.profit = account.profit - requests[r].gross
            /\ Posted("DEBIT")' = Posted("DEBIT") + requests[r].gross
            /\ Posted("REVERSAL")' = Posted("REVERSAL")
        BY <1>8, <3>1, <3>2, <3>3
      <4>. QED BY <1>0, <1>1, <2>3, <2>5, <3>1, <4>1
    <3>4. CASE type = "REVERSAL"
      <4>1. /\ account'.profit = account.profit + requests[r].gross
            /\ Posted("DEBIT")' = Posted("DEBIT")
            /\ Posted("REVERSAL")' = Posted("REVERSAL") + requests[r].gross
        BY <1>8, <3>1, <3>2, <3>4
      <4>. QED BY <1>0, <1>1, <2>3, <2>5, <3>1, <4>1
    <3>5. CASE type = "SETTLEMENT"
      <4>1. /\ account'.profit = account.profit
            /\ Posted("DEBIT")' = Posted("DEBIT")
            /\ Posted("REVERSAL")' = Posted("REVERSAL")
        BY <1>8, <3>1, <3>2, <3>5
      <4>. QED BY <1>0, <1>1, <2>3, <2>5, <3>1, <4>1
    <3>. QED BY <3>3, <3>4, <3>5
  <2>. QED BY <2>4, <2>6 DEF BooksInv
<1>9. ASSUME NEW r \in Requests, approvePayout(r) PROVE BooksInv'
  <2>1. requests[r].state \in {"REQUESTED", "UNDER_REVIEW"}
    BY <1>0, <1>9, AllowedMoves DEF approvePayout, Approvable, RequestRow
  <2>2. "DEBIT" \notin TypesOf(r)
    BY <1>2, <2>1 DEF Story
  <2>3. account'.profit = account.profit - requests[r].gross /\ account'.date = account.date
    BY <1>0, <1>9, Zenon DEF approvePayout, Debited, AccountRow
  <2>4. ledger' = ledger \cup {Entry(r, "DEBIT")} /\ UNCHANGED <<results, traded>>
    BY <1>9 DEF approvePayout
  <2>. QED BY <1>8, <2>2, <2>3, <2>4
<1>10. ASSUME NEW r \in Requests, markPaid(r) PROVE BooksInv'
  <2>1. requests[r].state = "PROCESSING"
    BY <1>0, <1>10, AllowedMoves DEF markPaid, RequestRow
  <2>2. "SETTLEMENT" \notin TypesOf(r)
    BY <1>2, <2>1 DEF Story
  <2>3. account'.profit = account.profit /\ account'.date = account.date
    BY <1>0, <1>10, Zenon DEF markPaid, Settled, AccountRow
  <2>4. ledger' = ledger \cup {Entry(r, "SETTLEMENT")} /\ UNCHANGED <<results, traded>>
    BY <1>10 DEF markPaid, Settled
  <2>. QED BY <1>8, <2>2, <2>3, <2>4
<1>11. ASSUME NEW r \in Requests, failPayout(r) PROVE BooksInv'
  <2>1. "REVERSAL" \notin TypesOf(r)
    BY <1>2, <1>11 DEF failPayout, Story
  <2>2. ~Has(r, "REVERSAL")
    BY <2>1 DEF Has, TypesOf
  <2>3. account' = Credited(requests[r].gross) /\ ledger' = ledger \cup {Entry(r, "REVERSAL")}
        /\ UNCHANGED <<results, traded>>
    BY <1>11, <2>2 DEF failPayout
  <2>4. account'.profit = account.profit + requests[r].gross /\ account'.date = account.date
    BY <1>0, <2>3, Zenon DEF Credited, AccountRow
  <2>. QED BY <1>8, <2>1, <2>3, <2>4
<1>12. ASSUME NEW r \in Requests,
              \/ \E gross \in Amounts : requestPayout(r, gross)
              \/ \E to \in {"REJECTED", "CANCELLED", "PROCESSING"} : simpleTransition(r, to)
              \/ placeHold(r) \/ removeHold(r)
       PROVE  BooksInv'
  <2>1. UNCHANGED <<account, results, traded, ledger>>
    BY <1>12 DEF requestPayout, simpleTransition, placeHold, removeHold, accountVars
  <2>. QED BY <1>4, <2>1
<1>13. CASE UNCHANGED payoutVars
  BY <1>4, <1>13 DEF payoutVars
<1>. QED
  BY <1>5, <1>6, <1>7, <1>9, <1>10, <1>11, <1>12, <1>13
  DEF PayoutNext, Trading, Judging, Asking, Deciding, Settling

(* No money appears or vanishes over the life of an account: its profit is *)
(* what trading made, less what was debited, plus what was given back,     *)
(* however many requests and days there are, and also when a reversal      *)
(* falls between the two halves of a pass (payouts.ts:431,                 *)
(* payout-operations.ts:606): a pass writes no balance.                    *)
THEOREM BooksAlwaysBalance == PayoutSpec => []BooksBalance
<1>1. BooksInv => BooksBalance
  BY BooksBalanceIs DEF BooksInv
<1>2. PayoutInit => LedgerAgrees
  BY DEF PayoutInit, NotMade, LedgerAgrees
<1>. QED
  BY <1>1, <1>2, TypesHold, LedgerStep, ClockHolds, BooksInit, BooksStep, PTL DEF PayoutSpec

-------------------------------------------------------------------------------
(* What the days show *)

\* The recorded days add up to no more than the current day began with and
\* the debits have taken since; nor would they with the row a pass has loaded.
ShownInv ==
  /\ IsFiniteSet(stats)
  /\ RecordedNet <= account.dayStart + Posted("DEBIT")
  /\ pass.on => RecordedNet <= pass.dayStart + Posted("DEBIT")

LEMMA ShownIsInt == TypeInv /\ IsFiniteSet(stats) => RecordedNet \in Int
BY NetsAreInt DEF TypeInv, PayoutTypeOK, RecordedNet, NetsOf

\* What the desk does to the day's anchor and to the debits.
LEMMA DeskAnchors ==
  ASSUME TypeInv, LedgerAgrees, RowsKnown, Asking \/ Deciding \/ Settling
  PROVE  /\ account'.dayStart + Posted("DEBIT")' >= account.dayStart + Posted("DEBIT")
         /\ LockFree \/ Posted("DEBIT")' = Posted("DEBIT")
         /\ Posted("DEBIT")' \in Int
<1>0. /\ account \in AccountRow /\ account.dayStart \in Int /\ requests \in [Requests -> RequestRow]
      /\ \A r \in Requests : requests[r].gross \in Nat
      /\ Posted("DEBIT") \in Int
  BY SumsAreInt DEF TypeInv, PayoutTypeOK, AccountRow, RequestRow
<1> DEFINE Kept == /\ account'.dayStart + Posted("DEBIT")' >= account.dayStart + Posted("DEBIT")
                   /\ LockFree \/ Posted("DEBIT")' = Posted("DEBIT")
                   /\ Posted("DEBIT")' \in Int
<1>1. \A r \in Requests : TypesOf(r) = Story(requests[r].state)
  BY Told
<1>2. ASSUME NEW r \in Requests, approvePayout(r) PROVE Kept
  <2>1. requests[r].state \in {"REQUESTED", "UNDER_REVIEW"}
    BY <1>0, <1>2, AllowedMoves DEF approvePayout, Approvable, RequestRow
  <2>2. ~Has(r, "DEBIT")
    BY <1>1, <2>1 DEF Story, Has, TypesOf
  <2>3. account'.dayStart = account.dayStart - requests[r].gross
    BY <1>0, <1>2, Zenon DEF approvePayout, Debited, AccountRow
  <2>4. ledger' = ledger \cup {Entry(r, "DEBIT")} /\ LockFree
    BY <1>2 DEF approvePayout
  <2>5. Posted("DEBIT")' = Posted("DEBIT") + requests[r].gross
    BY <2>2, <2>4, EntryAdds
  <2>6. QED
    BY <1>0, <2>3, <2>4, <2>5
<1>3. ASSUME NEW r \in Requests, failPayout(r) PROVE Kept
  <2>1. ~Has(r, "REVERSAL")
    BY <1>1, <1>3 DEF failPayout, Story, Has, TypesOf
  <2>2. account' = Credited(requests[r].gross) /\ ledger' = ledger \cup {Entry(r, "REVERSAL")}
    BY <1>3, <2>1 DEF failPayout
  <2>3. account'.dayStart = account.dayStart + requests[r].gross
    BY <1>0, <2>2, Zenon DEF Credited, AccountRow
  <2>4. Posted("DEBIT")' = Posted("DEBIT") + 0
    BY <2>1, <2>2, EntryAdds
  <2>5. QED
    BY <1>0, <2>3, <2>4
<1>4. ASSUME NEW r \in Requests, markPaid(r) PROVE Kept
  <2>1. requests[r].state = "PROCESSING"
    BY <1>0, <1>4, AllowedMoves DEF markPaid, RequestRow
  <2>2. ~Has(r, "SETTLEMENT")
    BY <1>1, <2>1 DEF Story, Has, TypesOf
  <2>3. account'.dayStart = account.dayStart /\ ledger' = ledger \cup {Entry(r, "SETTLEMENT")}
    BY <1>0, <1>4, Zenon DEF markPaid, Settled, AccountRow
  <2>4. Posted("DEBIT")' = Posted("DEBIT") + 0
    BY <2>2, <2>3, EntryAdds
  <2>5. QED
    BY <1>0, <2>3, <2>4
<1>5. ASSUME NEW r \in Requests,
             \/ \E gross \in Amounts : requestPayout(r, gross)
             \/ \E to \in {"REJECTED", "CANCELLED", "PROCESSING"} : simpleTransition(r, to)
             \/ placeHold(r) \/ removeHold(r)
      PROVE  Kept
  <2>1. account' = account /\ ledger' = ledger
    BY <1>5 DEF requestPayout, simpleTransition, placeHold, removeHold, accountVars
  <2>2. Posted("DEBIT")' = Posted("DEBIT")
    BY <2>1 DEF Posted
  <2>3. QED
    BY <1>0, <2>1, <2>2
<1> HIDE DEF Kept
<1>6. Kept
  BY <1>2, <1>3, <1>4, <1>5 DEF Asking, Deciding, Settling
<1>7. QED
  BY <1>6 DEF Kept

LEMMA ShownStep ==
  TypeInv /\ LedgerAgrees /\ ClockInv /\ BooksInv /\ ShownInv /\ [PayoutNext]_payoutVars => ShownInv'
<1> SUFFICES ASSUME TypeInv, LedgerAgrees, ClockInv, BooksInv, ShownInv, [PayoutNext]_payoutVars
             PROVE  ShownInv'
  OBVIOUS
<1>0. /\ account \in AccountRow /\ pass \in PassRow /\ stats \subseteq DayRow
      /\ account.dayStart \in Int /\ pass.dayStart \in Int /\ pass.profit \in Int
      /\ RowsKnown /\ Posted("DEBIT") \in Int /\ IsFiniteSet(stats) /\ RecordedNet \in Int
  BY SumsAreInt, ShownIsInt DEF TypeInv, PayoutTypeOK, AccountRow, PassRow, BooksInv, ShownInv
\* Whoever closes no day.
<1>1. ASSUME UNCHANGED <<stats, ledger>>,
             account'.dayStart \in {account.dayStart, pass.dayStart},
             pass.on \/ account'.dayStart = account.dayStart,
             \/ pass' = pass \/ ~pass'.on \/ pass'.dayStart = account.dayStart
      PROVE  ShownInv'
  <2>1. RecordedNet' = RecordedNet /\ Posted("DEBIT")' = Posted("DEBIT")
    BY <1>1 DEF RecordedNet, Posted
  <2>2. QED
    BY <1>0, <1>1, <2>1 DEF ShownInv
<1>2. ASSUME Trading PROVE ShownInv'
  <2>1. account'.dayStart = account.dayStart
    BY <1>0, <1>2, Zenon DEF Trading, Trade, AccountRow
  <2>2. QED
    BY <1>1, <1>2, <2>1 DEF Trading, Trade
<1>3. ASSUME LoadRow PROVE ShownInv'
  <2>1. pass'.dayStart = account.dayStart /\ UNCHANGED <<account, stats, ledger>>
    BY <1>3 DEF LoadRow
  <2>2. QED
    BY <1>1, <2>1
<1>4. ASSUME WriteRow PROVE ShownInv'
  <2>1. account'.dayStart \in {account.dayStart, pass.dayStart}
    BY <1>0, <1>4, Zenon DEF WriteRow, AccountRow
  <2>2. pass.on /\ ~pass'.on /\ UNCHANGED <<stats, ledger>>
    BY <1>4 DEF WriteRow, NoPass
  <2>3. QED
    BY <1>1, <2>1, <2>2
<1>5. ASSUME RollDay PROVE ShownInv'
  <2>1. account'.dayStart = pass.profit
    BY <1>0, <1>5, Zenon DEF RollDay, AccountRow
  <2>2. pass.on /\ pass.date = account.date /\ ~pass'.on /\ ledger' = ledger
    BY <1>5 DEF RollDay, ClockInv, NoPass
  <2>3. stats' = stats \cup {ClosedDay} /\ ClosedDay \notin stats
    BY <1>0, <1>5, <2>2 DEF RollDay, ClockInv, DayRow, AccountRow, ClosedDay
  <2>4. ClosedDay \in DayRow /\ ClosedDay.net = pass.profit - pass.dayStart
    BY <1>0 DEF ClosedDay, DayRow, PassRow
  <2>5. RecordedNet' = RecordedNet + (pass.profit - pass.dayStart)
    <3>1. SumFunction(NetsOf(stats \cup {ClosedDay})) = SumFunction(NetsOf(stats)) + ClosedDay.net
      BY <1>0, <2>3, <2>4, DayCounted
    <3>2. QED
      BY <2>3, <2>4, <3>1 DEF RecordedNet, NetsOf
  <2>6. IsFiniteSet(stats')
    BY <1>0, <2>3, FS_AddElement
  <2>7. Posted("DEBIT")' = Posted("DEBIT")
    BY <2>2 DEF Posted
  <2>8. RecordedNet <= pass.dayStart + Posted("DEBIT")
    BY <2>2 DEF ShownInv
  <2>9. QED
    BY <1>0, <2>1, <2>2, <2>5, <2>6, <2>7, <2>8 DEF ShownInv
<1>6. ASSUME Clock PROVE ShownInv'
  BY <1>1, <1>6 DEF Clock, NextSession, Midnight
<1>7. ASSUME ToggleHold PROVE ShownInv'
  <2>1. account'.dayStart = account.dayStart
    BY <1>0, <1>7, Zenon DEF ToggleHold, AccountRow
  <2>2. QED
    BY <1>1, <1>7, <2>1 DEF ToggleHold
<1>8. ASSUME Asking \/ Deciding \/ Settling PROVE ShownInv'
  <2>1. stats' = stats /\ pass' = pass
    BY <1>8, BesideTheDay
  <2>2. account'.dayStart + Posted("DEBIT")' >= account.dayStart + Posted("DEBIT")
        /\ (LockFree \/ Posted("DEBIT")' = Posted("DEBIT"))
        /\ Posted("DEBIT")' \in Int
    BY <1>0, <1>8, DeskAnchors
  <2>3. TypeInv'
    BY TypeStep
  <2>4. account'.dayStart \in Int
    BY <2>3 DEF TypeInv, PayoutTypeOK
  <2>5. RecordedNet' = RecordedNet
    BY <2>1 DEF RecordedNet
  <2>6. QED
    BY <1>0, <2>1, <2>2, <2>4, <2>5 DEF ShownInv, LockFree
<1>9. CASE UNCHANGED payoutVars
  BY <1>1, <1>9 DEF payoutVars
<1>10. QED
  BY <1>2, <1>3, <1>4, <1>5, <1>6, <1>7, <1>8, <1>9 DEF PayoutNext, Judging

LEMMA ShownInit == PayoutInit => ShownInv
<1> SUFFICES ASSUME PayoutInit PROVE ShownInv
  OBVIOUS
<1>1. BooksInv /\ stats = results /\ traded = 0 /\ ~pass.on /\ ledger = {}
      /\ account.dayStart = account.profit
  BY BooksInit DEF PayoutInit, NoPass
<1>2. RecordedNet = SumFunction(NetsOf(results))
  BY <1>1 DEF RecordedNet, NetsOf
<1>3. Posted("DEBIT") = Posted("REVERSAL")
  BY <1>1 DEF Posted, AmountsOf
<1>4. TypeInv /\ Trades \in Int /\ Posted("DEBIT") \in Int
  BY <1>1, TypeInit, SumsAreInt DEF BooksInv
<1>5. RecordedNet \in Int /\ IsFiniteSet(stats)
  BY <1>1, <1>4, ShownIsInt DEF BooksInv, RowsKnown
<1>6. Posted("DEBIT") = 0
  <2>1. DOMAIN AmountsOf(ledger, "DEBIT") = {}
    BY <1>1 DEF AmountsOf
  <2>2. QED
    BY <2>1, SumOfNone DEF Posted, SumFunction
<1>7. account.dayStart = RecordedNet
  BY <1>1, <1>2, <1>3, <1>4, <1>5, <1>6 DEF BooksInv, Trades
<1>8. QED
  BY <1>1, <1>5, <1>6, <1>7 DEF ShownInv

(* A withdrawal is never taken for a day's loss, and what the days show    *)
(* beyond their trading is money that failed payouts gave back, each in    *)
(* one day at most, wherever the reversals fall, inside a pass too         *)
(* (payouts.ts:431, payout-operations.ts:606).                             *)
THEOREM DaysMisreadNoMore == PayoutSpec => []DaysMisreadOnlyReversals
<1>1. TypeInv /\ DayInv /\ BooksInv /\ ShownInv => DaysMisreadOnlyReversals
  <2> SUFFICES ASSUME TypeInv, DayInv, BooksInv, ShownInv PROVE DaysMisreadOnlyReversals
    OBVIOUS
  <2>1. Traded = Trades /\ Sum("REVERSAL") = Posted("REVERSAL")
    BY DEF Traded, Trades, NetsOf, Sum, Posted, AmountsOf
  <2>2. /\ RowsKnown /\ account.profit = Trades - Posted("DEBIT") + Posted("REVERSAL")
        /\ Trades \in Int /\ Posted("DEBIT") \in Int /\ Posted("REVERSAL") \in Int
    BY SumsAreInt DEF BooksInv
  <2>3. RecordedNet \in Int /\ RecordedNet <= account.dayStart + Posted("DEBIT")
    BY ShownIsInt DEF ShownInv
  <2>4. account.dayStart \in Int /\ account.profit \in Int
    BY DEF TypeInv, PayoutTypeOK
  <2>5. ReversalsShowOnce
    BY <2>1, <2>2, <2>3, <2>4 DEF ReversalsShowOnce, DayNet
  <2>6. QED
    BY <2>5 DEF DaysMisreadOnlyReversals, DayInv
<1>2. PayoutInit => LedgerAgrees
  BY DEF PayoutInit, NotMade, LedgerAgrees
<1>3. PayoutSpec => []ShownInv
  BY <1>2, TypesHold, LedgerStep, ClockHolds, BooksInit, BooksStep, ShownInit, ShownStep, PTL DEF PayoutSpec
<1>4. PayoutSpec => []BooksInv
  BY <1>2, TypesHold, LedgerStep, ClockHolds, BooksInit, BooksStep, PTL DEF PayoutSpec
<1>5. QED
  BY <1>1, <1>3, <1>4, TypesHold, DayHolds, PTL

-------------------------------------------------------------------------------
(* Acceptance and approval *)

\* Opening a cycle changes nothing that the approval looks at, except that the
\* first one may leave out the day of activation.
LEMMA CycleOpened ==
  ASSUME TypeInv, CycleInv, cycles' = ensureCycle, UNCHANGED <<policy, account, stats>>
  PROVE  /\ currentCycle'.unlocked <=> currentCycle.unlocked \/ DailyUnlocked
         /\ cycles # <<>> => currentCycle'.startedOn = currentCycle.startedOn
         /\ cycles = <<>> => /\ currentCycle.closed /\ currentCycle.startedOn = 0
                             /\ currentCycle'.startedOn = ActivatedOn
<1>0. cycles \in Seq(CycleRow)
  BY DEF TypeInv, PayoutTypeOK
<1>1. CASE cycles = <<>>
  <2>. DEFINE first == [startedOn |-> ActivatedOn, closed |-> FALSE, unlocked |-> DailyUnlocked]
  <2>1. currentCycle.closed /\ ~currentCycle.unlocked /\ currentCycle.startedOn = 0
    BY <1>1 DEF currentCycle
  <2>2. cycles' = Append(cycles, first)
    BY <2>1, Zenon DEF ensureCycle
  <2>3. first.startedOn = ActivatedOn /\ (first.unlocked <=> DailyUnlocked)
    OBVIOUS
  <2>. HIDE DEF first
  <2>4. cycles' = <<first>>
    BY <1>1, <2>2
  <2>5. cycles' # <<>> /\ Len(cycles') = 1 /\ cycles'[1] = first
    BY <2>4
  <2>6. currentCycle' = first
    BY <2>5, Zenon DEF currentCycle
  <2>. QED BY <1>1, <2>1, <2>3, <2>6
<1>2. CASE cycles # <<>>
  <2>. DEFINE last == cycles[Len(cycles)]
              row == [last EXCEPT !.unlocked = @ \/ DailyUnlocked]
  <2>1. last \in CycleRow /\ Len(cycles) \in 1..Len(cycles) /\ ~last.closed /\ currentCycle = last
    BY <1>0, <1>2 DEF CycleInv, currentCycle
  <2>2. row.startedOn = last.startedOn /\ (row.unlocked <=> last.unlocked \/ DailyUnlocked)
    BY <2>1, Zenon DEF CycleRow
  <2>3. cycles' = [cycles EXCEPT ![Len(cycles)] = row]
    BY <2>1, Zenon DEF ensureCycle
  <2>. HIDE DEF row, last
  <2>4. currentCycle' = row
    BY <1>0, <2>1, <2>3 DEF currentCycle
  <2>. QED BY <2>1, <2>2, <2>4
<1>. QED BY <1>1, <1>2

LEMMA AcceptedStep ==
  ASSUME TypeInv, CycleInv, NEW r \in Requests, NEW gross \in Amounts, requestPayout(r, gross),
         ~NeedsActivationDay
  PROVE  Approvable(r)'
<1>0. requests \in [Requests -> RequestRow]
  BY DEF TypeInv, PayoutTypeOK
<1>1. /\ UNCHANGED <<policy, account, stats>> /\ cycles' = ensureCycle
      /\ requests[r].state = "NONE" /\ resolvePayoutRequest({}, gross, NextOrdinal)
  BY DEF requestPayout, accountVars
<1>2. /\ requests'[r].state = "REQUESTED" /\ requests'[r].gross = gross /\ ~requests'[r].held
      /\ \A s \in Requests \ {r} : requests'[s] = requests[s]
  <2>1. requests'[r] = [NotMade EXCEPT !.state = "REQUESTED", !.gross = gross,
                                       !.ordinal = NextOrdinal, !.cycle = Len(ensureCycle)]
    BY <1>0, Zenon DEF requestPayout
  <2>2. \A s \in Requests \ {r} : requests'[s] = requests[s]
    BY <1>0 DEF requestPayout
  <2>. QED BY <2>1, <2>2, Zenon DEF NotMade
<1>3. In(Standing)' = In(Standing) /\ r \notin In(Standing)
  BY <1>1, <1>2 DEF In, Standing
<1>4. NextOrdinal' = NextOrdinal
  BY <1>3 DEF NextOrdinal
<1>5. Eligible({})
  BY <1>1 DEF resolvePayoutRequest
<1>6. In(NON_TERMINAL)' \ {r} = {}
  BY <1>2, <1>5 DEF Eligible, pendingRequestExists, In
<1>7. Eligible({r})'
  <2>1. ~account'.held /\ ~pendingRequestExists({r})' /\ Cardinality(In(Standing)') < MAX_PAYOUT_CYCLES
    BY <1>1, <1>3, <1>5, <1>6 DEF Eligible, pendingRequestExists
  <2>2. grossWithdrawable(account.profit)' >= policy'.min
    BY <1>1, <1>5 DEF Eligible, grossWithdrawable
  <2>3. CASE policy.model = "DAILY"
    <3>1. DailyUnlocked
      BY <1>5, <2>3 DEF Eligible
    <3>2. DailyUnlocked'
      BY <1>1, <2>3, <3>1, CycleOpened DEF DailyUnlocked
    <3>3. \A s \in In(Standing)' \ {r} : account'.profit > requests'[s].qualifying
      BY <1>1, <1>2, <1>3, <1>5, <2>3 DEF Eligible, In
    <3>. QED BY <1>1, <2>1, <2>2, <2>3, <3>2, <3>3 DEF Eligible
  <2>4. CASE policy.model # "DAILY"
    <3>1. EnoughDays /\ Consistent
      BY <1>5, <2>4 DEF Eligible
    <3>2. ASSUME cycles # <<>> PROVE EnoughDays'
      <4>1. currentCycle'.startedOn = currentCycle.startedOn
        BY <1>1, <3>2, CycleOpened
      <4>. QED BY <1>1, <3>1, <4>1 DEF EnoughDays, QualifyingDays
    <3>3. ASSUME cycles = <<>> PROVE EnoughDays'
      <4>1. /\ currentCycle.closed /\ currentCycle.startedOn = 0
            /\ currentCycle'.startedOn = ActivatedOn /\ ActivatedOn \in Nat
        BY <1>1, <3>3, CycleOpened, PayoutAssumption
      <4>2. Cardinality({d \in QualifyingDays : d > ActivatedOn}) >= policy.days
        BY <2>4, <4>1 DEF NeedsActivationDay
      <4>3. stats \subseteq DayRow
        BY DEF TypeInv, PayoutTypeOK
      <4>4. QualifyingDays' = {d \in QualifyingDays : d > ActivatedOn}
        <5>1. \A s \in stats : s.date > ActivatedOn => s.date > 0
          BY <4>1, <4>3 DEF DayRow, Dates
        <5>2. QualifyingDays = {s.date : s \in {d \in stats : d.net >= policy.threshold /\ d.date > 0}}
          BY <4>1 DEF QualifyingDays
        <5>3. QualifyingDays' = {s.date : s \in {d \in stats : d.net >= policy.threshold /\ d.date > ActivatedOn}}
          BY <1>1, <4>1 DEF QualifyingDays
        <5>. QED BY <5>1, <5>2, <5>3
      <4>. QED BY <1>1, <4>2, <4>4 DEF EnoughDays
    <3>4. Consistent'
      BY <1>1, <3>1 DEF Consistent
    <3>. QED BY <1>1, <2>1, <2>2, <2>4, <3>2, <3>3, <3>4, Zenon DEF Eligible
  <2>. QED BY <2>3, <2>4
<1>8. resolvePayoutRequest({r}, requests[r].gross, NextOrdinal)'
  BY <1>1, <1>2, <1>4, <1>7 DEF resolvePayoutRequest, capForOrdinal, grossWithdrawable
<1>9. "APPROVED" \in ALLOWED["REQUESTED"]
  BY DEF ALLOWED
<1>. QED BY <1>2, <1>8, <1>9 DEF Approvable

LEMMA OnlyRequestAccepts ==
  ASSUME TypeInv, [PayoutNext]_payoutVars, NEW r \in Requests, Accepted(r)
  PROVE  \E gross \in Amounts : requestPayout(r, gross)
<1>0. requests \in [Requests -> RequestRow]
  BY DEF TypeInv, PayoutTypeOK
<1>1. requests' # requests /\ requests[r].state = "NONE" /\ requests'[r].state = "REQUESTED"
  BY DEF Accepted
<1>2. ASSUME NEW s \in Requests, NEW to \in {"REJECTED", "CANCELLED", "PROCESSING"},
             \/ approvePayout(s) \/ placeHold(s) \/ removeHold(s) \/ simpleTransition(s, to)
             \/ markPaid(s) \/ failPayout(s)
      PROVE  FALSE
  <2>1. CASE removeHold(s)
    <3>1. requests'[r].state = requests[r].state
      BY <1>0, <2>1, Zenon DEF removeHold, RequestRow
    <3>. QED BY <1>1, <3>1
  <2>2. CASE ~removeHold(s)
    <3>1. s # r
      BY <1>1, <1>2, <2>2 DEF approvePayout, placeHold, simpleTransition, markPaid, failPayout
    <3>2. requests'[r] = requests[r]
      BY <1>0, <1>2, <2>2, <3>1
      DEF approvePayout, placeHold, simpleTransition, markPaid, Settled, failPayout
    <3>. QED BY <1>1, <3>2
  <2>. QED BY <2>1, <2>2
<1>3. Asking
  BY <1>1, <1>2 DEF PayoutNext, Trading, Judging, Clock, Trade, LoadRow, RollDay, WriteRow, NextSession,
                    Midnight, ToggleHold, payoutVars, Deciding, Settling
<1>4. PICK s \in Requests, gross \in Amounts : requestPayout(s, gross)
  BY <1>3 DEF Asking
<1>5. s = r
  BY <1>0, <1>1, <1>4 DEF requestPayout
<1>. QED BY <1>4, <1>5

LEMMA CyclesHold == PayoutSpec => []CycleInv
<1>1. PayoutInit => CycleInv
  BY DEF PayoutInit, CycleInv, In, Pending, NotMade
<1>. QED BY <1>1, TypesHold, ClockHolds, QueueHolds, CycleStep, PTL DEF PayoutSpec

(* A request that is accepted could be approved as it stands, the request  *)
(* itself and the cycle it opens included, whatever the date of            *)
(* activation: all but a first request that needs a winning day of that    *)
(* date (payouts.ts:345, payouts.ts:396).                                  *)
THEOREM AcceptanceStands == PayoutSpec => AcceptedIsApprovable
<1>1. TypeInv /\ CycleInv /\ [PayoutNext]_payoutVars
        => [\A r \in Requests : Accepted(r) /\ ~NeedsActivationDay => Approvable(r)']_payoutVars
  BY OnlyRequestAccepts, AcceptedStep
<1>. QED BY <1>1, TypesHold, CyclesHold, PTL DEF PayoutSpec, AcceptedIsApprovable

-------------------------------------------------------------------------------
(* The rail *)

USE RailAssumption DEF RailAssumption

Gone == {"PAID", "RETURNED"}
KeyState(r) == provider[idempotencyKeyFor(r)]
Debts(r) == Has(r, "DEBIT")

\* Every request bears a number that makes a key.
NumbersInv ==
  \A r \in Requests : requests[r].state # "NONE" => requests[r].ordinal \in 1..MAX_PAYOUT_CYCLES
\* The provider knows the one key of a request, of one that was debited.
KeysInv ==
  \A key \in Keys : provider[key] # "NONE" =>
    requests[key[1]].state # "NONE" /\ key = idempotencyKeyFor(key[1]) /\ Debts(key[1])
\* What it has reported is so.
EventsInv ==
  \A event \in webhooks :
    /\ provider[event[1]] # "NONE" /\ event[2] # "ACCEPTED"
    /\ event[2] = "FAILED" => provider[event[1]] = "FAILED"
    /\ event[2] = "PAID" => provider[event[1]] \in Gone
\* What is booked as settled was sent, what was given back never is.
SettledInv ==
  \A r \in Requests :
    /\ requests[r].state = "PAID" => KeyState(r) \in Gone
    /\ requests[r].state = "FAILED" => KeyState(r) = "FAILED"
\* What waits to be submitted was debited, what is shown as paid is paid.
OpInv ==
  \A r \in Requests :
    /\ op[r].state # "NONE" => requests[r].state # "NONE"
    /\ op[r].state = "PAYABLE" => Debts(r)
    /\ op[r].state \in Terminal => requests[r].state = "PAID"
\* What a task has read and no other will change.
Knows(task) ==
  /\ requests[task.r].state # "NONE"
  /\ task.at \in {"paid", "step", "settle", "book"} => KeyState(task.r) \in Gone
  /\ task.at = "book" => requests[task.r].state = "PAID"
  /\ task.at = "payable" => Debts(task.r)
  /\ task.kind = "ingest" => <<idempotencyKeyFor(task.r), task.got>> \in webhooks
  /\ task.kind = "ingest" /\ task.at \in {"apply", "patch"} => task.got # "PAID"
  /\ task.kind = "reconcile" =>
       /\ task.was \in OpState
       /\ task.was \in Terminal => requests[task.r].state = "PAID"
       /\ task.was = "PAYABLE" => Debts(task.r)
  /\ task.kind = "submit" => Debts(task.r) /\ (task.got = "PAID" => KeyState(task.r) \in Gone)
TasksInv == \A t \in Tasks : tasks[t] # NoTask => Knows(tasks[t])

LedgerSide == TypeInv /\ LedgerAgrees /\ NumbersInv
RailTyped ==
  /\ op \in [Requests -> OpRow] /\ tasks \in [Tasks -> TaskRow \cup {NoTask}]
  /\ provider \in [Keys -> ProviderState \cup {"NONE"}]
  /\ webhooks \subseteq Keys \X ProviderState /\ seen \subseteq webhooks
ProviderSide == KeysInv /\ EventsInv /\ SettledInv
RailInv == LedgerSide /\ RailTyped /\ ProviderSide /\ OpInv /\ TasksInv

\* What the seven kinds of steps do to the ledger and to the provider.
Accepts(r) == \E gross \in Amounts : requestPayout(r, gross)
Goes(r) == \E to \in {"REJECTED", "PROCESSING"} : simpleTransition(r, to)
Settles(r) == requests[r].state \in Underway /\ Settled(r) /\ KeyState(r) \in Gone
Fails(r) == failPayout(r) /\ KeyState(r) = "FAILED"
Submitted(r) ==
  /\ Debts(r) /\ KeyState(r) = "NONE" /\ UNCHANGED <<payoutVars, webhooks>>
  /\ \E status \in ProviderState \cup {"NONE"} :
       provider' = [provider EXCEPT ![idempotencyKeyFor(r)] = status]
Beside == UNCHANGED <<payoutVars, provider, webhooks>>
AtDesk ==
  /\ UNCHANGED <<provider, webhooks>>
  /\ \E r \in Requests : Accepts(r) \/ approvePayout(r) \/ Goes(r) \/ Settles(r) \/ Fails(r)
AtProvider == (\E r \in Requests : Submitted(r)) \/ (\E key \in Keys : ProviderMoves(key))

LEMMA TaskHas ==
  ASSUME RailInv, NEW t \in Tasks, tasks[t].at \in Statement \/ tasks[t].kind \in Kind \/ tasks[t] # NoTask
  PROVE  tasks[t] \in TaskRow /\ Knows(tasks[t]) /\ tasks[t].r \in Requests /\ tasks[t] # NoTask
<1>1. tasks[t] \in TaskRow \cup {NoTask}
  BY DEF RailInv, RailTyped
<1>2. tasks[t] # NoTask
  <2>1. NoTask.at = None /\ NoTask.kind = None
    BY DEF NoTask
  <2>. QED BY <2>1
<1>3. tasks[t] \in TaskRow
  BY <1>1, <1>2
<1>. QED BY <1>2, <1>3 DEF RailInv, TasksInv, TaskRow

LEMMA KeyOf ==
  ASSUME LedgerSide, NEW r \in Requests, requests[r].state # "NONE"
  PROVE  idempotencyKeyFor(r) \in Keys /\ idempotencyKeyFor(r)[1] = r
<1>1. requests[r].ordinal \in 1..(MAX_PAYOUT_CYCLES + MAX_SUBMISSION_ATTEMPTS)
  BY DEF LedgerSide, NumbersInv
<1>. QED BY <1>1 DEF idempotencyKeyFor, Keys

LEMMA DebtOf ==
  ASSUME LedgerAgrees, NEW r \in Requests
  PROVE  Debts(r) <=> requests[r].state \in Underway \cup {"PAID", "FAILED"}
<1>1. TypesOf(r) = Story(requests[r].state)
  BY Told
<1>2. Debts(r) <=> "DEBIT" \in TypesOf(r)
  BY DEF Debts, Has, TypesOf
<1>. QED BY <1>1, <1>2 DEF Story, Underway

LEMMA SubmitCallMoves ==
  ASSUME RailInv, NEW r \in Requests, SubmitCall(r)
  PROVE  Beside \/ Submitted(r)
<1>1. Debts(r)
  BY DEF SubmitCall, RailInv, OpInv
<1>2. PICK answer \in Answers(idempotencyKeyFor(r)) :
        provider' = [provider EXCEPT ![idempotencyKeyFor(r)] = answer[2]]
  BY DEF SubmitCall
<1>3. UNCHANGED <<payoutVars, webhooks>>
  BY DEF SubmitCall
<1>4. CASE KeyState(r) = "NONE"
  <2>1. answer[2] \in ProviderState \cup {"NONE"}
    BY <1>2, <1>4 DEF Answers, KeyState, ProviderState
  <2>. QED BY <1>1, <1>2, <1>3, <1>4, <2>1 DEF Submitted
<1>5. CASE KeyState(r) # "NONE"
  <2>1. answer[2] = provider[idempotencyKeyFor(r)]
    BY <1>2, <1>5 DEF Answers, KeyState
  <2>2. provider' = provider
    BY <1>2, <2>1 DEF RailInv, RailTyped
  <2>. QED BY <1>3, <2>2 DEF Beside
<1>. QED BY <1>4, <1>5

LEMMA TryMoves ==
  ASSUME NEW r \in Requests, TryProcessing(r)
  PROVE  UNCHANGED payoutVars \/ Goes(r)
BY DEF TryProcessing, Goes

LEMMA SubmitCommitMoves ==
  ASSUME RailInv, SubmitCommit
  PROVE  Beside \/ AtDesk
<1>1. /\ tasks[Worker].kind = "submit" /\ UNCHANGED <<provider, webhooks>>
  BY DEF SubmitCommit, At
<1>. DEFINE r == tasks[Worker].r
            got == tasks[Worker].got
<1>2. r \in Requests /\ Knows(tasks[Worker])
  <2>1. Worker \in Tasks /\ tasks[Worker].kind \in Kind
    BY <1>1 DEF Tasks, Kind
  <2>. QED BY <2>1, TaskHas
<1>3. \/ UNCHANGED payoutVars \/ TryProcessing(r)
      \/ Effective(r, got) = "PAID" /\ SettledAtOnce(r)
  BY DEF SubmitCommit
<1>4. CASE Effective(r, got) = "PAID" /\ SettledAtOnce(r)
  <2>1. KeyState(r) \in Gone
    BY <1>1, <1>2, <1>4 DEF Effective, Knows, KeyState, Gone
  <2>. QED BY <1>1, <1>2, <1>4, <2>1 DEF SettledAtOnce, Settles, AtDesk, Beside, Underway
<1>. QED BY <1>1, <1>2, <1>3, <1>4, TryMoves DEF AtDesk, Beside

LEMMA CallMoves ==
  ASSUME RailInv, NEW t \in Callers, Proceeds(t)
  PROVE  Beside \/ AtDesk
<1>. DEFINE r == tasks[t].r
<1>0. t \in Tasks
  BY DEF Tasks
<1>1. CASE FastLaneClaim(t) \/ FastLaneMark(t) \/ FastLaneCheck(t) \/ FastLaneEnds(t) \/ PaidRead(t)
           \/ PaidBook(t) \/ IngestFind(t) \/ IngestPatch(t) \/ ReconcileAsk(t) \/ ReconcileLast(t)
  BY <1>1 DEF FastLaneClaim, FastLaneMark, FastLaneCheck, FastLaneEnds, PaidRead, PaidBook, IngestFind,
              IngestPatch, ReconcileAsk, ReconcileLast, Beside, rail
<1>2. CASE FastLaneApprove(t)
  <2>1. r \in Requests
    BY <1>0, <1>2, TaskHas DEF FastLaneApprove, At, Statement
  <2>2. UNCHANGED <<provider, webhooks>> /\ (UNCHANGED payoutVars \/ approvePayout(r))
    BY <1>2 DEF FastLaneApprove, rail
  <2>. QED BY <2>1, <2>2 DEF AtDesk, Beside
<1>3. CASE PaidStep(t)
  <2>1. r \in Requests
    BY <1>0, <1>3, TaskHas DEF PaidStep, Statement
  <2>2. UNCHANGED <<provider, webhooks>> /\ TryProcessing(r)
    BY <1>3 DEF PaidStep, rail
  <2>. QED BY <2>1, <2>2, TryMoves DEF AtDesk, Beside
<1>4. CASE PaidSettle(t)
  <2>1. r \in Requests /\ Knows(tasks[t]) /\ tasks[t].at = "settle"
    BY <1>0, <1>4, TaskHas DEF PaidSettle, Statement
  <2>2. UNCHANGED <<provider, webhooks>> /\ (UNCHANGED payoutVars \/ markPaid(r))
    BY <1>4 DEF PaidSettle, rail
  <2>3. CASE markPaid(r)
    <3>1. requests[r] \in RequestRow
      BY <2>1 DEF RailInv, LedgerSide, TypeInv, PayoutTypeOK
    <3>2. requests[r].state = "PROCESSING"
      BY <2>3, <3>1, AllowedMoves DEF markPaid, RequestRow
    <3>. QED BY <2>1, <2>2, <2>3, <3>2 DEF markPaid, Settles, AtDesk, Knows, Underway
  <2>. QED BY <2>2, <2>3 DEF Beside
<1>5. CASE IngestApply(t)
  <2>1. r \in Requests /\ Knows(tasks[t]) /\ tasks[t].kind = "ingest"
    BY <1>0, <1>5, TaskHas DEF IngestApply, At, Statement
  <2>2. UNCHANGED <<provider, webhooks>>
    BY <1>5 DEF IngestApply
  <2>3. \/ UNCHANGED payoutVars \/ TryProcessing(r)
        \/ tasks[t].got = "FAILED" /\ failPayout(r)
    BY <1>5 DEF IngestApply
  <2>4. ASSUME tasks[t].got = "FAILED" PROVE KeyState(r) = "FAILED"
    <3>1. <<idempotencyKeyFor(r), "FAILED">> \in webhooks
      BY <2>1, <2>4 DEF Knows
    <3>2. \A event \in webhooks : event[2] = "FAILED" => provider[event[1]] = "FAILED"
      BY DEF RailInv, ProviderSide, EventsInv
    <3>. QED BY <3>1, <3>2 DEF KeyState
  <2>. QED BY <2>1, <2>2, <2>3, <2>4, TryMoves DEF AtDesk, Beside, Fails
<1>. QED BY <1>1, <1>2, <1>3, <1>4, <1>5 DEF Proceeds

LEMMA RailMoves ==
  ASSUME RailInv, [Next]_vars
  PROVE  Beside \/ AtDesk \/ AtProvider
<1>1. CASE Desk
  BY <1>1 DEF Desk, Asking, Accepts, Goes, AtDesk, rail
<1>2. CASE Submits
  BY <1>2, SubmitCallMoves DEF Submits, AtProvider
<1>3. CASE \E t \in Tasks : Crash(t)
  BY <1>3 DEF Crash, Beside, rail
<1>4. CASE \E key \in Keys : ProviderMoves(key)
  BY <1>4 DEF AtProvider
<1>5. ASSUME NEW t \in Callers,
             \/ \E event \in webhooks : Ingest(t, event)
             \/ \E r \in Requests : FastLane(t, r) \/ Reconcile(t, r) \/ ManualPaid(t, r)
      PROVE  Beside
  BY <1>5 DEF Ingest, FastLane, Reconcile, ManualPaid, Beside, rail
<1>6. CASE UNCHANGED vars
  BY <1>6 DEF vars, Beside
<1>. QED BY <1>1, <1>2, <1>3, <1>4, <1>5, <1>6, SubmitCommitMoves, CallMoves DEF Next, Tasks

\* How the row of a request moves, and what backs the move at the provider.
RowMoves(r) ==
  /\ \A s \in Requests \ {r} : requests'[s] = requests[s]
  /\ ledger \subseteq ledger'
  /\ \/ /\ requests[r].state = "NONE" /\ requests'[r].state = "REQUESTED"
        /\ requests'[r].ordinal \in 1..MAX_PAYOUT_CYCLES
     \/ /\ requests'[r].ordinal = requests[r].ordinal
        /\ \/ requests[r].state \in Pending /\ requests'[r].state = "REJECTED"
           \/ /\ requests[r].state \in Pending /\ requests'[r].state = "APPROVED"
              /\ In(NON_TERMINAL) \subseteq {r}
           \/ requests[r].state = "APPROVED" /\ requests'[r].state = "PROCESSING"
           \/ /\ requests[r].state \in Underway /\ requests'[r].state = "PAID"
              /\ KeyState(r) \in Gone
           \/ /\ requests[r].state \in Underway /\ requests'[r].state = "FAILED"
              /\ KeyState(r) = "FAILED"

LEMMA NumberIsKnown ==
  ASSUME LedgerSide, NEW r \in Requests, NEW gross \in Amounts, requestPayout(r, gross)
  PROVE  NextOrdinal \in 1..MAX_PAYOUT_CYCLES
<1>1. In(Standing) \subseteq Requests
  BY DEF In
<1>2. Cardinality(In(Standing)) \in Nat
  BY <1>1, CountIsNat
<1>3. Cardinality(In(Standing)) < MAX_PAYOUT_CYCLES
  BY DEF requestPayout, resolvePayoutRequest, Eligible
<1>. QED BY <1>2, <1>3 DEF NextOrdinal

LEMMA DeskRow ==
  ASSUME RailInv, NEW r \in Requests, Accepts(r) \/ approvePayout(r) \/ Goes(r) \/ Settles(r) \/ Fails(r)
  PROVE  RowMoves(r) /\ TypeInv' /\ LedgerAgrees'
<1>0. /\ TypeInv /\ LedgerAgrees /\ requests \in [Requests -> RequestRow]
      /\ requests[r].state \in PayoutState \cup {"NONE"}
  BY DEF RailInv, LedgerSide, TypeInv, PayoutTypeOK, RequestRow
<1>1. ASSUME NEW gross \in Amounts, requestPayout(r, gross)
      PROVE  RowMoves(r) /\ TypeInv' /\ LedgerAgrees'
  <2>1. PayoutNext
    BY <1>1 DEF PayoutNext, Asking
  <2>2. /\ requests[r].state = "NONE" /\ requests'[r].state = "REQUESTED"
        /\ requests'[r].ordinal = NextOrdinal
    BY <1>0, <1>1, Zenon DEF requestPayout, NotMade
  <2>3. ledger' = ledger /\ \A s \in Requests \ {r} : requests'[s] = requests[s]
    BY <1>0, <1>1 DEF requestPayout
  <2>4. NextOrdinal \in 1..MAX_PAYOUT_CYCLES
    BY <1>1, NumberIsKnown DEF RailInv
  <2>. QED BY <1>0, <2>1, <2>2, <2>3, <2>4, TypeStep, LedgerStep DEF RowMoves
<1>2. ASSUME approvePayout(r)
      PROVE  RowMoves(r) /\ TypeInv' /\ LedgerAgrees'
  <2>1. PayoutNext
    BY <1>2 DEF PayoutNext, Deciding
  <2>2. requests[r].state \in Pending
    BY <1>0, <1>2, AllowedMoves DEF approvePayout, Approvable, Pending
  <2>3. requests'[r].state = "APPROVED" /\ requests'[r].ordinal = requests[r].ordinal
    BY <1>0, <1>2, Zenon DEF approvePayout, RequestRow
  <2>4. ledger \subseteq ledger' /\ \A s \in Requests \ {r} : requests'[s] = requests[s]
    BY <1>0, <1>2 DEF approvePayout
  <2>5. In(NON_TERMINAL) \subseteq {r}
    BY <1>2 DEF approvePayout, Approvable, resolvePayoutRequest, Eligible, pendingRequestExists
  <2>. QED BY <1>0, <2>1, <2>2, <2>3, <2>4, <2>5, TypeStep, LedgerStep DEF RowMoves
<1>3. ASSUME NEW to \in {"REJECTED", "PROCESSING"}, simpleTransition(r, to)
      PROVE  RowMoves(r) /\ TypeInv' /\ LedgerAgrees'
  <2>1. PayoutNext
    BY <1>3 DEF PayoutNext, Deciding, Settling
  <2>2. \/ requests[r].state \in Pending /\ to = "REJECTED"
        \/ requests[r].state = "APPROVED" /\ to = "PROCESSING"
    BY <1>0, <1>3, AllowedMoves DEF simpleTransition, Pending
  <2>3. requests'[r].state = to /\ requests'[r].ordinal = requests[r].ordinal
    BY <1>0, <1>3, Zenon DEF simpleTransition, RequestRow
  <2>4. ledger' = ledger /\ \A s \in Requests \ {r} : requests'[s] = requests[s]
    BY <1>0, <1>3 DEF simpleTransition
  <2>. QED BY <1>0, <2>1, <2>2, <2>3, <2>4, TypeStep, LedgerStep DEF RowMoves
<1>4. ASSUME Settles(r)
      PROVE  RowMoves(r) /\ TypeInv' /\ LedgerAgrees'
  <2>1. requests[r].state \in Underway /\ Settled(r) /\ KeyState(r) \in Gone
    BY <1>4 DEF Settles
  <2>2. requests'[r].state = "PAID" /\ requests'[r].ordinal = requests[r].ordinal
    BY <1>0, <2>1, Zenon DEF Settled, RequestRow
  <2>3. ledger \subseteq ledger' /\ \A s \in Requests \ {r} : requests'[s] = requests[s]
    BY <1>0, <2>1 DEF Settled
  <2>4. TypeInv' /\ LedgerAgrees'
    BY <1>0, <2>1, TypeSettled, LedgerSettled DEF Underway
  <2>. QED BY <2>1, <2>2, <2>3, <2>4 DEF RowMoves
<1>5. ASSUME Fails(r)
      PROVE  RowMoves(r) /\ TypeInv' /\ LedgerAgrees'
  <2>1. failPayout(r) /\ KeyState(r) = "FAILED" /\ PayoutNext
    BY <1>5 DEF Fails, PayoutNext, Settling
  <2>2. /\ requests[r].state \in Underway /\ requests'[r].state = "FAILED"
        /\ requests'[r].ordinal = requests[r].ordinal
    BY <1>0, <2>1, Zenon DEF failPayout, Underway, RequestRow
  <2>3. ledger \subseteq ledger' /\ \A s \in Requests \ {r} : requests'[s] = requests[s]
    BY <1>0, <2>1 DEF failPayout
  <2>. QED BY <1>0, <2>1, <2>2, <2>3, TypeStep, LedgerStep DEF RowMoves
<1>. QED BY <1>1, <1>2, <1>3, <1>4, <1>5 DEF Accepts, Goes

\* What never goes back, whatever step is taken.
Onward ==
  /\ ledger \subseteq ledger' /\ webhooks \subseteq webhooks'
  /\ \A r \in Requests :
       /\ requests[r].state # "NONE" =>
            requests'[r].state # "NONE" /\ requests'[r].ordinal = requests[r].ordinal
       /\ requests[r].state \in {"PAID", "FAILED"} => requests'[r].state = requests[r].state
  /\ \A key \in Keys :
       /\ provider[key] # "NONE" => provider'[key] # "NONE"
       /\ provider[key] \in Gone => provider'[key] \in Gone
       /\ provider[key] = "FAILED" => provider'[key] = "FAILED"

LEMMA DebtsStay == ASSUME NEW r, ledger \subseteq ledger', Debts(r) PROVE Debts(r)'
BY DEF Debts, Has

LEMMA DeskOnward ==
  ASSUME RailInv, AtDesk
  PROVE  LedgerSide' /\ ProviderSide' /\ Onward
<1>1. PICK r \in Requests : Accepts(r) \/ approvePayout(r) \/ Goes(r) \/ Settles(r) \/ Fails(r)
  BY DEF AtDesk
<1>2. RowMoves(r) /\ TypeInv' /\ LedgerAgrees' /\ UNCHANGED <<provider, webhooks>>
  BY <1>1, DeskRow DEF AtDesk
<1>3. Onward
  BY <1>2 DEF RowMoves, Onward, Pending, Underway
<1>4. NumbersInv'
  BY <1>2 DEF RowMoves, NumbersInv, RailInv, LedgerSide, Pending, Underway
<1>5. KeysInv'
  <2>. SUFFICES ASSUME NEW key \in Keys, provider[key] # "NONE"
                PROVE  requests'[key[1]].state # "NONE" /\ key = idempotencyKeyFor(key[1])' /\ Debts(key[1])'
    BY <1>2 DEF KeysInv
  <2>1. key[1] \in Requests
    BY DEF Keys
  <2>2. requests[key[1]].state # "NONE" /\ key = idempotencyKeyFor(key[1]) /\ Debts(key[1])
    BY DEF RailInv, ProviderSide, KeysInv
  <2>3. Debts(key[1])'
    BY <1>3, <2>2, DebtsStay DEF Onward
  <2>. QED BY <1>3, <2>1, <2>2, <2>3 DEF Onward, idempotencyKeyFor
<1>6. EventsInv'
  BY <1>2 DEF RailInv, ProviderSide, EventsInv
<1>7. SettledInv'
  <2>. SUFFICES ASSUME NEW s \in Requests
                PROVE  /\ requests'[s].state = "PAID" => KeyState(s)' \in Gone
                       /\ requests'[s].state = "FAILED" => KeyState(s)' = "FAILED"
    BY DEF SettledInv
  <2>1. /\ requests[s].state = "PAID" => KeyState(s) \in Gone
        /\ requests[s].state = "FAILED" => KeyState(s) = "FAILED"
    BY DEF RailInv, ProviderSide, SettledInv
  <2>2. requests'[s].state \in {"PAID", "FAILED"} => requests'[s].ordinal = requests[s].ordinal
    BY <1>2 DEF RowMoves
  <2>3. requests'[s].ordinal = requests[s].ordinal => KeyState(s)' = KeyState(s)
    BY <1>2 DEF KeyState, idempotencyKeyFor
  <2>. QED BY <1>2, <2>1, <2>2, <2>3 DEF RowMoves, Pending, Underway
<1>. QED BY <1>2, <1>3, <1>4, <1>5, <1>6, <1>7 DEF LedgerSide, ProviderSide

LEMMA LedgerSideStays ==
  ASSUME LedgerSide, UNCHANGED payoutVars
  PROVE  LedgerSide' /\ UNCHANGED <<requests, ledger>>
<1>1. UNCHANGED <<requests, ledger>>
  BY DEF payoutVars
<1>2. TypeInv' /\ LedgerAgrees'
  BY TypeStep, LedgerStep DEF LedgerSide
<1>. QED BY <1>1, <1>2 DEF LedgerSide, NumbersInv

LEMMA BesideOnward ==
  ASSUME RailInv, Beside
  PROVE  LedgerSide' /\ ProviderSide' /\ Onward
<1>1. UNCHANGED <<requests, ledger, provider, webhooks>> /\ LedgerSide'
  BY LedgerSideStays DEF Beside, RailInv
<1>2. ProviderSide'
  BY <1>1 DEF RailInv, ProviderSide, KeysInv, EventsInv, SettledInv, KeyState, Debts, Has, idempotencyKeyFor
<1>. QED BY <1>1, <1>2 DEF Onward

\* The provider moves one key on, one that is known.
KeyMoves(r) ==
  /\ Debts(r) /\ UNCHANGED payoutVars /\ webhooks \subseteq webhooks'
  /\ \A key \in Keys \ {idempotencyKeyFor(r)} : provider'[key] = provider[key]
  /\ \A event \in webhooks' :
       event \notin webhooks => event = <<idempotencyKeyFor(r), KeyState(r)'>> /\ KeyState(r)' \notin {"NONE", "ACCEPTED"}
  /\ \/ KeyState(r) = "NONE"
     \/ KeyState(r) \in {"ACCEPTED", "PROCESSING"} /\ KeyState(r)' # "NONE"
     \/ KeyState(r) = "PAID" /\ KeyState(r)' = "RETURNED"

LEMMA ProviderRow ==
  ASSUME RailInv, AtProvider
  PROVE  /\ \E r \in Requests : KeyMoves(r)
         /\ provider' \in [Keys -> ProviderState \cup {"NONE"}]
         /\ webhooks' \subseteq Keys \X ProviderState
<1>0. provider \in [Keys -> ProviderState \cup {"NONE"}] /\ webhooks \subseteq Keys \X ProviderState
  BY DEF RailInv, RailTyped
<1>1. ASSUME NEW r \in Requests, Submitted(r)
      PROVE  /\ KeyMoves(r)
             /\ provider' \in [Keys -> ProviderState \cup {"NONE"}]
             /\ webhooks' \subseteq Keys \X ProviderState
  BY <1>0, <1>1 DEF Submitted, KeyMoves
<1>2. ASSUME NEW key \in Keys, ProviderMoves(key)
      PROVE  /\ \E r \in Requests : KeyMoves(r)
             /\ provider' \in [Keys -> ProviderState \cup {"NONE"}]
             /\ webhooks' \subseteq Keys \X ProviderState
  <2>1. PICK status \in Moves(provider[key]) :
          /\ provider' = [provider EXCEPT ![key] = status] /\ webhooks' = webhooks \cup {<<key, status>>}
          /\ UNCHANGED payoutVars
    BY <1>2 DEF ProviderMoves
  <2>2. /\ status \in ProviderState
        /\ \/ provider[key] \in {"ACCEPTED", "PROCESSING"}
           \/ provider[key] = "PAID" /\ status = "RETURNED"
    BY <1>0 DEF Moves, ProviderState
  <2>3. /\ key = idempotencyKeyFor(key[1]) /\ Debts(key[1]) /\ key[1] \in Requests
    BY <2>2 DEF RailInv, ProviderSide, KeysInv, Keys
  <2>4. requests' = requests
    BY <2>1 DEF payoutVars
  <2>5. KeyState(key[1]) = provider[key] /\ KeyState(key[1])' = status
    BY <1>0, <2>1, <2>3, <2>4 DEF KeyState, idempotencyKeyFor
  <2>6. status \notin {"NONE", "ACCEPTED"}
    BY DEF Moves
  <2>7. KeyMoves(key[1])
    BY <1>0, <2>1, <2>2, <2>3, <2>5, <2>6 DEF KeyMoves
  <2>. QED BY <1>0, <2>1, <2>2, <2>3, <2>7
<1>. QED BY <1>1, <1>2 DEF AtProvider

LEMMA ProviderOnward ==
  ASSUME RailInv, AtProvider
  PROVE  LedgerSide' /\ ProviderSide' /\ Onward
<1>1. PICK r \in Requests : KeyMoves(r)
  BY ProviderRow
<1>2. LedgerSide' /\ UNCHANGED <<requests, ledger>>
  BY <1>1, LedgerSideStays DEF KeyMoves, RailInv
<1>. DEFINE mine == idempotencyKeyFor(r)
<1>3. requests[r].state # "NONE" /\ mine[1] = r /\ mine \in Keys
  <2>1. requests[r].state # "NONE"
    BY <1>1, DebtOf DEF KeyMoves, RailInv, LedgerSide, Underway
  <2>. QED BY <2>1, KeyOf DEF RailInv
<1>4. \A s \in Requests : idempotencyKeyFor(s)' = idempotencyKeyFor(s) /\ (Debts(s)' <=> Debts(s))
  BY <1>2 DEF idempotencyKeyFor, Debts, Has
<1>5. KeyState(r) = provider[mine] /\ KeyState(r)' = provider'[mine]
  BY <1>4 DEF KeyState
<1>6. \A key \in Keys :
        /\ provider[key] # "NONE" => provider'[key] # "NONE"
        /\ provider[key] \in Gone => provider'[key] \in Gone
        /\ provider[key] = "FAILED" => provider'[key] = "FAILED"
  BY <1>1, <1>5 DEF KeyMoves, Gone
<1>7. Onward
  BY <1>1, <1>2, <1>6 DEF Onward, KeyMoves
<1>8. KeysInv'
  BY <1>1, <1>2, <1>3, <1>4 DEF KeysInv, KeyMoves, RailInv, ProviderSide, Keys
<1>9. EventsInv'
  <2>. SUFFICES ASSUME NEW event \in webhooks'
                PROVE  /\ provider'[event[1]] # "NONE" /\ event[2] # "ACCEPTED"
                       /\ event[2] = "FAILED" => provider'[event[1]] = "FAILED"
                       /\ event[2] = "PAID" => provider'[event[1]] \in Gone
    BY DEF EventsInv
  <2>1. CASE event \in webhooks
    <3>1. event[1] \in Keys
      BY <2>1 DEF RailInv, RailTyped
    <3>. QED BY <1>6, <2>1, <3>1 DEF RailInv, ProviderSide, EventsInv
  <2>2. CASE event \notin webhooks
    <3>1. event = <<mine, KeyState(r)'>> /\ KeyState(r)' \notin {"NONE", "ACCEPTED"}
      BY <1>1, <2>2 DEF KeyMoves
    <3>. HIDE DEF mine
    <3>. QED BY <1>5, <3>1 DEF Gone
  <2>. QED BY <2>1, <2>2
<1>10. SettledInv'
  <2>. SUFFICES ASSUME NEW s \in Requests, requests[s].state \in {"PAID", "FAILED"}
                PROVE  /\ requests[s].state = "PAID" => KeyState(s)' \in Gone
                       /\ requests[s].state = "FAILED" => KeyState(s)' = "FAILED"
    BY <1>2 DEF SettledInv
  <2>1. idempotencyKeyFor(s) \in Keys
    BY KeyOf DEF RailInv
  <2>2. /\ requests[s].state = "PAID" => KeyState(s) \in Gone
        /\ requests[s].state = "FAILED" => KeyState(s) = "FAILED"
    BY DEF RailInv, ProviderSide, SettledInv
  <2>. QED BY <1>4, <1>6, <2>1, <2>2 DEF KeyState
<1>. QED BY <1>2, <1>7, <1>8, <1>9, <1>10 DEF ProviderSide

LEMMA RailOnward ==
  ASSUME RailInv, [Next]_vars
  PROVE  LedgerSide' /\ ProviderSide' /\ Onward
BY RailMoves, BesideOnward, DeskOnward, ProviderOnward

\* What a task knows stays true.
LEMMA KnowsStays ==
  ASSUME RailInv, Onward, NEW task, task.r \in Requests, Knows(task)
  PROVE  Knows(task)'
<1>. DEFINE r == task.r
<1>1. /\ requests'[r].state # "NONE" /\ requests'[r].ordinal = requests[r].ordinal
      /\ requests[r].state = "PAID" => requests'[r].state = "PAID"
  BY DEF Onward, Knows
<1>2. idempotencyKeyFor(r)' = idempotencyKeyFor(r) /\ idempotencyKeyFor(r) \in Keys
  <2>1. requests[r].state # "NONE"
    BY DEF Knows
  <2>. QED BY <1>1, <2>1, KeyOf DEF idempotencyKeyFor, RailInv
<1>3. KeyState(r) \in Gone => KeyState(r)' \in Gone
  BY <1>2 DEF Onward, KeyState
<1>4. Debts(r) => Debts(r)'
  BY DebtsStay DEF Onward
<1>5. \A event \in webhooks : event \in webhooks'
  BY DEF Onward
<1>. QED BY <1>1, <1>2, <1>3, <1>4, <1>5 DEF Knows

OpOnward == op' \in [Requests -> OpRow] /\ OpInv'
TasksOnward == tasks' \in [Tasks -> TaskRow \cup {NoTask}] /\ TasksInv'

LEMMA OpStays ==
  ASSUME RailInv, Onward, NEW r \in Requests
  PROVE  /\ op[r].state # "NONE" => requests'[r].state # "NONE"
         /\ op[r].state = "PAYABLE" => Debts(r)'
         /\ op[r].state \in Terminal => requests'[r].state = "PAID"
BY DebtsStay DEF RailInv, OpInv, Onward, Terminal

LEMMA OpUnchanged ==
  ASSUME RailInv, Onward, op' = op PROVE OpOnward
BY OpStays DEF OpOnward, OpInv, RailInv, RailTyped

LEMMA OpWritten ==
  ASSUME RailInv, Onward, NEW r \in Requests, NEW row \in OpRow, op' = [op EXCEPT ![r] = row],
         requests'[r].state # "NONE",
         row.state = "PAYABLE" => Debts(r)',
         row.state \in Terminal => requests'[r].state = "PAID"
  PROVE  OpOnward
<1>1. op \in [Requests -> OpRow]
  BY DEF RailInv, RailTyped
<1>2. op'[r] = row /\ \A s \in Requests \ {r} : op'[s] = op[s]
  BY <1>1
<1>3. op' \in [Requests -> OpRow]
  BY <1>1
<1>. QED BY <1>2, <1>3, OpStays DEF OpOnward, OpInv

LEMMA OpPatched ==
  ASSUME RailInv, Onward, NEW r \in Requests, NEW state \in OpState,
         op' = [op EXCEPT ![r].state = state], requests'[r].state # "NONE",
         state = "PAYABLE" => Debts(r)',
         state \in Terminal => requests'[r].state = "PAID"
  PROVE  OpOnward
<1>1. op \in [Requests -> OpRow]
  BY DEF RailInv, RailTyped
<1>. DEFINE row == [op[r] EXCEPT !.state = state]
<1>2. row \in OpRow /\ row.state = state
  <2>1. op[r] \in OpRow
    BY <1>1
  <2>. QED BY <2>1, Zenon DEF OpRow
<1>3. op' = [op EXCEPT ![r] = row]
  BY <1>1
<1>. HIDE DEF row
<1>. QED BY <1>2, <1>3, OpWritten

LEMMA TaskWritten ==
  ASSUME RailInv, Onward, NEW t \in Tasks, NEW row, tasks' = [tasks EXCEPT ![t] = row],
         row = NoTask \/ (row \in TaskRow /\ Knows(row)')
  PROVE  TasksOnward
<1>1. tasks \in [Tasks -> TaskRow \cup {NoTask}]
  BY DEF RailInv, RailTyped
<1>2. tasks'[t] = row /\ \A u \in Tasks \ {t} : tasks'[u] = tasks[u]
  BY <1>1
<1>3. tasks' \in [Tasks -> TaskRow \cup {NoTask}]
  BY <1>1
<1>4. ASSUME NEW u \in Tasks, tasks'[u] # NoTask PROVE Knows(tasks[u])'
  <2>1. CASE u = t
    BY <1>2, <1>4, <2>1 DEF Knows
  <2>2. CASE u # t
    <3>1. PICK task : task = tasks[u]
      OBVIOUS
    <3>2. tasks'[u] = task
      BY <1>2, <2>2, <3>1
    <3>3. Knows(task) /\ task.r \in Requests
      BY <1>4, <3>1, <3>2, TaskHas
    <3>4. Knows(task)'
      BY <3>3, KnowsStays
    <3>. QED BY <3>2, <3>4 DEF Knows
  <2>. QED BY <2>1, <2>2
<1>. QED BY <1>3, <1>4 DEF TasksOnward, TasksInv

LEMMA TasksUnchanged ==
  ASSUME RailInv, Onward, tasks' = tasks PROVE TasksOnward
<1>1. PICK row : row = tasks[Worker]
  OBVIOUS
<1>2. Worker \in Tasks
  BY DEF Tasks
<1>3. tasks' = [tasks EXCEPT ![Worker] = row]
  BY <1>1, <1>2 DEF RailInv, RailTyped
<1>4. row = NoTask \/ (row \in TaskRow /\ Knows(row)')
  <2>. SUFFICES ASSUME row # NoTask PROVE row \in TaskRow /\ Knows(row)'
    OBVIOUS
  <2>1. row \in TaskRow /\ Knows(row) /\ row.r \in Requests
    BY <1>1, <1>2, TaskHas
  <2>. QED BY <2>1, KnowsStays
<1>. QED BY <1>2, <1>3, <1>4, TaskWritten

LEMMA TaskDone ==
  ASSUME RailInv, Onward, NEW t \in Tasks, Done(t) PROVE TasksOnward
BY TaskWritten DEF Done

\* A task goes on to a statement, given what it has to know there.
LEMMA TaskGoes ==
  ASSUME RailInv, Onward, NEW t \in Tasks, NEW task \in TaskRow, task = tasks[t],
         NEW at \in Statement, NEW got,
         tasks' = [tasks EXCEPT ![t].at = at, ![t].got = got],
         got \in Outcome \cup ProviderState \cup {"NONE", "own", "manual", None},
         got = task.got \/ task.kind = "reconcile",
         at \in {"paid", "step", "settle", "book"} => KeyState(task.r)' \in Gone,
         at = "book" => requests'[task.r].state = "PAID",
         at = "payable" => Debts(task.r)',
         task.kind = "ingest" /\ at \in {"apply", "patch"} => got # "PAID"
  PROVE  TasksOnward
<1>1. tasks[t] # NoTask
  BY DEF TaskRow, NoTask
<1>2. Knows(task) /\ task.r \in Requests
  BY <1>1, TaskHas
<1>3. PICK row : row = [task EXCEPT !.at = at, !.got = got]
  OBVIOUS
<1>4. /\ row \in TaskRow /\ row.r = task.r /\ row.kind = task.kind /\ row.was = task.was
      /\ row.at = at /\ row.got = got
  BY <1>2, <1>3 DEF TaskRow
<1>5. tasks' = [tasks EXCEPT ![t] = row]
  BY <1>1, <1>3 DEF RailInv, RailTyped
<1>6. Knows(task)'
  BY <1>2, KnowsStays
<1>7. Knows(row)'
  BY <1>4, <1>6 DEF Knows
<1>. QED BY <1>4, <1>5, <1>7, TaskWritten

LEMMA TaskGoto ==
  ASSUME RailInv, Onward, NEW t \in Tasks, NEW task \in TaskRow, task = tasks[t],
         NEW at \in Statement, Goto(t, at),
         at \in {"paid", "step", "settle", "book"} => KeyState(task.r)' \in Gone,
         at = "book" => requests'[task.r].state = "PAID",
         at = "payable" => Debts(task.r)',
         task.kind = "ingest" /\ at \in {"apply", "patch"} => task.got # "PAID"
  PROVE  TasksOnward
<1>1. PICK got : got = task.got
  OBVIOUS
<1>2. got \in Outcome \cup ProviderState \cup {"NONE", "own", "manual", None}
  BY <1>1 DEF TaskRow
<1>3. [task EXCEPT !.at = at] = [task EXCEPT !.at = at, !.got = got]
  BY <1>1, Zenon DEF TaskRow
<1>4. tasks' = [tasks EXCEPT ![t].at = at, ![t].got = got]
  BY <1>3 DEF Goto, RailInv, RailTyped
<1>. QED BY <1>1, <1>2, <1>4, TaskGoes

LEMMA TaskOf ==
  ASSUME RailInv, Onward, NEW t \in Callers,
         tasks[t].at \in Statement \/ tasks[t].kind \in Kind \/ tasks[t] # NoTask
  PROVE  \E task \in TaskRow :
           /\ task = tasks[t] /\ task.r \in Requests /\ Knows(task) /\ Knows(task)'
           /\ t \in Tasks /\ requests'[task.r].state # "NONE"
<1>1. t \in Tasks
  BY DEF Tasks
<1>2. PICK task : task = tasks[t]
  OBVIOUS
<1>3. task \in TaskRow /\ Knows(task) /\ task.r \in Requests
  BY <1>1, <1>2, TaskHas
<1>4. Knows(task)'
  BY <1>3, KnowsStays
<1>5. requests'[task.r].state # "NONE"
  BY <1>4 DEF Knows
<1>. QED BY <1>1, <1>2, <1>3, <1>4, <1>5

LEMMA FastLaneKeeps ==
  ASSUME RailInv, Onward, NEW t \in Callers,
         \/ FastLaneClaim(t) \/ FastLaneMark(t) \/ FastLaneCheck(t) \/ FastLaneApprove(t) \/ FastLaneEnds(t)
  PROVE  OpOnward /\ TasksOnward
<1>1. tasks[t].at \in Statement
  BY DEF FastLaneClaim, FastLaneMark, FastLaneCheck, FastLaneApprove, FastLaneEnds, At, Statement
<1>2. PICK task \in TaskRow :
        /\ task = tasks[t] /\ task.r \in Requests /\ Knows(task) /\ Knows(task)'
        /\ t \in Tasks /\ requests'[task.r].state # "NONE"
  BY <1>1, TaskOf
<1>3. PICK r \in Requests : r = task.r
  BY <1>2
<1>4. op \in [Requests -> OpRow]
  BY DEF RailInv, RailTyped
<1>5. ASSUME NEW state \in OpState, state \notin Terminal, state = "PAYABLE" => Debts(r)',
             op' = [op EXCEPT ![r].state = state]
      PROVE  OpOnward
  BY <1>2, <1>3, <1>5, OpPatched
<1>6. CASE FastLaneClaim(t)
  <2>1. PICK state : state = IF op[r].state = "NONE" THEN "RECEIVED" ELSE op[r].state
    OBVIOUS
  <2>2. op' = [op EXCEPT ![r].state = state]
    BY <1>2, <1>3, <1>4, <1>6, <2>1 DEF FastLaneClaim
  <2>3. state \in OpState
    BY <1>4, <2>1 DEF OpRow, OpState
  <2>4. /\ state = "PAYABLE" => Debts(r)'
        /\ state \in Terminal => requests'[r].state = "PAID"
    BY <2>1, OpStays DEF Terminal
  <2>5. OpOnward
    BY <1>2, <1>3, <2>2, <2>3, <2>4, OpPatched
  <2>6. Goto(t, "mark") \/ Done(t)
    BY <1>6 DEF FastLaneClaim
  <2>7. TasksOnward
    BY <1>2, <2>6, TaskGoto, TaskDone DEF FastLaneClaim, At, Statement
  <2>. QED BY <2>5, <2>7
<1>7. CASE FastLaneMark(t)
  <2>1. op' = [op EXCEPT ![r].state = "AUTOMATED_CHECKS"] /\ Goto(t, "check")
    BY <1>2, <1>3, <1>7 DEF FastLaneMark, patchOp
  <2>. QED BY <1>2, <1>5, <2>1, TaskGoto DEF OpState, Terminal, Statement
<1>8. CASE FastLaneCheck(t)
  <2>1. op' = op /\ (Goto(t, "route") \/ Goto(t, "approve"))
    BY <1>8 DEF FastLaneCheck, rail
  <2>. QED BY <1>2, <2>1, OpUnchanged, TaskGoto DEF Statement
<1>9. CASE FastLaneApprove(t)
  <2>1. op' = op /\ task.kind = "fastLane"
    BY <1>2, <1>9 DEF FastLaneApprove, At, rail
  <2>2. CASE Goto(t, "route")
    BY <1>2, <2>1, <2>2, OpUnchanged, TaskGoto DEF Statement
  <2>3. CASE Goto(t, "payable")
    <3>1. Debts(r)'
      <4>1. CASE requests[r].state \in Standing
        <5>1. Debts(r)
          BY <4>1, DebtOf DEF RailInv, LedgerSide, Standing, Underway
        <5>. QED BY <5>1, DebtsStay DEF Onward
      <4>2. CASE requests[r].state \notin Standing
        <5>1. approvePayout(r) \/ Goto(t, "route")
          BY <1>2, <1>3, <1>9, <4>2 DEF FastLaneApprove
        <5>2. tasks'[t].at # "route"
          <6>1. tasks'[t] = [task EXCEPT !.at = "payable"]
            BY <1>2, <2>3 DEF Goto, RailInv, RailTyped
          <6>2. tasks'[t].at = "payable"
            BY <6>1 DEF TaskRow
          <6>. QED BY <6>2
        <5>3. approvePayout(r)
          <6>1. Goto(t, "route") => tasks'[t] = [task EXCEPT !.at = "route"]
            BY <1>2 DEF Goto, RailInv, RailTyped
          <6>2. Goto(t, "route") => tasks'[t].at = "route"
            BY <6>1 DEF TaskRow
          <6>. QED BY <5>1, <5>2, <6>2
        <5>4. Entry(r, "DEBIT") \in ledger'
          BY <5>3 DEF approvePayout
        <5>. QED BY <5>4 DEF Debts, Has, Entry
      <4>. QED BY <4>1, <4>2
    <3>. QED BY <1>2, <1>3, <2>1, <2>3, <3>1, OpUnchanged, TaskGoto DEF Statement
  <2>. QED BY <1>9, <2>2, <2>3 DEF FastLaneApprove
<1>10. CASE FastLaneEnds(t)
  <2>1. Done(t)
    BY <1>10 DEF FastLaneEnds
  <2>2. \/ op' = [op EXCEPT ![r].state = "EXCEPTION"]
        \/ task.at = "payable" /\ op' = [op EXCEPT ![r].state = "PAYABLE"]
    BY <1>2, <1>3, <1>10 DEF FastLaneEnds, At, patchOp
  <2>3. task.at = "payable" => Debts(r)'
    BY <1>2, <1>3 DEF Knows
  <2>. QED BY <1>2, <1>5, <2>1, <2>2, <2>3, TaskDone DEF OpState, Terminal
<1>. QED BY <1>6, <1>7, <1>8, <1>9, <1>10

LEMMA PaidKeeps ==
  ASSUME RailInv, Onward, NEW t \in Callers, PaidRead(t) \/ PaidStep(t) \/ PaidSettle(t) \/ PaidBook(t)
  PROVE  OpOnward /\ TasksOnward
<1>1. tasks[t].at \in {"paid", "step", "settle", "book"}
  BY DEF PaidRead, PaidStep, PaidSettle, PaidBook
<1>2. PICK task \in TaskRow :
        /\ task = tasks[t] /\ task.r \in Requests /\ Knows(task) /\ Knows(task)'
        /\ t \in Tasks /\ requests'[task.r].state # "NONE"
  BY <1>1, TaskOf DEF Statement
<1>3. PICK r \in Requests : r = task.r
  BY <1>2
<1>4. KeyState(r)' \in Gone
  BY <1>1, <1>2, <1>3 DEF Knows
<1>5. ASSUME Continues(t) PROVE TasksOnward
  BY <1>2, <1>5, TaskGoto, TaskDone DEF Continues, Statement
<1>6. CASE PaidRead(t)
  <2>1. op' = op /\ (Continues(t) \/ Goto(t, "step"))
    BY <1>6 DEF PaidRead, rail
  <2>. QED BY <1>2, <1>3, <1>4, <1>5, <2>1, OpUnchanged, TaskGoto DEF Statement
<1>7. CASE PaidStep(t)
  <2>1. op' = op /\ Goto(t, "settle")
    BY <1>7 DEF PaidStep, rail
  <2>. QED BY <1>2, <1>3, <1>4, <2>1, OpUnchanged, TaskGoto DEF Statement
<1>8. CASE PaidSettle(t)
  <2>1. op' = op
    BY <1>8 DEF PaidSettle, rail
  <2>2. CASE Done(t)
    BY <1>2, <2>1, <2>2, OpUnchanged, TaskDone
  <2>3. CASE Goto(t, "book") /\ markPaid(r)
    <3>1. requests'[r].state = "PAID"
      <4>1. requests \in [Requests -> RequestRow]
        BY DEF RailInv, LedgerSide, TypeInv, PayoutTypeOK
      <4>. QED BY <2>3, <4>1, Zenon DEF markPaid, Settled, RequestRow
    <3>. QED BY <1>2, <1>3, <1>4, <2>1, <2>3, <3>1, OpUnchanged, TaskGoto DEF Statement
  <2>4. CASE Goto(t, "book") /\ requests[r].state = "PAID"
    <3>1. requests'[r].state = "PAID"
      BY <2>4 DEF Onward
    <3>. QED BY <1>2, <1>3, <1>4, <2>1, <2>4, <3>1, OpUnchanged, TaskGoto DEF Statement
  <2>. QED BY <1>2, <1>3, <1>8, <2>2, <2>3, <2>4 DEF PaidSettle
<1>9. CASE PaidBook(t)
  <2>1. PICK row : row = [op[r] EXCEPT !.state = "PAID",
                                       !.ref = IF task.kind = "manual" THEN "manual" ELSE "own"]
    OBVIOUS
  <2>2. op' = [op EXCEPT ![r] = row]
    BY <1>2, <1>3, <1>9, <2>1 DEF PaidBook, RailInv, RailTyped
  <2>3. op[r] \in OpRow
    BY DEF RailInv, RailTyped
  <2>4. row \in OpRow /\ row.state = "PAID"
    BY <2>1, <2>3 DEF OpRow, OpState
  <2>5. requests'[r].state = "PAID"
    BY <1>2, <1>3, <1>9 DEF PaidBook, Knows
  <2>6. OpOnward
    BY <2>2, <2>4, <2>5, OpWritten DEF Terminal
  <2>. QED BY <1>5, <1>9, <2>6 DEF PaidBook
<1>. QED BY <1>6, <1>7, <1>8, <1>9

LEMMA TaskStarts ==
  ASSUME RailInv, Onward, NEW t \in Tasks, NEW kind \in Kind, NEW r \in Requests, NEW at \in Statement,
         NEW was \in PayoutState \cup OpState \cup {None},
         NEW got \in Outcome \cup ProviderState \cup {"NONE", "own", "manual", None},
         Start(t, kind, r, at, was, got),
         requests[r].state # "NONE",
         at \notin {"step", "settle", "book", "payable", "apply", "patch"},
         at = "paid" => KeyState(r)' \in Gone,
         kind = "ingest" => <<idempotencyKeyFor(r), got>> \in webhooks,
         kind = "reconcile" =>
           /\ was \in OpState
           /\ was \in Terminal => requests'[r].state = "PAID"
           /\ was = "PAYABLE" => Debts(r)',
         kind = "submit" => Debts(r)' /\ (got = "PAID" => KeyState(r)' \in Gone)
  PROVE  TasksOnward
<1>1. PICK row : row = [kind |-> kind, at |-> at, r |-> r, was |-> was, got |-> got]
  OBVIOUS
<1>2. /\ row \in TaskRow /\ row.kind = kind /\ row.at = at /\ row.r = r /\ row.was = was /\ row.got = got
      /\ tasks' = [tasks EXCEPT ![t] = row]
  BY <1>1 DEF TaskRow, Start
<1>3. requests'[r].state # "NONE" /\ requests'[r].ordinal = requests[r].ordinal /\ webhooks \subseteq webhooks'
  BY DEF Onward
<1>4. kind = "ingest" => <<idempotencyKeyFor(r)', got>> \in webhooks'
  BY <1>3 DEF idempotencyKeyFor
<1>5. Knows(row)'
  BY <1>2, <1>3, <1>4 DEF Knows
<1>. QED BY <1>2, <1>5, TaskWritten

LEMMA StartsKeep ==
  ASSUME RailInv, Onward, NEW t \in Callers, NEW r \in Requests,
         FastLane(t, r) \/ Reconcile(t, r) \/ ManualPaid(t, r)
  PROVE  OpOnward /\ TasksOnward
<1>0. t \in Tasks /\ op \in [Requests -> OpRow] /\ requests[r] \in RequestRow
  BY DEF Tasks, RailInv, RailTyped, LedgerSide, TypeInv, PayoutTypeOK
<1>1. OpOnward
  BY OpUnchanged DEF FastLane, Reconcile, ManualPaid, rail
<1>2. CASE FastLane(t, r)
  <2>1. PICK was : was = requests[r].state
    OBVIOUS
  <2>2. was \in PayoutState /\ Start(t, "fastLane", r, "claim", was, None) /\ was # "NONE"
    BY <1>0, <1>2, <2>1 DEF FastLane, RequestRow
  <2>. QED BY <1>0, <1>1, <2>1, <2>2, TaskStarts DEF Kind, Statement
<1>3. CASE Reconcile(t, r)
  <2>1. PICK was, ref : was = op[r].state /\ ref = op[r].ref
    OBVIOUS
  <2>2. /\ was \in OpState /\ was # "NONE" /\ Start(t, "reconcile", r, "ask", was, ref)
        /\ ref \in {None, "own", "manual"}
    BY <1>0, <1>3, <2>1 DEF Reconcile, OpRow
  <2>3. /\ was \in Terminal => requests'[r].state = "PAID"
        /\ was = "PAYABLE" => Debts(r)'
    BY <2>1, OpStays
  <2>4. requests[r].state # "NONE"
    BY <2>1, <2>2 DEF RailInv, OpInv
  <2>. QED BY <1>0, <1>1, <2>2, <2>3, <2>4, TaskStarts DEF Kind, Statement
<1>4. CASE ManualPaid(t, r)
  <2>1. requests[r].state # "NONE" /\ KeyState(r) = "PAID" /\ Start(t, "manual", r, "paid", None, None)
    BY <1>4 DEF ManualPaid, KeyState, RailInv, OpInv
  <2>2. KeyState(r)' \in Gone
    <3>1. idempotencyKeyFor(r)' = idempotencyKeyFor(r) /\ idempotencyKeyFor(r) \in Keys
      BY <2>1, KeyOf DEF Onward, idempotencyKeyFor, RailInv
    <3>. QED BY <2>1, <3>1 DEF Onward, KeyState, Gone
  <2>. QED BY <1>0, <1>1, <2>1, <2>2, TaskStarts DEF Kind, Statement
<1>. QED BY <1>2, <1>3, <1>4

LEMMA IngestStarts ==
  ASSUME RailInv, Onward, NEW t \in Callers, NEW event \in webhooks, Ingest(t, event)
  PROVE  OpOnward /\ TasksOnward
<1>1. t \in Tasks /\ OpOnward
  BY OpUnchanged DEF Tasks, Ingest
<1>2. PICK key \in Keys, type \in ProviderState : event = <<key, type>>
  BY DEF RailInv, RailTyped
<1>3. provider[key] # "NONE"
  BY <1>2 DEF RailInv, ProviderSide, EventsInv
<1>4. PICK r \in Requests : r = key[1]
  BY DEF Keys
<1>5. requests[r].state # "NONE" /\ key = idempotencyKeyFor(r)
  BY <1>3, <1>4 DEF RailInv, ProviderSide, KeysInv
<1>6. Start(t, "ingest", r, "find", None, type)
  BY <1>2, <1>4 DEF Ingest
<1>. QED BY <1>1, <1>2, <1>5, <1>6, TaskStarts DEF Kind, Statement

LEMMA IngestKeeps ==
  ASSUME RailInv, Onward, NEW t \in Callers, IngestFind(t) \/ IngestApply(t) \/ IngestPatch(t)
  PROVE  OpOnward /\ TasksOnward
<1>1. tasks[t].kind = "ingest"
  BY DEF IngestFind, IngestApply, IngestPatch, At
<1>2. PICK task \in TaskRow :
        /\ task = tasks[t] /\ task.r \in Requests /\ Knows(task) /\ Knows(task)'
        /\ t \in Tasks /\ requests'[task.r].state # "NONE"
  BY <1>1, TaskOf DEF Kind
<1>3. PICK r \in Requests : r = task.r
  BY <1>2
<1>4. /\ task.kind = "ingest" /\ <<idempotencyKeyFor(r), task.got>> \in webhooks
      /\ <<idempotencyKeyFor(r)', task.got>> \in webhooks' /\ task.got \in ProviderState
  BY <1>1, <1>2, <1>3 DEF Knows, RailInv, RailTyped
<1>5. CASE IngestFind(t)
  <2>1. op' = op
    BY <1>5 DEF IngestFind, rail
  <2>2. CASE Done(t)
    BY <1>2, <2>1, <2>2, OpUnchanged, TaskDone
  <2>3. CASE task.got = "PAID" /\ Goto(t, "paid")
    <3>1. KeyState(r) \in Gone
      <4>1. \A event \in webhooks : event[2] = "PAID" => provider[event[1]] \in Gone
        BY DEF RailInv, ProviderSide, EventsInv
      <4>. QED BY <1>4, <2>3, <4>1 DEF KeyState
    <3>2. KeyState(r)' \in Gone
      <4>1. requests[r].state # "NONE"
        BY <1>2, <1>3 DEF Knows
      <4>2. idempotencyKeyFor(r)' = idempotencyKeyFor(r) /\ idempotencyKeyFor(r) \in Keys
        BY <4>1, KeyOf DEF Onward, idempotencyKeyFor, RailInv
      <4>. QED BY <3>1, <4>2 DEF Onward, KeyState
    <3>. QED BY <1>2, <1>3, <2>1, <2>3, <3>2, OpUnchanged, TaskGoto DEF Statement
  <2>4. CASE task.got # "PAID" /\ Goto(t, "apply")
    BY <1>2, <2>1, <2>4, OpUnchanged, TaskGoto DEF Statement
  <2>. QED BY <1>2, <1>5, <2>2, <2>3, <2>4 DEF IngestFind
<1>6. CASE IngestApply(t)
  <2>1. task.got # "PAID" /\ Goto(t, "patch")
    BY <1>2, <1>4, <1>6 DEF IngestApply, At, Knows
  <2>2. TasksOnward
    BY <1>2, <2>1, TaskGoto DEF Statement
  <2>3. op' = op \/ op' = [op EXCEPT ![r].state = "EXCEPTION"]
    BY <1>2, <1>3, <1>6 DEF IngestApply, patchOp
  <2>4. OpOnward
    BY <1>2, <1>3, <2>3, OpUnchanged, OpPatched DEF OpState, Terminal
  <2>. QED BY <2>2, <2>4
<1>7. CASE IngestPatch(t)
  <2>1. task.got # "PAID" /\ Done(t)
    BY <1>2, <1>4, <1>7 DEF IngestPatch, At, Knows
  <2>2. PICK got : got = task.got
    OBVIOUS
  <2>3. op' = [op EXCEPT ![r].state = got]
    BY <1>2, <1>3, <1>7, <2>2 DEF IngestPatch, patchOp
  <2>4. got \in OpState /\ got \notin Terminal /\ got # "PAYABLE"
    <3>1. \A event \in webhooks : event[2] # "ACCEPTED"
      BY DEF RailInv, ProviderSide, EventsInv
    <3>2. got # "ACCEPTED"
      BY <1>4, <2>2, <3>1
    <3>. QED BY <1>4, <2>1, <2>2, <3>2 DEF OpState, ProviderState, Terminal
  <2>5. OpOnward
    BY <1>2, <1>3, <2>3, <2>4, OpPatched
  <2>. QED BY <1>2, <2>1, <2>5, TaskDone
<1>. QED BY <1>5, <1>6, <1>7

LEMMA ReconcileKeeps ==
  ASSUME RailInv, Onward, NEW t \in Callers, ReconcileAsk(t) \/ ReconcileLast(t)
  PROVE  OpOnward /\ TasksOnward
<1>1. tasks[t].kind = "reconcile"
  BY DEF ReconcileAsk, ReconcileLast, At
<1>2. PICK task \in TaskRow :
        /\ task = tasks[t] /\ task.r \in Requests /\ Knows(task) /\ Knows(task)'
        /\ t \in Tasks /\ requests'[task.r].state # "NONE"
  BY <1>1, TaskOf DEF Kind
<1>3. PICK r \in Requests : r = task.r
  BY <1>2
<1>4. /\ task.was \in OpState
      /\ task.was \in Terminal => requests'[r].state = "PAID"
      /\ task.was = "PAYABLE" => Debts(r)'
  BY <1>1, <1>2, <1>3 DEF Knows
<1>5. CASE ReconcileAsk(t)
  <2>1. PICK status : status = IF task.got = "manual" THEN "NONE" ELSE provider[idempotencyKeyFor(r)]
    OBVIOUS
  <2>2. requests[r].state # "NONE"
    BY <1>2, <1>3 DEF Knows
  <2>3. status \in ProviderState \cup {"NONE"}
    BY <2>1, <2>2, KeyOf DEF RailInv, RailTyped
  <2>4. status = "PAID" => KeyState(r)' \in Gone
    <3>1. status = "PAID" => KeyState(r) \in Gone
      BY <2>1 DEF KeyState, Gone
    <3>2. idempotencyKeyFor(r)' = idempotencyKeyFor(r) /\ idempotencyKeyFor(r) \in Keys
      BY <2>2, KeyOf DEF Onward, idempotencyKeyFor, RailInv
    <3>. QED BY <3>1, <3>2 DEF Onward, KeyState
  <2>5. \/ /\ status = "PAID" /\ op' = op
           /\ tasks' = [tasks EXCEPT ![t].at = "paid", ![t].got = status]
        \/ /\ op' = op \/ op' = [op EXCEPT ![r].state = "EXCEPTION"]
                       \/ op' = [op EXCEPT ![r].state = "PROCESSING"]
           /\ tasks' = [tasks EXCEPT ![t].at = "last", ![t].got = status]
    BY <1>2, <1>3, <1>5, <2>1 DEF ReconcileAsk, patchOp
  <2>6. TasksOnward
    <3>1. /\ status \in Outcome \cup ProviderState \cup {"NONE", "own", "manual", None}
          /\ task.kind = "reconcile" /\ "paid" \in Statement /\ "last" \in Statement
      BY <1>1, <1>2, <2>3 DEF Statement
    <3>2. CASE tasks' = [tasks EXCEPT ![t].at = "last", ![t].got = status]
      BY <1>2, <3>1, <3>2, TaskGoes
    <3>3. CASE status = "PAID" /\ tasks' = [tasks EXCEPT ![t].at = "paid", ![t].got = status]
      <4>1. KeyState(task.r)' \in Gone
        BY <1>3, <2>4, <3>3
      <4>. QED BY <1>2, <3>1, <3>3, <4>1, TaskGoes
    <3>. QED BY <2>5, <3>2, <3>3
  <2>7. OpOnward
    BY <1>2, <1>3, <2>5, OpUnchanged, OpPatched DEF OpState, Terminal
  <2>. QED BY <2>6, <2>7
<1>6. CASE ReconcileLast(t)
  <2>1. PICK state : state = IF task.was = "PAID" /\ task.got # "RETURNED" THEN "RECONCILED" ELSE task.was
    OBVIOUS
  <2>2. op' = [op EXCEPT ![r].state = state] /\ Done(t)
    BY <1>2, <1>3, <1>6, <2>1 DEF ReconcileLast, patchOp
  <2>3. state = "PAYABLE" => Debts(r)'
    BY <1>4, <2>1
  <2>4. state \in Terminal => requests'[r].state = "PAID"
    BY <1>4, <2>1 DEF Terminal
  <2>5. state \in OpState
    BY <1>4, <2>1 DEF OpState
  <2>. QED BY <1>2, <1>3, <2>2, <2>3, <2>4, <2>5, OpPatched, TaskDone
<1>. QED BY <1>5, <1>6

LEMMA FewerOf ==
  ASSUME NEW a \in Nat, NEW b \in Nat PROVE Min({a, b}) \in 0..b
<1>1. \E x \in {a, b} : \A y \in {a, b} : x <= y
  <2>1. CASE a <= b
    BY <2>1
  <2>2. CASE ~(a <= b)
    BY <2>2
  <2>. QED BY <2>1, <2>2
<1>2. Min({a, b}) \in {a, b} /\ \A y \in {a, b} : Min({a, b}) <= y
  BY <1>1 DEF Min
<1>. QED BY <1>2

LEMMA SubmitKeeps ==
  ASSUME RailInv, Onward, Submits \/ SubmitCommit
  PROVE  OpOnward /\ TasksOnward
<1>0. Worker \in Tasks
  BY DEF Tasks
<1>1. ASSUME NEW r \in Requests, SubmitCall(r) PROVE OpOnward /\ TasksOnward
  <2>1. Debts(r) /\ op' = op /\ requests[r].state # "NONE"
    BY <1>1 DEF SubmitCall, RailInv, OpInv
  <2>2. Debts(r)'
    BY <2>1, DebtsStay DEF Onward
  <2>3. idempotencyKeyFor(r)' = idempotencyKeyFor(r) /\ idempotencyKeyFor(r) \in Keys
    BY <2>1, KeyOf DEF Onward, idempotencyKeyFor, RailInv
  <2>4. provider[idempotencyKeyFor(r)] \in ProviderState \cup {"NONE"}
    BY <2>3 DEF RailInv, RailTyped
  <2>5. PICK answer \in Answers(idempotencyKeyFor(r)) :
          /\ Start(Worker, "submit", r, "commit", None, answer[1])
          /\ provider' = [provider EXCEPT ![idempotencyKeyFor(r)] = answer[2]]
    BY <1>1 DEF SubmitCall
  <2>6. answer[1] \in Outcome /\ (answer[1] = "PAID" => answer[2] = "PAID")
    BY <2>5 DEF Answers, Outcome
  <2>7. answer[1] = "PAID" => KeyState(r)' \in Gone
    BY <2>3, <2>5, <2>6 DEF KeyState, Gone, RailInv, RailTyped
  <2>8. OpOnward
    BY <2>1, OpUnchanged
  <2>9. /\ "submit" \in Kind /\ "commit" \in Statement
        /\ None \in PayoutState \cup OpState \cup {None}
        /\ answer[1] \in Outcome \cup ProviderState \cup {"NONE", "own", "manual", None}
    BY <2>6 DEF Kind, Statement
  <2>10. PICK got : got = answer[1]
    OBVIOUS
  <2>11. TasksOnward
    BY <1>0, <2>1, <2>2, <2>5, <2>7, <2>9, <2>10, TaskStarts
  <2>. QED BY <2>8, <2>11
<1>2. ASSUME SubmitCommit PROVE OpOnward /\ TasksOnward
  <2>1. PICK task, r : task = tasks[Worker] /\ r = tasks[Worker].r
    OBVIOUS
  <2>2. tasks[Worker].kind = "submit" /\ Done(Worker)
    BY <1>2 DEF SubmitCommit, At
  <2>3. task \in TaskRow /\ Knows(task) /\ r \in Requests /\ r = task.r /\ task.kind = "submit"
    BY <1>0, <2>1, <2>2, TaskHas DEF Kind
  <2>4. Knows(task)'
    BY <2>3, KnowsStays
  <2>5. requests'[r].state # "NONE" /\ Debts(r)'
    BY <2>3, <2>4 DEF Knows
  <2>6. op[r] \in OpRow /\ op[r].attempts \in Nat /\ MAX_SUBMISSION_ATTEMPTS \in Nat
    BY <2>3 DEF RailInv, RailTyped, OpRow
  <2>7. PICK attempt : attempt = Min({op[r].attempts + 1, MAX_SUBMISSION_ATTEMPTS})
    OBVIOUS
  <2>8. attempt \in 0..MAX_SUBMISSION_ATTEMPTS
    BY <2>6, <2>7, FewerOf
  <2>9. PICK state, ref :
          /\ op' = [op EXCEPT ![r] = [state |-> state, ref |-> ref, attempts |-> attempt]]
          /\ state \in {"SUBMITTED", "PROCESSING", "PAYABLE", "EXCEPTION"} \/ (state = "PAID" /\ SettledAtOnce(r))
          /\ ref = "own" \/ ref = op[r].ref
    BY <1>2, <2>1, <2>7 DEF SubmitCommit
  <2>10. state = "PAID" => requests'[r].state = "PAID"
    <3>1. requests \in [Requests -> RequestRow]
      BY DEF RailInv, LedgerSide, TypeInv, PayoutTypeOK
    <3>2. ASSUME Settled(r) PROVE requests'[r].state = "PAID"
      BY <2>3, <3>1, <3>2, Zenon DEF Settled, RequestRow
    <3>3. ASSUME requests[r].state = "PAID" PROVE requests'[r].state = "PAID"
      BY <2>3, <3>3 DEF Onward
    <3>. QED BY <2>9, <3>2, <3>3 DEF SettledAtOnce
  <2>11. PICK row : row = [state |-> state, ref |-> ref, attempts |-> attempt]
    OBVIOUS
  <2>12. row \in OpRow /\ row.state = state
    BY <2>6, <2>8, <2>9, <2>11 DEF OpRow, OpState
  <2>13. OpOnward
    BY <2>3, <2>5, <2>9, <2>10, <2>11, <2>12, OpWritten DEF Terminal
  <2>. QED BY <1>0, <2>2, <2>13, TaskDone
<1>. QED BY <1>1, <1>2 DEF Submits

LEMMA RailStep == RailInv /\ [Next]_vars => RailInv'
<1>. SUFFICES ASSUME RailInv, [Next]_vars PROVE RailInv'
  OBVIOUS
<1>1. LedgerSide' /\ ProviderSide' /\ Onward
  BY RailOnward
<1>2. /\ provider' \in [Keys -> ProviderState \cup {"NONE"}]
      /\ webhooks' \subseteq Keys \X ProviderState
  <2>1. provider \in [Keys -> ProviderState \cup {"NONE"}] /\ webhooks \subseteq Keys \X ProviderState
    BY DEF RailInv, RailTyped
  <2>. QED BY <2>1, RailMoves, ProviderRow DEF Beside, AtDesk
<1>3. OpOnward /\ TasksOnward
  <2>1. CASE Desk \/ (\E key \in Keys : ProviderMoves(key)) \/ UNCHANGED vars
    BY <1>1, <2>1, OpUnchanged, TasksUnchanged DEF Desk, ProviderMoves, vars, rail
  <2>2. ASSUME NEW t \in Tasks, Crash(t) PROVE OpOnward /\ TasksOnward
    BY <1>1, <2>2, OpUnchanged, TaskDone DEF Crash, rail
  <2>3. ASSUME NEW t \in Callers, Proceeds(t) PROVE OpOnward /\ TasksOnward
    BY <1>1, <2>3, FastLaneKeeps, PaidKeeps, IngestKeeps, ReconcileKeeps DEF Proceeds
  <2>. QED BY <1>1, <2>1, <2>2, <2>3, SubmitKeeps, StartsKeep, IngestStarts DEF Next, Tasks
<1>4. seen' \subseteq webhooks'
  <2>1. seen \subseteq webhooks /\ webhooks \subseteq webhooks'
    BY <1>1 DEF Onward, RailInv, RailTyped
  <2>2. seen' = seen \/ \E event \in webhooks : seen' = seen \cup {event}
    <3>1. ASSUME NEW t \in Callers, Proceeds(t) PROVE seen' = seen
      BY <3>1 DEF Proceeds, FastLaneClaim, FastLaneMark, FastLaneCheck, FastLaneApprove, FastLaneEnds,
                  PaidRead, PaidStep, PaidSettle, PaidBook, IngestFind, IngestApply, IngestPatch,
                  ReconcileAsk, ReconcileLast, rail
    <3>2. ASSUME NEW t \in Tasks, Crash(t) PROVE seen' = seen
      BY <3>2 DEF Crash, rail
    <3>3. ASSUME NEW t \in Callers, NEW r \in Requests, FastLane(t, r) \/ Reconcile(t, r) \/ ManualPaid(t, r)
          PROVE  seen' = seen
      BY <3>3 DEF FastLane, Reconcile, ManualPaid, rail
    <3>4. ASSUME NEW t \in Callers, NEW event \in webhooks, Ingest(t, event)
          PROVE  seen' = seen \cup {event}
      BY <3>4 DEF Ingest
    <3>5. CASE Desk \/ Submits \/ SubmitCommit \/ (\E key \in Keys : ProviderMoves(key)) \/ UNCHANGED vars
      BY <3>5 DEF Desk, Submits, SubmitCall, SubmitCommit, ProviderMoves, vars, rail
    <3>. QED BY <3>1, <3>2, <3>3, <3>4, <3>5 DEF Next, Tasks
  <2>. QED BY <2>1, <2>2
<1>. QED BY <1>1, <1>2, <1>3, <1>4 DEF RailInv, RailTyped, OpOnward, TasksOnward

LEMMA RailInit == Init => RailInv
<1>. SUFFICES ASSUME Init PROVE RailInv
  OBVIOUS
<1>1. TypeInv /\ LedgerAgrees /\ requests = [r \in Requests |-> NotMade] /\ ledger = {}
  BY TypeInit DEF Init, PayoutInit, NotMade, LedgerAgrees
<1>2. \A r \in Requests : requests[r].state = "NONE"
  BY <1>1 DEF NotMade
<1>3. LedgerSide
  BY <1>1, <1>2 DEF LedgerSide, NumbersInv
<1>4. RailTyped
  BY DEF Init, RailTyped, NoOp, OpRow
<1>5. ProviderSide
  BY <1>2 DEF Init, ProviderSide, KeysInv, EventsInv, SettledInv
<1>6. OpInv
  BY DEF Init, OpInv, NoOp, Terminal
<1>7. TasksInv
  BY DEF Init, TasksInv
<1>. QED BY <1>3, <1>4, <1>5, <1>6, <1>7 DEF RailInv

(* Whatever is retried, lost, repeated or interrupted: every row of the    *)
(* rail keeps its shape, the provider knows one key of each request that   *)
(* was debited, what was booked was sent, what was given back never is,    *)
(* and what a task has read and acts on later still holds                  *)
(* (payout-operations.ts).                                                 *)
THEOREM RailInvariant == Spec => []RailInv
BY RailInit, RailStep, PTL DEF Spec

(* The types of the rail.                                                  *)
THEOREM RailTypes == Spec => []TypeOK
<1>1. RailInv => TypeOK
  BY DEF RailInv, LedgerSide, TypeInv, RailTyped, TypeOK
<1>. QED BY <1>1, RailInvariant, PTL

(* An operation that is shown as paid, or as reconciled, is paid in the    *)
(* ledger, with any number of requests, of concurrent tasks and of retries *)
(* and with a crash between any two of their statements: each writer that  *)
(* comes late knows that the request was settled                           *)
(* (payout-operations.ts:506, payout-operations.ts:767).                   *)
THEOREM ShownAsPaidIsPaid == Spec => []ShownPaidIsPaid
<1>1. RailInv => ShownPaidIsPaid
  BY DEF RailInv, OpInv, ShownPaidIsPaid
<1>. QED BY <1>1, RailInvariant, PTL

\* What a request's money is, once the accidents are ruled out.
Money(r) ==
  CASE requests[r].state = "PAID" -> "settled"
    [] requests[r].state = "FAILED" -> "restored"
    [] requests[r].state \in Underway -> IF KeyState(r) \in Gone THEN "sent" ELSE "owed"
    [] OTHER -> "kept"

LEMMA SentOnce ==
  ASSUME RailInv, NEW r \in Requests
  PROVE  /\ requests[r].state # "NONE" /\ KeyState(r) \in Gone => Sent(r) = 1
         /\ ~(requests[r].state # "NONE" /\ KeyState(r) \in Gone) => Sent(r) = 0
<1>. DEFINE numbers == 1..(MAX_PAYOUT_CYCLES + MAX_SUBMISSION_ATTEMPTS)
            sent == {n \in numbers : provider[<<r, n>>] \in {"PAID", "RETURNED"}}
<1>1. ASSUME NEW n \in sent
      PROVE  requests[r].state # "NONE" /\ n = requests[r].ordinal /\ KeyState(r) \in Gone
  <2>1. <<r, n>> \in Keys /\ provider[<<r, n>>] \in Gone
    BY DEF Keys, Gone
  <2>2. requests[r].state # "NONE" /\ <<r, n>> = idempotencyKeyFor(r)
    BY <2>1 DEF RailInv, ProviderSide, KeysInv, Gone
  <2>. QED BY <2>1, <2>2 DEF idempotencyKeyFor, KeyState
<1>2. CASE requests[r].state # "NONE" /\ KeyState(r) \in Gone
  <2>1. requests[r].ordinal \in numbers
    BY <1>2 DEF RailInv, LedgerSide, NumbersInv
  <2>2. requests[r].ordinal \in sent
    BY <1>2, <2>1 DEF KeyState, idempotencyKeyFor, Gone
  <2>3. sent = {requests[r].ordinal}
    BY <1>1, <2>2
  <2>4. Cardinality(sent) = 1
    BY <2>3, FS_Singleton
  <2>. QED BY <1>2, <2>4 DEF Sent
<1>3. CASE ~(requests[r].state # "NONE" /\ KeyState(r) \in Gone)
  <2>1. sent = {}
    BY <1>1, <1>3
  <2>2. Cardinality(sent) = 0
    BY <2>1, FS_EmptySet
  <2>. QED BY <1>3, <2>2 DEF Sent
<1>. QED BY <1>2, <1>3

LEMMA MoneyIs ==
  ASSUME RailInv, NEW r \in Requests
  PROVE  moneyOf[r] = Money(r)
<1>1. Has(r, "DEBIT") <=> requests[r].state \in Underway \cup {"PAID", "FAILED"}
  BY DebtOf DEF RailInv, LedgerSide, Debts
<1>2. /\ requests[r].state = "PAID" => KeyState(r) \in Gone
      /\ requests[r].state = "FAILED" => KeyState(r) = "FAILED"
  BY DEF RailInv, ProviderSide, SettledInv
<1>3. requests[r].state # "NONE" /\ KeyState(r) \in Gone =>
        requests[r].state \in Underway \cup {"PAID"}
  <2>. SUFFICES ASSUME requests[r].state # "NONE", KeyState(r) \in Gone
                PROVE  requests[r].state \in Underway \cup {"PAID"}
    OBVIOUS
  <2>1. idempotencyKeyFor(r) \in Keys /\ idempotencyKeyFor(r)[1] = r
    BY KeyOf DEF RailInv
  <2>2. Has(r, "DEBIT")
    BY <2>1 DEF RailInv, ProviderSide, KeysInv, KeyState, Gone, Debts
  <2>. QED BY <1>1, <1>2, <2>2 DEF Gone
<1>4. /\ requests[r].state # "NONE" /\ KeyState(r) \in Gone => Sent(r) = 1
      /\ ~(requests[r].state # "NONE" /\ KeyState(r) \in Gone) => Sent(r) = 0
  BY SentOnce
<1>5. moneyOf[r] =
        IF Sent(r) > 1 THEN "sent twice"
        ELSE CASE requests[r].state = "PAID" -> "settled"
               [] requests[r].state = "FAILED" -> IF Sent(r) = 1 THEN "sent and restored" ELSE "restored"
               [] OTHER -> IF Has(r, "DEBIT") THEN (IF Sent(r) = 1 THEN "sent" ELSE "owed")
                           ELSE (IF Sent(r) = 1 THEN "sent unpaid" ELSE "kept")
  BY DEF moneyOf
<1>6. CASE requests[r].state = "PAID"
  <2>1. Sent(r) = 1
    BY <1>2, <1>4, <1>6
  <2>2. moneyOf[r] = "settled"
    BY <1>5, <1>6, <2>1
  <2>. QED BY <1>6, <2>2 DEF Money, Underway
<1>7. CASE requests[r].state = "FAILED"
  <2>1. Sent(r) = 0
    BY <1>2, <1>4, <1>7 DEF Gone
  <2>2. moneyOf[r] = "restored"
    BY <1>5, <1>7, <2>1
  <2>. QED BY <1>7, <2>2 DEF Money, Underway
<1>8. CASE requests[r].state \in Underway /\ KeyState(r) \in Gone
  <2>1. Sent(r) = 1 /\ Has(r, "DEBIT")
    BY <1>1, <1>4, <1>8 DEF Underway
  <2>2. requests[r].state # "PAID" /\ requests[r].state # "FAILED"
    BY <1>8 DEF Underway
  <2>3. ~(Sent(r) > 1)
    BY <2>1
  <2>4. moneyOf[r] = IF Has(r, "DEBIT") THEN (IF Sent(r) = 1 THEN "sent" ELSE "owed")
                     ELSE (IF Sent(r) = 1 THEN "sent unpaid" ELSE "kept")
    BY <1>5, <2>2, <2>3, Zenon
  <2>5. moneyOf[r] = "sent"
    BY <2>1, <2>4, Zenon
  <2>. QED BY <1>8, <2>5 DEF Money, Underway
<1>9. CASE requests[r].state \in Underway /\ KeyState(r) \notin Gone
  <2>1. Sent(r) = 0 /\ Has(r, "DEBIT")
    BY <1>1, <1>4, <1>9 DEF Underway
  <2>2. moneyOf[r] = "owed"
    BY <1>5, <1>9, <2>1 DEF Underway
  <2>. QED BY <1>9, <2>2 DEF Money, Underway
<1>10. CASE requests[r].state \notin Underway \cup {"PAID", "FAILED"}
  <2>1. Sent(r) = 0 /\ ~Has(r, "DEBIT")
    BY <1>1, <1>3, <1>4, <1>10
  <2>2. moneyOf[r] = "kept"
    BY <1>5, <1>10, <2>1
  <2>. QED BY <1>10, <2>2 DEF Money
<1>. QED BY <1>6, <1>7, <1>8, <1>9, <1>10

-------------------------------------------------------------------------------
(* The promise *)

MoneyKnown == moneyOf = [r \in Requests |-> Money(r)]

LEMMA MoneyIsKnown == RailInv => MoneyKnown
BY MoneyIs DEF MoneyKnown, moneyOf

\* A row and a key that are as they were are worth what they were.
LEMMA MoneyStays ==
  ASSUME NEW s \in Requests, requests'[s] = requests[s],
         requests[s].state \in Underway => KeyState(s)' = KeyState(s)
  PROVE  Money(s)' = Money(s)
<1>1. CASE requests[s].state \in Underway
  BY <1>1 DEF Money, Underway
<1>2. CASE requests[s].state \notin Underway
  BY <1>2 DEF Money
<1>. QED BY <1>1, <1>2

\* Where it is in the promise that a request's money can go in one step.
Passes(r) ==
  \/ Money(r)' = Money(r)
  \/ Money(r) = "kept" /\ Money(r)' = "owed" /\ \A s \in Requests : Money(s) \notin {"owed", "sent"}
  \/ Money(r) = "owed" /\ Money(r)' \in {"sent", "restored"}
  \/ Money(r) = "sent" /\ Money(r)' = "settled"

LEMMA DeskPasses ==
  ASSUME RailInv, UNCHANGED provider, NEW r \in Requests, RowMoves(r)
  PROVE  Passes(r) /\ \A s \in Requests \ {r} : Money(s)' = Money(s)
<1>1. ASSUME NEW s \in Requests, requests'[s].ordinal = requests[s].ordinal
      PROVE  KeyState(s)' = KeyState(s)
  BY <1>1 DEF KeyState, idempotencyKeyFor
<1>2. ASSUME NEW s \in Requests \ {r} PROVE Money(s)' = Money(s)
  <2>1. requests'[s] = requests[s]
    BY DEF RowMoves
  <2>. QED BY <1>1, <2>1, MoneyStays
<1>3. CASE requests[r].state = "NONE" /\ requests'[r].state = "REQUESTED"
  BY <1>2, <1>3 DEF Passes, Money, Underway
<1>4. CASE requests[r].state \in Pending /\ requests'[r].state = "REJECTED"
  BY <1>2, <1>4 DEF Passes, Money, Underway, Pending
<1>5. CASE /\ requests'[r].ordinal = requests[r].ordinal
           /\ requests[r].state \in Pending /\ requests'[r].state = "APPROVED"
           /\ In(NON_TERMINAL) \subseteq {r}
  <2>1. KeyState(r)' \notin Gone
    <3>1. ~Debts(r)
      BY <1>5, DebtOf DEF RailInv, LedgerSide, Pending, Underway
    <3>2. idempotencyKeyFor(r) \in Keys /\ idempotencyKeyFor(r)[1] = r
      BY <1>5, KeyOf DEF RailInv, Pending
    <3>3. KeyState(r) = "NONE"
      BY <3>1, <3>2 DEF RailInv, ProviderSide, KeysInv, KeyState
    <3>. QED BY <1>1, <1>5, <3>3 DEF Gone
  <2>2. Money(r) = "kept"
    BY <1>5 DEF Money, Pending, Underway
  <2>3. requests'[r].state \in Underway /\ requests'[r].state \notin {"PAID", "FAILED"}
    BY <1>5 DEF Underway
  <2>4. Money(r)' = "owed"
    BY <2>1, <2>3 DEF Money
  <2>5. ASSUME NEW s \in Requests PROVE Money(s) \notin {"owed", "sent"}
    <3>1. CASE s = r
      BY <2>2, <3>1
    <3>2. CASE s # r
      <4>1. requests[s].state \notin Underway
        BY <1>5, <3>2 DEF In, NON_TERMINAL, Underway
      <4>. QED BY <4>1 DEF Money
    <3>. QED BY <3>1, <3>2
  <2>. QED BY <1>2, <2>2, <2>4, <2>5 DEF Passes
<1>6. CASE /\ requests'[r].ordinal = requests[r].ordinal
           /\ requests[r].state = "APPROVED" /\ requests'[r].state = "PROCESSING"
  <2>1. KeyState(r)' = KeyState(r)
    BY <1>1, <1>6
  <2>. QED BY <1>2, <1>6, <2>1 DEF Passes, Money, Underway
<1>7. CASE requests[r].state \in Underway /\ requests'[r].state = "PAID" /\ KeyState(r) \in Gone
  <2>1. Money(r) = "sent"
    BY <1>7 DEF Money, Underway
  <2>2. Money(r)' = "settled"
    BY <1>7 DEF Money, Underway
  <2>. QED BY <1>2, <2>1, <2>2 DEF Passes
<1>8. CASE requests[r].state \in Underway /\ requests'[r].state = "FAILED" /\ KeyState(r) = "FAILED"
  <2>1. Money(r) = "owed"
    BY <1>8 DEF Money, Underway, Gone
  <2>2. Money(r)' = "restored"
    BY <1>8 DEF Money, Underway
  <2>. QED BY <1>2, <2>1, <2>2 DEF Passes
<1>. QED BY <1>2, <1>3, <1>4, <1>5, <1>6, <1>7, <1>8 DEF RowMoves

LEMMA ProviderPasses ==
  ASSUME RailInv, NEW r \in Requests, KeyMoves(r)
  PROVE  Passes(r) /\ \A s \in Requests \ {r} : Money(s)' = Money(s)
<1>1. requests' = requests
  BY DEF KeyMoves, payoutVars
<1>2. ASSUME NEW s \in Requests \ {r} PROVE Money(s)' = Money(s)
  <2>1. ASSUME requests[s].state \in Underway PROVE KeyState(s)' = KeyState(s)
    <3>1. idempotencyKeyFor(s) \in Keys /\ idempotencyKeyFor(s)[1] = s
      BY <2>1, KeyOf DEF RailInv, Underway
    <3>2. idempotencyKeyFor(s) # idempotencyKeyFor(r)
      BY <3>1 DEF idempotencyKeyFor
    <3>3. idempotencyKeyFor(s)' = idempotencyKeyFor(s)
      BY <1>1 DEF idempotencyKeyFor
    <3>. QED BY <3>1, <3>2, <3>3 DEF KeyMoves, KeyState
  <2>. QED BY <1>1, <2>1, MoneyStays
<1>3. CASE requests[r].state \in Underway /\ KeyState(r) \notin Gone /\ KeyState(r)' \in Gone
  <2>1. Money(r) = "owed"
    BY <1>3 DEF Money, Underway
  <2>2. Money(r)' = "sent"
    BY <1>1, <1>3 DEF Money, Underway
  <2>. QED BY <1>2, <2>1, <2>2 DEF Passes
<1>4. CASE ~(requests[r].state \in Underway /\ KeyState(r) \notin Gone /\ KeyState(r)' \in Gone)
  <2>1. KeyState(r) \in Gone => KeyState(r)' \in Gone
    BY DEF KeyMoves, Gone
  <2>2. CASE requests[r].state \in Underway
    <3>1. KeyState(r) \in Gone <=> KeyState(r)' \in Gone
      BY <1>4, <2>1, <2>2
    <3>2. CASE KeyState(r) \in Gone
      BY <1>1, <1>2, <2>2, <3>1, <3>2 DEF Passes, Money, Underway
    <3>3. CASE KeyState(r) \notin Gone
      BY <1>1, <1>2, <2>2, <3>1, <3>3 DEF Passes, Money, Underway
    <3>. QED BY <3>2, <3>3
  <2>3. CASE requests[r].state \notin Underway
    BY <1>1, <1>2, <2>3 DEF Passes, Money
  <2>. QED BY <2>2, <2>3
<1>. QED BY <1>2, <1>3, <1>4

LEMMA MoneyPasses ==
  ASSUME RailInv, [Next]_vars
  PROVE  \/ \A r \in Requests : Money(r)' = Money(r)
         \/ \E r \in Requests : Passes(r) /\ \A s \in Requests \ {r} : Money(s)' = Money(s)
<1>1. CASE Beside
  <2>1. \A s \in Requests : requests'[s] = requests[s] /\ KeyState(s)' = KeyState(s)
    BY <1>1 DEF Beside, payoutVars, KeyState, idempotencyKeyFor
  <2>. QED BY <2>1, MoneyStays
<1>2. CASE AtDesk
  BY <1>2, DeskRow, DeskPasses DEF AtDesk
<1>3. CASE AtProvider
  BY <1>3, ProviderRow, ProviderPasses
<1>. QED BY <1>1, <1>2, <1>3, RailMoves

(* The rail keeps what the desk promises, whatever is retried, lost,       *)
(* repeated or interrupted: the provider sends only what was debited, and  *)
(* at most once; only what it sent is booked as settled, and only what it  *)
(* never sent is given back (submitPayable, applyProviderPaid, failPayout).*)
THEOREM PromiseHolds == Spec => PromiseKept
<1>1. Init => Promise!Init
  <2>. SUFFICES ASSUME Init PROVE Promise!Init
    OBVIOUS
  <2>1. moneyOf = [r \in Requests |-> Money(r)]
    BY RailInit, MoneyIsKnown DEF MoneyKnown
  <2>2. ASSUME NEW r \in Requests PROVE Money(r) = "kept"
    <3>1. requests[r].state = "NONE"
      BY DEF Init, PayoutInit, NotMade
    <3>. QED BY <3>1 DEF Money, Underway
  <2>. QED BY <2>1, <2>2 DEF Promise!Init
<1>2. RailInv /\ RailInv' /\ [Next]_vars => [Promise!Next]_moneyOf
  <2>. SUFFICES ASSUME RailInv, RailInv', [Next]_vars PROVE [Promise!Next]_moneyOf
    OBVIOUS
  <2>. DEFINE now == [r \in Requests |-> Money(r)]
              then == [r \in Requests |-> Money(r)']
  <2>0. MoneyKnown'
    BY MoneyIsKnown, PTL
  <2>1. moneyOf = now
    BY MoneyIsKnown DEF MoneyKnown
  <2>2. moneyOf' = then
    BY <2>0 DEF MoneyKnown
  <2>3. CASE \A r \in Requests : Money(r)' = Money(r)
    BY <2>1, <2>2, <2>3
  <2>4. ASSUME NEW r \in Requests, Passes(r), \A s \in Requests \ {r} : Money(s)' = Money(s)
        PROVE  [Promise!Next]_moneyOf
    <3>1. then = [now EXCEPT ![r] = Money(r)']
      BY <2>4
    <3>2. CASE Money(r)' = Money(r)
      BY <2>1, <2>2, <3>1, <3>2
    <3>3. CASE Money(r) = "kept" /\ Money(r)' = "owed" /\ \A s \in Requests : Money(s) \notin {"owed", "sent"}
      <4>1. Promise!Take(r)
        BY <2>1, <2>2, <3>1, <3>3 DEF Promise!Take
      <4>. QED BY <4>1 DEF Promise!Next
    <3>4. CASE Money(r) = "owed" /\ Money(r)' = "sent"
      <4>1. Promise!Send(r)
        BY <2>1, <2>2, <3>1, <3>4 DEF Promise!Send
      <4>. QED BY <4>1 DEF Promise!Next
    <3>5. CASE Money(r) = "owed" /\ Money(r)' = "restored"
      <4>1. Promise!Restore(r)
        BY <2>1, <2>2, <3>1, <3>5 DEF Promise!Restore
      <4>. QED BY <4>1 DEF Promise!Next
    <3>6. CASE Money(r) = "sent" /\ Money(r)' = "settled"
      <4>1. Promise!Settle(r)
        BY <2>1, <2>2, <3>1, <3>6 DEF Promise!Settle
      <4>. QED BY <4>1 DEF Promise!Next
    <3>. QED BY <2>4, <3>2, <3>3, <3>4, <3>5, <3>6 DEF Passes
  <2>. QED BY <2>3, <2>4, MoneyPasses
<1>. QED BY <1>1, <1>2, RailInvariant, PTL DEF Spec, PromiseKept, Promise!Spec
===============================================================================
