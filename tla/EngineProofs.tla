------------------------------ MODULE EngineProofs ------------------------------
(* What is proved of the engine: of OrderEngine, and of Liquidation.       *)
EXTENDS OrderEngine, Liquidation, FiniteSetTheorems, WellFoundedInduction, TLAPS

-------------------------------------------------------------------------------
(* Folds over the indexes of a table *)

\* Among sets of indexes there is one that contains no other of them.
LEMMA LeastSet ==
  ASSUME NEW n \in Nat, NEW B \in SUBSET (SUBSET (1..n)), B # {}
  PROVE  \E U \in B : \A V \in SUBSET U : V # U => V \notin B
<1>0. IsFiniteSet(1..n)
  BY FS_Interval
<1>1. B \subseteq FiniteSubsetsOf(1..n)
  BY <1>0, FS_Subset DEF FiniteSubsetsOf
<1>2. PICK U \in B : \A V \in B : ~(<<V, U>> \in StrictSubsetOrdering(1..n))
  BY <1>1, FS_StrictSubsetOrderingWellFounded, WFMin, Zenon
<1>3. ASSUME NEW V \in SUBSET U, V # U, V \in B PROVE FALSE
  BY <1>1, <1>2, <1>3 DEF StrictSubsetOrdering
<1>. QED BY <1>3

LEMMA MaxIsIn ==
  ASSUME NEW n \in Nat, NEW U \in SUBSET (1..n), U # {}
  PROVE  Max(U) \in U
<1>. DEFINE B == {V \in SUBSET U : V # {} /\ ~\E x \in V : \A y \in V : x >= y}
<1>1. B = {}
  <2>. SUFFICES ASSUME B # {} PROVE FALSE
    OBVIOUS
  <2>1. PICK V \in B : \A W \in SUBSET V : W # V => W \notin B
    <3>1. B \in SUBSET (SUBSET (1..n))
      OBVIOUS
    <3>. HIDE DEF B
    <3>. QED BY <3>1, LeastSet
  <2>2. PICK z \in V : TRUE
    OBVIOUS
  <2>3. CASE V \ {z} = {}
    <3>1. \A y \in V : y = z /\ z \in Int
      BY <2>3
    <3>. QED BY <3>1
  <2>4. CASE V \ {z} # {}
    <3>1. PICK x \in V \ {z} : \A y \in V \ {z} : x >= y
      BY <2>1, <2>4
    <3>2. x \in Int /\ z \in Int /\ \A y \in V : y \in Int
      OBVIOUS
    <3>3. CASE x >= z
      BY <3>1, <3>2, <3>3
    <3>4. CASE z >= x
      BY <3>1, <3>2, <3>4
    <3>. QED BY <3>2, <3>3, <3>4
  <2>. QED BY <2>3, <2>4
<1>2. \E x \in U : \A y \in U : x >= y
  BY <1>1
<1>. QED BY <1>2 DEF Max

(* A fold takes the indexes from the first to the last: folded over a set, *)
(* the last is folded into the fold of the rest.                           *)
Folds(g, F, base, T) ==
  g = [U \in SUBSET T |-> IF U = {} THEN base ELSE F[<<Max(U), g[U \ {Max(U)}]>>]]
Fold(F, base, T) == CHOOSE g : Folds(g, F, base, T)

LEMMA FoldsAgree ==
  ASSUME NEW n \in Nat, NEW W \in SUBSET (1..n), NEW F, NEW base,
         NEW T, NEW g, W \subseteq T, Folds(g, F, base, T),
         NEW R, NEW h, W \subseteq R, Folds(h, F, base, R)
  PROVE  g[W] = h[W]
<1>. DEFINE B == {U \in SUBSET W : g[U] # h[U]}
<1>. SUFFICES ASSUME B # {} PROVE FALSE
  OBVIOUS
<1>2. PICK U \in B : \A V \in SUBSET U : V # U => V \notin B
  <2>1. B \in SUBSET (SUBSET (1..n))
    OBVIOUS
  <2>. HIDE DEF B
  <2>. QED BY <2>1, LeastSet
<1>3. U \in SUBSET T /\ U \in SUBSET R /\ U \in SUBSET (1..n) /\ g[U] # h[U]
  OBVIOUS
<1>4. /\ g[U] = IF U = {} THEN base ELSE F[<<Max(U), g[U \ {Max(U)}]>>]
      /\ h[U] = IF U = {} THEN base ELSE F[<<Max(U), h[U \ {Max(U)}]>>]
  BY <1>3 DEF Folds
<1>5. U # {}
  BY <1>3, <1>4
<1>6. Max(U) \in U
  BY <1>3, <1>5, MaxIsIn
<1>7. g[U \ {Max(U)}] = h[U \ {Max(U)}]
  BY <1>2, <1>6
<1>. QED BY <1>3, <1>4, <1>5, <1>7

LEMMA FoldExists ==
  ASSUME NEW n \in Nat, NEW F, NEW base
  PROVE  Folds(Fold(F, base, 1..n), F, base, 1..n)
<1>. DEFINE B == {U \in SUBSET (1..n) : \A g : ~Folds(g, F, base, U)}
<1>1. SUFFICES B = {}
  BY DEF Fold
<1>2. SUFFICES ASSUME B # {} PROVE FALSE
  OBVIOUS
<1>3. PICK U \in B : \A V \in SUBSET U : V # U => V \notin B
  <2>1. B \in SUBSET (SUBSET (1..n))
    OBVIOUS
  <2>. HIDE DEF B
  <2>. QED BY <1>2, <2>1, LeastSet
<1>4. \A V \in SUBSET U : V # U => Folds(Fold(F, base, V), F, base, V)
  BY <1>3 DEF Fold
<1>. DEFINE Value(V) == Fold(F, base, V)[V]
            Total(V) == IF V = {} THEN base ELSE F[<<Max(V), Value(V \ {Max(V)})>>]
            g == [V \in SUBSET U |-> Total(V)]
<1>5. \A V \in SUBSET U : V # U => Value(V) = Total(V)
  <2>. TAKE V \in SUBSET U
  <2>. HAVE V # U
  <2>1. Folds(Fold(F, base, V), F, base, V)
    BY <1>4
  <2>2. CASE V = {}
    BY <2>1, <2>2 DEF Folds
  <2>3. CASE V # {}
    <3>1. Max(V) \in V
      BY <2>3, MaxIsIn
    <3>. DEFINE W == V \ {Max(V)}
    <3>2. W \in SUBSET V /\ W \in SUBSET U /\ W # U /\ W \in SUBSET (1..n)
      BY <3>1
    <3>3. Folds(Fold(F, base, W), F, base, W)
      BY <1>4, <3>2
    <3>5. Fold(F, base, V)[W] = Fold(F, base, W)[W]
      <4>1. W \subseteq V /\ W \subseteq W
        BY <3>2
      <4>. QED BY <2>1, <3>2, <3>3, <4>1, FoldsAgree
    <3>6. Fold(F, base, V)[V] = F[<<Max(V), Fold(F, base, V)[W]>>]
      BY <2>1, <2>3 DEF Folds
    <3>. QED BY <2>3, <3>5, <3>6
  <2>. QED BY <2>2, <2>3
<1>6. \A V \in SUBSET U : g[V] = IF V = {} THEN base ELSE F[<<Max(V), g[V \ {Max(V)}]>>]
  <2>. TAKE V \in SUBSET U
  <2>1. CASE V = {}
    BY <2>1
  <2>2. CASE V # {}
    <3>1. Max(V) \in V
      BY <2>2, MaxIsIn
    <3>2. V \ {Max(V)} \in SUBSET U /\ V \ {Max(V)} # U
      BY <3>1
    <3>3. g[V \ {Max(V)}] = Value(V \ {Max(V)})
      BY <1>5, <3>2
    <3>. HIDE DEF Value
    <3>. QED BY <2>2, <3>3
  <2>. QED BY <2>1, <2>2
<1>7. Folds(g, F, base, U)
  <2>1. g = [V \in SUBSET U |-> g[V]]
    OBVIOUS
  <2>. HIDE DEF g
  <2>. QED BY <1>6, <2>1 DEF Folds
<1>. HIDE DEF g
<1>. QED BY <1>3, <1>7

LEMMA FoldStays ==
  ASSUME NEW n \in Nat, NEW S, NEW base \in S, NEW F,
         \A i \in 1..n, acc \in S : F[<<i, acc>>] \in S,
         NEW h, Folds(h, F, base, 1..n)
  PROVE  \A U \in SUBSET (1..n) : h[U] \in S
<1>. DEFINE B == {U \in SUBSET (1..n) : h[U] \notin S}
<1>. SUFFICES ASSUME B # {} PROVE FALSE
  OBVIOUS
<1>1. PICK U \in B : \A V \in SUBSET U : V # U => V \notin B
  <2>1. B \in SUBSET (SUBSET (1..n))
    OBVIOUS
  <2>. HIDE DEF B
  <2>. QED BY <2>1, LeastSet
<1>2. h[U] = IF U = {} THEN base ELSE F[<<Max(U), h[U \ {Max(U)}]>>]
  BY DEF Folds
<1>3. U # {}
  BY <1>2
<1>4. Max(U) \in U /\ Max(U) \in 1..n
  BY <1>3, MaxIsIn
<1>5. h[U \ {Max(U)}] \in S
  BY <1>1, <1>4
<1>. QED BY <1>2, <1>3, <1>4, <1>5

-------------------------------------------------------------------------------
(* Tables of orders *)

State == [orders : Seq(Order), pos : Int]
Observation == [last : Int, lo : Int, hi : Int, closes : BOOLEAN]

\* What nothing but the trader ever changes about an order.
SameOrder(o, p) ==
  /\ p.role = o.role /\ p.tag = o.tag /\ p.side = o.side /\ p.kind = o.kind
  /\ p.parent = o.parent /\ p.group = o.group /\ p.eligible = o.eligible

LEMMA OrderFields ==
  ASSUME NEW o \in Order
  PROVE  /\ o.role \in Roles /\ o.side \in Sides /\ o.kind \in Kinds /\ o.at \in Int
         /\ o.qty \in Int /\ o.filled \in Int /\ o.fillAt \in Int /\ o.status \in OrderStatus
         /\ o.parent \in Nat \cup {Nobody} /\ o.group \in Nat \cup {Nobody}
         /\ o.eligible \in BOOLEAN /\ o.rested \in BOOLEAN
         /\ o.tag \in {"user", "flatten", "reverse", "liquidate", "bracket", "protect"}
BY DEF Order

LEMMA EveryOfThem ==
  ASSUME NEW os \in Seq(Order), NEW f \in [DOMAIN os -> Order]
  PROVE  /\ <<>> \o f = f
         /\ f \in Seq(Order)
         /\ Len(f) = Len(os) /\ DOMAIN f = DOMAIN os
<1>1. DOMAIN os = 1..Len(os) /\ Len(os) \in Nat
  OBVIOUS
<1>2. f \in Seq(Order) /\ Len(f) = Len(os)
  BY <1>1
<1>. QED BY <1>1, <1>2

LEMMA CanceledIs ==
  ASSUME NEW o \in Order
  PROVE  /\ Canceled(o) \in Order /\ SameOrder(o, Canceled(o)) /\ ~isOpen(Canceled(o))
         /\ Canceled(o).filled = o.filled /\ Canceled(o).status = "CANCELED"
BY DEF Canceled, Order, OrderStatus, SameOrder, isOpen

LEMMA RequantifiedIs ==
  ASSUME NEW o \in Order, NEW q \in Int
  PROVE  /\ [o EXCEPT !.qty = q] \in Order /\ SameOrder(o, [o EXCEPT !.qty = q])
         /\ [o EXCEPT !.qty = q].filled = o.filled /\ [o EXCEPT !.qty = q].qty = q
         /\ [o EXCEPT !.qty = q].status = o.status
BY DEF Order, SameOrder

(* What a fill leaves of the siblings.                                     *)
LeftOver(os, i, q, j) ==
  IF j \notin Siblings(os, i) THEN os[j]
  ELSE IF os[j].qty - q <= os[j].filled THEN Canceled(os[j])
  ELSE [os[j] EXCEPT !.qty = os[j].qty - q]

LEMMA SiblingsReduced ==
  ASSUME NEW os \in Seq(Order), NEW i \in DOMAIN os, NEW q \in Int
  PROVE  /\ ReduceSiblings(os, i, q) \in Seq(Order)
         /\ DOMAIN ReduceSiblings(os, i, q) = DOMAIN os
         /\ Len(ReduceSiblings(os, i, q)) = Len(os)
         /\ \A j \in DOMAIN os :
              ReduceSiblings(os, i, q)[j] = LeftOver(os, i, q, j)
<1>. DEFINE f == [j \in DOMAIN os |-> IF j \notin Siblings(os, i) THEN os[j]
                                      ELSE IF os[j].qty - q <= os[j].filled THEN Canceled(os[j])
                                      ELSE [os[j] EXCEPT !.qty = @ - q]]
<1>1. \A j \in DOMAIN os : os[j] \in Order /\ os[j].qty - q \in Int
  BY OrderFields
<1>2. f \in [DOMAIN os -> Order]
  BY <1>1, CanceledIs, RequantifiedIs
<1>3. ReduceSiblings(os, i, q) = <<>> \o f
  BY DEF ReduceSiblings, Every
<1>. QED BY <1>2, <1>3, EveryOfThem DEF LeftOver

(* The matcher looks at one order: nothing, or it is open and eligible and *)
(* fills, whole unless fills are capped.                                   *)
Executed(o, p, q) ==
  /\ SameOrder(o, p)
  /\ p.filled = o.filled + q
  /\ p.qty = o.qty
  /\ p.status = IF p.filled >= p.qty THEN "FILLED" ELSE "PARTIALLY_FILLED"

LEMMA FillLevelIsInt ==
  ASSUME NEW o \in Order, NEW m \in Observation PROVE FillLevel(o, m) \in Int
BY OrderFields DEF FillLevel, Observation

LEMMA MatchOneIs ==
  ASSUME NEW m \in Observation, NEW s \in State, NEW i \in DOMAIN s.orders
  PROVE  \/ MatchOne(m, s, i) = s
         \/ /\ isOpen(s.orders[i]) /\ s.orders[i].eligible
            /\ \E q \in Nat \ {0}, p \in Order :
                 /\ q <= remainingQty(s.orders[i])
                 /\ FillCap = Nobody => q = remainingQty(s.orders[i])
                 /\ Executed(s.orders[i], p, q)
                 /\ MatchOne(m, s, i) =
                      [orders |-> ReduceSiblings([s.orders EXCEPT ![i] = p], i, q),
                       pos |-> s.pos + s.orders[i].side * q]
<1>. DEFINE o == s.orders[i]
            q == IF FillCap = Nobody THEN remainingQty(o) ELSE Smaller(FillCap, remainingQty(o))
            done == o.filled + q >= o.qty
            p == [o EXCEPT !.filled = @ + q,
                           !.fillAt = IF o.filled = 0 THEN FillLevel(o, m) ELSE @,
                           !.status = IF done THEN "FILLED" ELSE "PARTIALLY_FILLED"]
            r == [orders |-> ReduceSiblings([s.orders EXCEPT ![i] = p], i, q),
                  pos |-> s.pos + o.side * q]
<1>1. o \in Order
  BY DEF State
<1>2. CASE ~isOpen(o) \/ remainingQty(o) <= 0 \/ ~Fills(o, m)
  BY <1>2 DEF MatchOne
<1>3. CASE isOpen(o) /\ ~(remainingQty(o) <= 0) /\ Fills(o, m)
  <2>1. MatchOne(m, s, i) = r
    BY <1>3, Zenon DEF MatchOne
  <2>2. remainingQty(o) \in Int /\ remainingQty(o) > 0
    BY <1>1, <1>3, OrderFields DEF remainingQty
  <2>3. q \in Nat \ {0} /\ q <= remainingQty(o) /\ (FillCap = Nobody => q = remainingQty(o))
    BY <2>2, FillCapAssumption DEF Smaller
  <2>. HIDE DEF q
  <2>4. p \in Order
    <3>1. FillLevel(o, m) \in Int
      BY <1>1, FillLevelIsInt
    <3>2. /\ o.filled + q \in Int
          /\ (IF o.filled = 0 THEN FillLevel(o, m) ELSE o.fillAt) \in Int
          /\ (IF done THEN "FILLED" ELSE "PARTIALLY_FILLED") \in OrderStatus
      BY <1>1, <2>3, <3>1, OrderFields DEF OrderStatus
    <3>. QED BY <1>1, <3>2 DEF Order
  <2>5. Executed(o, p, q)
    BY <1>1, <2>3, OrderFields DEF Executed, SameOrder, Order
  <2>6. o.eligible
    BY <1>3 DEF Fills
  <2>. HIDE DEF p
  <2>. QED BY <1>3, <2>1, <2>3, <2>4, <2>5, <2>6
<1>. QED BY <1>2, <1>3

(* A pass of the matcher stays in every set that each order keeps to.      *)
MatchStep(m, os, stops, i, acc) ==
  IF IsStop(os[i]) = stops THEN MatchOne(m, acc, i) ELSE acc
MatchPasses(g, m, os, s, stops) ==
  g = [U \in SUBSET DOMAIN os |->
         IF U = {} THEN s ELSE MatchStep(m, os, stops, Max(U), g[U \ {Max(U)}])]

LEMMA MatchThoseUnfolds ==
  ASSUME NEW m, NEW os \in Seq(Order), NEW s, NEW stops
  PROVE  MatchThose(m, os, s, stops) = (CHOOSE g : MatchPasses(g, m, os, s, stops))[DOMAIN os]
<1>. DEFINE idx == [i \in DOMAIN os |-> i]
            raw(g) == g = [U \in SUBSET DOMAIN idx |->
                        IF U = {} THEN s
                        ELSE IF IsStop(os[idx[Max(U)]]) = stops
                             THEN MatchOne(m, g[U \ {Max(U)}], idx[Max(U)]) ELSE g[U \ {Max(U)}]]
<1>1. MatchThose(m, os, s, stops) = (CHOOSE g : raw(g))[DOMAIN idx]
  BY DEF MatchThose, FoldLeftDomain, FoldLeft, MapThenFoldSet
<1>2. DOMAIN idx = DOMAIN os
  OBVIOUS
<1>3. \A g : raw(g) <=> MatchPasses(g, m, os, s, stops)
  <2>. TAKE g
  <2>1. \A U \in SUBSET DOMAIN os : U # {} => idx[Max(U)] = Max(U)
    <3>1. DOMAIN os = 1..Len(os) /\ Len(os) \in Nat
      OBVIOUS
    <3>2. \A U \in SUBSET DOMAIN os : U # {} => Max(U) \in DOMAIN os
      BY <3>1, MaxIsIn
    <3>. QED BY <3>2
  <2>2. \A U \in SUBSET DOMAIN os :
          (IF U = {} THEN s
           ELSE IF IsStop(os[idx[Max(U)]]) = stops
                THEN MatchOne(m, g[U \ {Max(U)}], idx[Max(U)]) ELSE g[U \ {Max(U)}])
          = (IF U = {} THEN s ELSE MatchStep(m, os, stops, Max(U), g[U \ {Max(U)}]))
    <3>. HIDE DEF idx
    <3>. QED BY <2>1, Zenon DEF MatchStep
  <2>. HIDE DEF idx
  <2>. QED BY <1>2, <2>2, Zenon DEF MatchPasses
<1>. HIDE DEF idx
<1>. QED BY <1>1, <1>2, <1>3

(* The same with what is known of the orders that have had their turn.     *)
LEMMA MatchThoseReaches ==
  ASSUME NEW m, NEW os \in Seq(Order), NEW stops, NEW S, NEW s \in S,
         \A acc \in S, i \in DOMAIN os : MatchStep(m, os, stops, i, acc) \in S,
         NEW R, <<{}, s>> \in R,
         \A U \in SUBSET DOMAIN os, acc \in S :
           U # {} /\ <<U \ {Max(U)}, acc>> \in R => <<U, MatchStep(m, os, stops, Max(U), acc)>> \in R
  PROVE  MatchThose(m, os, s, stops) \in S /\ <<DOMAIN os, MatchThose(m, os, s, stops)>> \in R
<1>. DEFINE n == Len(os)
            F == [x \in (1..n) \X S |-> MatchStep(m, os, stops, x[1], x[2])]
            h == Fold(F, s, 1..n)
            g == CHOOSE g : MatchPasses(g, m, os, s, stops)
<1>1. DOMAIN os = 1..n /\ n \in Nat
  OBVIOUS
<1>2. \A i \in 1..n, acc \in S : MatchStep(m, os, stops, i, acc) \in S
  BY <1>1
<1>3. \A i \in 1..n, acc \in S : F[<<i, acc>>] = MatchStep(m, os, stops, i, acc)
  OBVIOUS
<1>. HIDE DEF n, F, g
<1>4. Folds(h, F, s, 1..n)
  BY <1>1, FoldExists
<1>. HIDE DEF h
<1>5. \A U \in SUBSET (1..n) : h[U] \in S
  <2>1. \A i \in 1..n, acc \in S : F[<<i, acc>>] \in S
    BY <1>2, <1>3
  <2>. QED BY <1>1, <1>4, <2>1, FoldStays
<1>6. MatchPasses(h, m, os, s, stops)
  <2>1. \A U \in SUBSET (1..n) : U # {} => F[<<Max(U), h[U \ {Max(U)}]>>]
                                          = MatchStep(m, os, stops, Max(U), h[U \ {Max(U)}])
    <3>. TAKE U \in SUBSET (1..n)
    <3>. HAVE U # {}
    <3>1. Max(U) \in 1..n
      BY <1>1, MaxIsIn
    <3>2. h[U \ {Max(U)}] \in S
      BY <1>5
    <3>. QED BY <1>3, <3>1, <3>2
  <2>2. h = [U \in SUBSET (1..n) |-> IF U = {} THEN s ELSE F[<<Max(U), h[U \ {Max(U)}]>>]]
    BY <1>4 DEF Folds
  <2>. QED BY <1>1, <2>1, <2>2 DEF MatchPasses
<1>7. MatchPasses(g, m, os, s, stops)
  BY <1>6 DEF g
<1>8. \A U \in SUBSET (1..n) : g[U] \in S /\ <<U, g[U]>> \in R
  <2>. DEFINE B == {U \in SUBSET (1..n) : ~(g[U] \in S /\ <<U, g[U]>> \in R)}
  <2>. SUFFICES ASSUME B # {} PROVE FALSE
    OBVIOUS
  <2>1. PICK U \in B : \A V \in SUBSET U : V # U => V \notin B
    <3>1. B \in SUBSET (SUBSET (1..n))
      OBVIOUS
    <3>. HIDE DEF B
    <3>. QED BY <1>1, <3>1, LeastSet
  <2>2. g[U] = IF U = {} THEN s ELSE MatchStep(m, os, stops, Max(U), g[U \ {Max(U)}])
    BY <1>1, <1>7 DEF MatchPasses
  <2>3. U # {}
    BY <2>2
  <2>4. Max(U) \in U /\ Max(U) \in 1..n
    BY <1>1, <2>3, MaxIsIn
  <2>5. g[U \ {Max(U)}] \in S /\ <<U \ {Max(U)}, g[U \ {Max(U)}]>> \in R
    BY <2>1, <2>4
  <2>6. g[U] \in S
    BY <1>2, <2>2, <2>3, <2>4, <2>5
  <2>7. <<U, g[U]>> \in R
    BY <1>1, <2>2, <2>3, <2>5
  <2>. QED BY <2>6, <2>7
<1>. QED BY <1>1, <1>8, MatchThoseUnfolds DEF g

LEMMA MatchThoseStays ==
  ASSUME NEW m, NEW os \in Seq(Order), NEW stops, NEW S, NEW s \in S,
         \A acc \in S, i \in DOMAIN os : MatchOne(m, acc, i) \in S
  PROVE  MatchThose(m, os, s, stops) \in S
<1>. DEFINE R == (SUBSET DOMAIN os) \X S
<1>1. \A acc \in S, i \in DOMAIN os : MatchStep(m, os, stops, i, acc) \in S
  BY DEF MatchStep
<1>2. \A U \in SUBSET DOMAIN os : U # {} => Max(U) \in DOMAIN os
  <2>1. DOMAIN os = 1..Len(os) /\ Len(os) \in Nat
    OBVIOUS
  <2>. QED BY <2>1, MaxIsIn
<1>3. /\ <<{}, s>> \in R
      /\ \A U \in SUBSET DOMAIN os, acc \in S :
           U # {} /\ <<U \ {Max(U)}, acc>> \in R => <<U, MatchStep(m, os, stops, Max(U), acc)>> \in R
  BY <1>1, <1>2
<1>. HIDE DEF R
<1>. QED BY <1>1, <1>3, MatchThoseReaches

(* What a pass of the matcher may do to a table: fill what is open and     *)
(* eligible, resize and close.                                             *)
Matches(os, r) ==
  /\ DOMAIN r = DOMAIN os
  /\ \A j \in DOMAIN os :
       /\ SameOrder(os[j], r[j])
       /\ isOpen(r[j]) => isOpen(os[j])
       /\ r[j].filled # os[j].filled => isOpen(os[j]) /\ os[j].eligible

LEMMA MatchOneMatches ==
  ASSUME NEW m \in Observation, NEW s \in State, NEW i \in DOMAIN s.orders
  PROVE  /\ MatchOne(m, s, i) \in State
         /\ Matches(s.orders, MatchOne(m, s, i).orders)
         /\ MatchOne(m, s, i).pos # s.pos => isOpen(s.orders[i])
<1>. DEFINE os == s.orders
            r == MatchOne(m, s, i)
<1>1. os \in Seq(Order) /\ s.pos \in Int /\ \A j \in DOMAIN os : os[j] \in Order
  BY DEF State
<1>2. CASE r = s
  BY <1>1, <1>2 DEF Matches, SameOrder
<1>3. CASE r # s
  <2>0. isOpen(os[i]) /\ os[i].eligible
    BY <1>3, MatchOneIs
  <2>1. PICK q \in Nat \ {0}, p \in Order :
          /\ q <= remainingQty(os[i])
          /\ FillCap = Nobody => q = remainingQty(os[i])
          /\ Executed(os[i], p, q)
          /\ r = [orders |-> ReduceSiblings([os EXCEPT ![i] = p], i, q),
                  pos |-> s.pos + os[i].side * q]
    BY <1>3, MatchOneIs
  <2>. DEFINE os1 == [os EXCEPT ![i] = p]
              rs == ReduceSiblings(os1, i, q)
  <2>2. os1 \in Seq(Order) /\ DOMAIN os1 = DOMAIN os /\ i \in DOMAIN os1
    BY <1>1
  <2>3. \A j \in DOMAIN os : os1[j] = IF j = i THEN p ELSE os[j]
    BY <1>1
  <2>. HIDE DEF os1
  <2>4. /\ rs \in Seq(Order) /\ DOMAIN rs = DOMAIN os
        /\ \A j \in DOMAIN os :
              rs[j] = LeftOver(os1, i, q, j)
    <3>1. q \in Int
      OBVIOUS
    <3>2. rs \in Seq(Order) /\ DOMAIN rs = DOMAIN os1
      BY <2>2, <3>1, SiblingsReduced
    <3>3. \A j \in DOMAIN os1 :
             rs[j] = LeftOver(os1, i, q, j)
      BY <2>2, <3>1, SiblingsReduced
    <3>. HIDE DEF rs
    <3>. QED BY <2>2, <3>2, <3>3, Zenon
  <2>. HIDE DEF rs
  <2>5. \A j \in DOMAIN os : /\ SameOrder(os[j], os1[j])
                             /\ isOpen(os1[j]) => isOpen(os[j])
                             /\ os1[j].filled # os[j].filled => j = i
    BY <2>0, <2>1, <2>3 DEF Executed, SameOrder
  <2>6. \A j \in DOMAIN os : /\ SameOrder(os1[j], rs[j]) /\ rs[j].filled = os1[j].filled
                             /\ isOpen(rs[j]) => isOpen(os1[j])
    <3>. TAKE j \in DOMAIN os
    <3>1. os1[j] \in Order /\ os1[j].qty - q \in Int
      BY <2>2, OrderFields
    <3>2. CASE j \notin Siblings(os1, i)
      BY <2>4, <3>2 DEF SameOrder, LeftOver
    <3>3. CASE j \in Siblings(os1, i) /\ os1[j].qty - q <= os1[j].filled
      BY <2>4, <3>1, <3>3, CanceledIs DEF LeftOver
    <3>4. CASE j \in Siblings(os1, i) /\ ~(os1[j].qty - q <= os1[j].filled)
      <4>1. rs[j] = [os1[j] EXCEPT !.qty = os1[j].qty - q]
        BY <2>4, <3>4 DEF LeftOver
      <4>2. /\ SameOrder(os1[j], rs[j]) /\ rs[j].filled = os1[j].filled
            /\ rs[j].status = os1[j].status
        BY <3>1, <4>1, RequantifiedIs
      <4>. QED BY <4>2 DEF isOpen
    <3>. QED BY <3>2, <3>3, <3>4
  <2>7. Matches(os, rs)
    BY <2>0, <2>4, <2>5, <2>6 DEF Matches, SameOrder
  <2>8. s.pos + os[i].side * q \in Int
    <3>1. os[i].side \in {1, -1}
      BY <1>1, OrderFields DEF Sides
    <3>. QED BY <1>1, <3>1
  <2>9. r \in State /\ r.orders = rs
    BY <2>1, <2>4, <2>8 DEF State, rs, os1
  <2>. QED BY <2>0, <2>7, <2>9
<1>. QED BY <1>2, <1>3

LEMMA MatchesTwice ==
  ASSUME NEW os, NEW r, NEW t, Matches(os, r), Matches(r, t)
  PROVE  Matches(os, t)
BY DEF Matches, SameOrder

LEMMA OrdersMatch ==
  ASSUME NEW m \in Observation, NEW os \in Seq(Order), NEW p \in Int
  PROVE  /\ matchOrders(m, os, p) \in State
         /\ Matches(os, matchOrders(m, os, p).orders)
         /\ OpenIn(os) = {} => matchOrders(m, os, p).pos = p
<1>. DEFINE S == {s \in State : /\ Matches(os, s.orders)
                                /\ OpenIn(os) = {} => s.pos = p}
            s0 == [orders |-> os, pos |-> p]
            s1 == MatchThose(m, os, s0, TRUE)
<1>1. s0 \in S
  BY DEF State, Matches, SameOrder
<1>2. \A acc \in S, i \in DOMAIN os : MatchOne(m, acc, i) \in S
  <2>. TAKE acc \in S, i \in DOMAIN os
  <2>1. i \in DOMAIN acc.orders
    BY DEF Matches
  <2>2. /\ MatchOne(m, acc, i) \in State
        /\ Matches(acc.orders, MatchOne(m, acc, i).orders)
        /\ MatchOne(m, acc, i).pos # acc.pos => isOpen(acc.orders[i])
    BY <2>1, MatchOneMatches
  <2>3. Matches(os, MatchOne(m, acc, i).orders)
    BY <2>2, MatchesTwice
  <2>4. OpenIn(os) = {} => MatchOne(m, acc, i).pos = p
    BY <2>2 DEF Matches, OpenIn
  <2>. QED BY <2>2, <2>3, <2>4
<1>. HIDE DEF S
<1>3. s1 \in S
  BY <1>1, <1>2, MatchThoseStays
<1>4. matchOrders(m, os, p) \in S
  BY <1>2, <1>3, MatchThoseStays DEF matchOrders
<1>. QED BY <1>4 DEF S

-------------------------------------------------------------------------------
(* Brackets and protection *)

(* What reconciling may do to a table: resize and close, and append new    *)
(* bracket legs.                                                           *)
Later(os, r) ==
  /\ Len(r) >= Len(os)
  /\ \A j \in DOMAIN os : /\ SameOrder(os[j], r[j])
                          /\ r[j].filled = os[j].filled
                          /\ isOpen(r[j]) => isOpen(os[j])
  /\ \A j \in DOMAIN r \ DOMAIN os : /\ r[j].tag = "bracket" /\ r[j].role # "ENTRY"
                                     /\ r[j].filled = 0

LEMMA LaterTwice ==
  ASSUME NEW os \in Seq(Order), NEW r \in Seq(Order), NEW t \in Seq(Order),
         Later(os, r), Later(r, t)
  PROVE  Later(os, t)
<1>1. DOMAIN os \subseteq DOMAIN r /\ DOMAIN r \subseteq DOMAIN t /\ Len(t) >= Len(os)
  BY DEF Later
<1>2. \A j \in DOMAIN os : /\ SameOrder(os[j], t[j]) /\ t[j].filled = os[j].filled
                           /\ isOpen(t[j]) => isOpen(os[j])
  BY <1>1 DEF Later, SameOrder
<1>3. \A j \in DOMAIN t \ DOMAIN os : /\ t[j].tag = "bracket" /\ t[j].role # "ENTRY"
                                      /\ t[j].filled = 0
  BY <1>1 DEF Later, SameOrder
<1>. QED BY <1>1, <1>2, <1>3 DEF Later

LEMMA ResizedIs ==
  ASSUME NEW o \in Order, NEW target \in Int
  PROVE  /\ Resized(o, target) \in Order /\ SameOrder(o, Resized(o, target))
         /\ Resized(o, target).filled = o.filled
         /\ isOpen(Resized(o, target)) => /\ isOpen(o) /\ target > o.filled
                                          /\ Resized(o, target).qty = target
         /\ Resized(o, target).status \in {o.status, "CANCELED"}
<1>1. o.filled \in Int
  BY OrderFields
<1>2. CASE target <= o.filled
  BY <1>1, <1>2, CanceledIs DEF Resized
<1>3. CASE target > o.filled
  <2>1. Resized(o, target) = [o EXCEPT !.qty = target]
    BY <1>1, <1>3 DEF Resized
  <2>. QED BY <1>3, <2>1, RequantifiedIs DEF isOpen
<1>. QED BY <1>1, <1>2, <1>3

Tags == {"user", "flatten", "reverse", "liquidate", "bracket", "protect"}
Refs == Nat \cup {Nobody}

Working(o, role, tag, side, kind, at, qty, parent, group) ==
  /\ o \in Order
  /\ o.role = role /\ o.tag = tag /\ o.side = side /\ o.kind = kind /\ o.at = at /\ o.qty = qty
  /\ o.parent = parent /\ o.group = group /\ o.filled = 0 /\ o.status = "WORKING"
  /\ o.eligible = ~Latent

LEMMA CreatedIs ==
  ASSUME NEW role \in Roles, NEW side \in Sides, NEW kind \in Kinds, NEW at \in Int, NEW qty \in Int,
         NEW tag \in Tags, NEW parent \in Refs, NEW group \in Refs
  PROVE  Working(createOrder(role, tag, side, kind, at, qty, parent, group),
                 role, tag, side, kind, at, qty, parent, group)
<1>. DEFINE o == createOrder(role, tag, side, kind, at, qty, parent, group)
<1>1. (~Latent) \in BOOLEAN
  BY Zenon
<1>2. \A b \in BOOLEAN :
         [role |-> role, tag |-> tag, side |-> side, kind |-> kind, at |-> at,
          qty |-> qty, filled |-> 0, fillAt |-> at, status |-> "WORKING",
          parent |-> parent, group |-> group, eligible |-> b, rested |-> FALSE] \in Order
  BY DEF Order, OrderStatus, Tags, Refs
<1>3. o \in Order
  BY <1>1, <1>2, Zenon DEF createOrder
<1>4. o.eligible = ~Latent
  BY Zenon DEF createOrder
<1>5. /\ o.role = role /\ o.tag = tag /\ o.side = side /\ o.kind = kind /\ o.qty = qty
      /\ o.parent = parent /\ o.group = group /\ o.filled = 0 /\ o.status = "WORKING" /\ o.at = at
  BY DEF createOrder
<1>. HIDE DEF o
<1>6. Working(o, role, tag, side, kind, at, qty, parent, group)
  BY <1>3, <1>4, <1>5, Zenon DEF Working
<1>. QED BY <1>6 DEF o

LEMMA LegsAreCreated ==
  ASSUME NEW os \in Seq(Order), NEW e \in DOMAIN os
  PROVE  /\ createBracketLegs(os, e) \in Seq(Order)
         /\ Len(createBracketLegs(os, e)) = Len(os) + 2
         /\ \A j \in DOMAIN os : createBracketLegs(os, e)[j] = os[j]
         /\ \A j \in {Len(os) + 1, Len(os) + 2} :
              LET leg == createBracketLegs(os, e)[j] IN
              /\ leg.tag = "bracket" /\ leg.role # "ENTRY" /\ leg.filled = 0
              /\ leg.status = "WORKING" /\ leg.qty = os[e].filled
              /\ leg.parent = e /\ leg.group = Len(os) + 1
              /\ Protective(leg) /\ leg.side = -os[e].side
<1>. DEFINE group == Len(os) + 1
            side == -os[e].side
            qty == os[e].filled
            below == os[e].fillAt - os[e].side * Offset
            above == os[e].fillAt + os[e].side * Offset
            stop == createOrder("STOP_LOSS", "bracket", side, "STOP_MARKET", below, qty, e, group)
            target == createOrder("TAKE_PROFIT", "bracket", side, "LIMIT", above, qty, e, group)
<1>1. /\ group \in Refs /\ e \in Refs /\ side \in Sides /\ qty \in Int
      /\ below \in Int /\ above \in Int
  <2>1. os[e] \in Order
    OBVIOUS
  <2>2. os[e].side \in {1, -1} /\ qty \in Int /\ os[e].fillAt \in Int
    BY <2>1, OrderFields DEF Sides
  <2>3. Offset \in Nat
    BY SizesAssumption
  <2>4. group \in Nat /\ e \in Nat
    OBVIOUS
  <2>. QED BY <2>2, <2>3, <2>4 DEF Sides, Refs
<1>2. createBracketLegs(os, e) = os \o <<stop, target>>
  BY DEF createBracketLegs
<1>. HIDE DEF group, side, qty, below, above
<1>2a. /\ "STOP_LOSS" \in Roles /\ "TAKE_PROFIT" \in Roles /\ "STOP_MARKET" \in Kinds /\ "LIMIT" \in Kinds
       /\ "bracket" \in Tags
  BY DEF Roles, Kinds, Tags
<1>2b. /\ stop = createOrder("STOP_LOSS", "bracket", side, "STOP_MARKET", below, qty, e, group)
       /\ target = createOrder("TAKE_PROFIT", "bracket", side, "LIMIT", above, qty, e, group)
  OBVIOUS
<1>. HIDE DEF stop, target
<1>3. Working(stop, "STOP_LOSS", "bracket", side, "STOP_MARKET", below, qty, e, group)
  BY <1>1, <1>2a, <1>2b, CreatedIs
<1>4. Working(target, "TAKE_PROFIT", "bracket", side, "LIMIT", above, qty, e, group)
  BY <1>1, <1>2a, <1>2b, CreatedIs
<1>5. <<stop, target>> \in Seq(Order) /\ Len(<<stop, target>>) = 2
  BY <1>3, <1>4 DEF Working
<1>6. /\ os \o <<stop, target>> \in Seq(Order) /\ Len(os \o <<stop, target>>) = Len(os) + 2
      /\ \A j \in DOMAIN os : (os \o <<stop, target>>)[j] = os[j]
      /\ (os \o <<stop, target>>)[Len(os) + 1] = stop
      /\ (os \o <<stop, target>>)[Len(os) + 2] = target
  BY <1>5
<1>7. Protective(stop) /\ Protective(target)
  BY <1>3, <1>4 DEF Working, Protective
<1>. QED BY <1>2, <1>3, <1>4, <1>6, <1>7 DEF group, qty, side, Working

(* One entry reconciled.                                                   *)
SyncTarget(p, sole, os, e, i) ==
  LET protect == IF Sign(p) = os[e].side THEN Magnitude(p) ELSE 0
  IN IF sole THEN os[i].filled + protect ELSE Smaller(os[e].filled, os[i].filled + protect)

Settled(p, sole, os, e, i) ==
  IF i \in Children(os, e) /\ isOpen(os[i]) THEN Resized(os[i], SyncTarget(p, sole, os, e, i))
  ELSE IF i = e /\ Sign(p) # os[e].side /\ isOpen(os[i]) THEN Canceled(os[i])
  ELSE IF i = e /\ p = 0 /\ isOpen(os[i]) THEN Canceled(os[i])
  ELSE os[i]

LEMMA SyncTargetIsInt ==
  ASSUME NEW p \in Int, NEW sole, NEW os \in Seq(Order), NEW e \in DOMAIN os, NEW i \in DOMAIN os
  PROVE  SyncTarget(p, sole, os, e, i) \in Int
<1>1. os[i].filled \in Int /\ os[e].filled \in Int
  <2>1. os[i] \in Order /\ os[e] \in Order
    OBVIOUS
  <2>. QED BY <2>1, OrderFields
<1>. DEFINE protect == IF Sign(p) = os[e].side THEN Magnitude(p) ELSE 0
<1>2. protect \in Int
  BY DEF Magnitude
<1>3. os[i].filled + protect \in Int /\ Smaller(os[e].filled, os[i].filled + protect) \in Int
  <2>. HIDE DEF protect
  <2>. QED BY <1>1, <1>2 DEF Smaller
<1>. QED BY <1>3, Zenon DEF SyncTarget

LEMMA EntrySettles ==
  ASSUME NEW p \in Int, NEW sole, NEW os \in Seq(Order), NEW e \in DOMAIN os, Children(os, e) # {}
  PROVE  /\ SyncEntry(p, sole, os, e) \in Seq(Order)
         /\ DOMAIN SyncEntry(p, sole, os, e) = DOMAIN os
         /\ Len(SyncEntry(p, sole, os, e)) = Len(os)
         /\ \A i \in DOMAIN os : SyncEntry(p, sole, os, e)[i] = Settled(p, sole, os, e, i)
<1>. DEFINE f == [i \in DOMAIN os |-> Settled(p, sole, os, e, i)]
            protect == IF Sign(p) = os[e].side THEN Magnitude(p) ELSE 0
            target(o) == IF sole THEN o.filled + protect
                         ELSE Smaller(os[e].filled, o.filled + protect)
            h == [i \in DOMAIN os |->
                    IF i \in Children(os, e) /\ isOpen(os[i]) THEN Resized(os[i], target(os[i]))
                    ELSE IF i = e /\ protect = 0 /\ isOpen(os[i]) THEN Canceled(os[i])
                    ELSE os[i]]
<1>1. SyncEntry(p, sole, os, e) = <<>> \o h
  BY DEF SyncEntry, Every
<1>2. protect = 0 <=> Sign(p) # os[e].side \/ p = 0
  <2>1. Magnitude(p) = 0 <=> p = 0
    BY DEF Magnitude
  <2>. QED BY <2>1
<1>3. h = f
  <2>1. \A i \in DOMAIN os : target(os[i]) = SyncTarget(p, sole, os, e, i)
    BY Zenon DEF SyncTarget
  <2>. HIDE DEF target, protect
  <2>2. \A i \in DOMAIN os : h[i] = Settled(p, sole, os, e, i)
    BY <1>2, <2>1, Zenon DEF Settled
  <2>. QED BY <2>1, <2>2
<1>4. f \in [DOMAIN os -> Order]
  <2>1. \A i \in DOMAIN os : os[i] \in Order /\ SyncTarget(p, sole, os, e, i) \in Int
    BY SyncTargetIsInt
  <2>2. \A i \in DOMAIN os : Settled(p, sole, os, e, i) \in Order
    BY <2>1, ResizedIs, CanceledIs DEF Settled
  <2>. QED BY <2>2
<1>. QED BY <1>1, <1>3, <1>4, EveryOfThem

LEMMA SettledIs ==
  ASSUME NEW p \in Int, NEW sole, NEW os \in Seq(Order), NEW e \in DOMAIN os, NEW i \in DOMAIN os
  PROVE  /\ SameOrder(os[i], Settled(p, sole, os, e, i))
         /\ Settled(p, sole, os, e, i).filled = os[i].filled
         /\ isOpen(Settled(p, sole, os, e, i)) => isOpen(os[i])
         /\ Settled(p, sole, os, e, i).status \in {os[i].status, "CANCELED"}
<1>1. os[i] \in Order /\ SyncTarget(p, sole, os, e, i) \in Int
  BY SyncTargetIsInt
<1>. DEFINE t == SyncTarget(p, sole, os, e, i)
            r == Settled(p, sole, os, e, i)
<1>2. r = Resized(os[i], t) \/ r = Canceled(os[i]) \/ r = os[i]
  BY Zenon DEF Settled
<1>. SUFFICES /\ SameOrder(os[i], r) /\ r.filled = os[i].filled
              /\ isOpen(r) => isOpen(os[i])
              /\ r.status \in {os[i].status, "CANCELED"}
  OBVIOUS
<1>. HIDE DEF r, t
<1>3. CASE r = Resized(os[i], t)
  BY <1>1, <1>3, ResizedIs DEF t
<1>4. CASE r = Canceled(os[i])
  BY <1>1, <1>4, CanceledIs
<1>5. CASE r = os[i]
  BY <1>5 DEF SameOrder
<1>. QED BY <1>2, <1>3, <1>4, <1>5

LEMMA EntrySyncs ==
  ASSUME NEW p \in Int, NEW sole, NEW os \in Seq(Order), NEW e \in DOMAIN os
  PROVE  /\ SyncEntry(p, sole, os, e) \in Seq(Order)
         /\ Later(os, SyncEntry(p, sole, os, e))
         /\ p # 0 => Children(SyncEntry(p, sole, os, e), e) # {}
         /\ p = 0 \/ Children(os, e) # {} => Len(SyncEntry(p, sole, os, e)) = Len(os)
<1>. DEFINE r == SyncEntry(p, sole, os, e)
<1>1. CASE Children(os, e) # {}
  <2>1. /\ r \in Seq(Order) /\ DOMAIN r = DOMAIN os /\ Len(r) = Len(os)
        /\ \A i \in DOMAIN os : r[i] = Settled(p, sole, os, e, i)
    <3>1. r \in Seq(Order)
      BY <1>1, EntrySettles
    <3>3. Len(r) = Len(os)
      BY <1>1, EntrySettles
    <3>4. \A i \in DOMAIN os : r[i] = Settled(p, sole, os, e, i)
      BY <1>1, EntrySettles
    <3>. HIDE DEF r
    <3>2. DOMAIN r = DOMAIN os
      BY <3>1, <3>3
    <3>. QED BY <3>1, <3>2, <3>3, <3>4
  <2>. HIDE DEF r
  <2>2. Later(os, r)
    BY <2>1, SettledIs DEF Later
  <2>3. Children(r, e) # {}
    BY <1>1, <2>1, <2>2 DEF Children, Later, SameOrder
  <2>. QED BY <2>1, <2>2, <2>3 DEF r
<1>2. CASE Children(os, e) = {} /\ p = 0
  <2>1. r = os
    BY <1>2 DEF SyncEntry
  <2>2. Later(os, os)
    BY DEF Later, SameOrder
  <2>. QED BY <1>2, <2>1, <2>2
<1>3. CASE Children(os, e) = {} /\ p # 0
  <2>1. r = createBracketLegs(os, e)
    BY <1>3 DEF SyncEntry
  <2>. HIDE DEF r
  <2>2. /\ r \in Seq(Order) /\ Len(r) = Len(os) + 2
        /\ \A j \in DOMAIN os : r[j] = os[j]
        /\ \A j \in {Len(os) + 1, Len(os) + 2} :
              r[j].tag = "bracket" /\ r[j].role # "ENTRY" /\ r[j].filled = 0 /\ r[j].parent = e
    BY <2>1, LegsAreCreated
  <2>3. DOMAIN r = 1..(Len(os) + 2) /\ DOMAIN os = 1..Len(os) /\ Len(os) \in Nat
    BY <2>2
  <2>4. Later(os, r)
    BY <2>2, <2>3 DEF Later, SameOrder
  <2>5. Len(os) + 1 \in Children(r, e)
    BY <2>2, <2>3 DEF Children
  <2>. QED BY <1>3, <2>2, <2>4, <2>5 DEF r
<1>. QED BY <1>1, <1>2, <1>3

(* The reconciliation of all entries, as a fold.                           *)
SyncStep(p, os, e, acc) ==
  IF e \in FilledEntries(os) THEN SyncEntry(p, FilledEntries(os) = {e}, acc, e) ELSE acc
SyncPasses(g, p, os) ==
  g = [U \in SUBSET DOMAIN os |->
         IF U = {} THEN os ELSE SyncStep(p, os, Max(U), g[U \ {Max(U)}])]

LEMMA SyncUnfolds ==
  ASSUME NEW p, NEW os \in Seq(Order)
  PROVE  syncBrackets(os, p) = (CHOOSE g : SyncPasses(g, p, os))[DOMAIN os]
<1>. DEFINE idx == [i \in DOMAIN os |-> i]
            raw(g) == g = [U \in SUBSET DOMAIN idx |->
                        IF U = {} THEN os
                        ELSE IF idx[Max(U)] \in FilledEntries(os)
                             THEN SyncEntry(p, FilledEntries(os) = {idx[Max(U)]}, g[U \ {Max(U)}], idx[Max(U)])
                             ELSE g[U \ {Max(U)}]]
<1>1. syncBrackets(os, p) = (CHOOSE g : raw(g))[DOMAIN idx]
  BY DEF syncBrackets, FoldLeftDomain, FoldLeft, MapThenFoldSet
<1>2. DOMAIN idx = DOMAIN os
  OBVIOUS
<1>3. \A g : raw(g) <=> SyncPasses(g, p, os)
  <2>. TAKE g
  <2>1. \A U \in SUBSET DOMAIN os : U # {} => idx[Max(U)] = Max(U)
    <3>1. DOMAIN os = 1..Len(os) /\ Len(os) \in Nat
      OBVIOUS
    <3>2. \A U \in SUBSET DOMAIN os : U # {} => Max(U) \in DOMAIN os
      BY <3>1, MaxIsIn
    <3>. QED BY <3>2
  <2>2. \A U \in SUBSET DOMAIN os :
          (IF U = {} THEN os
           ELSE IF idx[Max(U)] \in FilledEntries(os)
                THEN SyncEntry(p, FilledEntries(os) = {idx[Max(U)]}, g[U \ {Max(U)}], idx[Max(U)])
                ELSE g[U \ {Max(U)}])
          = (IF U = {} THEN os ELSE SyncStep(p, os, Max(U), g[U \ {Max(U)}]))
    <3>. HIDE DEF idx
    <3>. QED BY <2>1, Zenon DEF SyncStep
  <2>. HIDE DEF idx
  <2>. QED BY <1>2, <2>2, Zenon DEF SyncPasses
<1>. HIDE DEF idx
<1>. QED BY <1>1, <1>2, <1>3

LEMMA SyncStays ==
  ASSUME NEW p, NEW os \in Seq(Order), NEW S, os \in S,
         \A acc \in S, e \in DOMAIN os : SyncStep(p, os, e, acc) \in S,
         NEW R, <<{}, os>> \in R,
         \A U \in SUBSET DOMAIN os, acc \in S :
           U # {} /\ <<U \ {Max(U)}, acc>> \in R => <<U, SyncStep(p, os, Max(U), acc)>> \in R
  PROVE  syncBrackets(os, p) \in S /\ <<DOMAIN os, syncBrackets(os, p)>> \in R
<1>. DEFINE n == Len(os)
            F == [x \in (1..n) \X S |-> SyncStep(p, os, x[1], x[2])]
            h == Fold(F, os, 1..n)
            g == CHOOSE g : SyncPasses(g, p, os)
<1>1. DOMAIN os = 1..n /\ n \in Nat
  OBVIOUS
<1>2. \A i \in 1..n, acc \in S : SyncStep(p, os, i, acc) \in S
  BY <1>1
<1>3. \A i \in 1..n, acc \in S : F[<<i, acc>>] = SyncStep(p, os, i, acc)
  OBVIOUS
<1>. HIDE DEF n, F, g
<1>4. Folds(h, F, os, 1..n)
  BY <1>1, FoldExists
<1>. HIDE DEF h
<1>5. \A U \in SUBSET (1..n) : h[U] \in S
  <2>1. \A i \in 1..n, acc \in S : F[<<i, acc>>] \in S
    BY <1>2, <1>3
  <2>. QED BY <1>1, <1>4, <2>1, FoldStays
<1>6. SyncPasses(h, p, os)
  <2>1. \A U \in SUBSET (1..n) : U # {} => F[<<Max(U), h[U \ {Max(U)}]>>]
                                          = SyncStep(p, os, Max(U), h[U \ {Max(U)}])
    <3>. TAKE U \in SUBSET (1..n)
    <3>. HAVE U # {}
    <3>1. Max(U) \in 1..n
      BY <1>1, MaxIsIn
    <3>2. h[U \ {Max(U)}] \in S
      BY <1>5
    <3>. QED BY <1>3, <3>1, <3>2
  <2>2. h = [U \in SUBSET (1..n) |-> IF U = {} THEN os ELSE F[<<Max(U), h[U \ {Max(U)}]>>]]
    BY <1>4 DEF Folds
  <2>. QED BY <1>1, <2>1, <2>2 DEF SyncPasses
<1>7. SyncPasses(g, p, os)
  BY <1>6 DEF g
<1>8. \A U \in SUBSET (1..n) : g[U] \in S /\ <<U, g[U]>> \in R
  <2>. DEFINE B == {U \in SUBSET (1..n) : ~(g[U] \in S /\ <<U, g[U]>> \in R)}
  <2>. SUFFICES ASSUME B # {} PROVE FALSE
    OBVIOUS
  <2>1. PICK U \in B : \A V \in SUBSET U : V # U => V \notin B
    <3>1. B \in SUBSET (SUBSET (1..n))
      OBVIOUS
    <3>. HIDE DEF B
    <3>. QED BY <1>1, <3>1, LeastSet
  <2>2. g[U] = IF U = {} THEN os ELSE SyncStep(p, os, Max(U), g[U \ {Max(U)}])
    BY <1>1, <1>7 DEF SyncPasses
  <2>3. U # {}
    BY <2>2
  <2>4. Max(U) \in U /\ Max(U) \in 1..n
    BY <1>1, <2>3, MaxIsIn
  <2>5. g[U \ {Max(U)}] \in S /\ <<U \ {Max(U)}, g[U \ {Max(U)}]>> \in R
    BY <2>1, <2>4
  <2>6. g[U] \in S
    BY <1>2, <2>2, <2>3, <2>4, <2>5
  <2>7. <<U, g[U]>> \in R
    BY <1>1, <2>2, <2>3, <2>5
  <2>. QED BY <2>6, <2>7
<1>. QED BY <1>1, <1>8, SyncUnfolds DEF g

\* Every entry that filled has its bracket, as long as there is a position.
Bracketed(os, p) == p # 0 => \A e \in FilledEntries(os) : Children(os, e) # {}

LEMMA ChildrenStay ==
  ASSUME NEW os \in Seq(Order), NEW r \in Seq(Order), Later(os, r), NEW e, Children(os, e) # {}
  PROVE  Children(r, e) # {}
<1>1. DOMAIN os \subseteq DOMAIN r
  BY DEF Later
<1>. QED BY <1>1 DEF Children, Later, SameOrder

LEMMA BracketsSync ==
  ASSUME NEW os \in Seq(Order), NEW p \in Int
  PROVE  /\ syncBrackets(os, p) \in Seq(Order)
         /\ Later(os, syncBrackets(os, p))
         /\ Bracketed(syncBrackets(os, p), p)
         /\ Bracketed(os, p) => Len(syncBrackets(os, p)) = Len(os)
<1>. DEFINE S == {r \in Seq(Order) : Later(os, r) /\ (Bracketed(os, p) => Len(r) = Len(os))}
            R == {x \in (SUBSET DOMAIN os) \X S :
                    p # 0 => \A e \in x[1] \cap FilledEntries(os) : Children(x[2], e) # {}}
            r == syncBrackets(os, p)
<1>1. os \in S
  BY DEF Later, SameOrder
<1>2. \A acc \in S, e \in DOMAIN os : SyncStep(p, os, e, acc) \in S
  <2>. TAKE acc \in S, e \in DOMAIN os
  <2>1. CASE e \notin FilledEntries(os)
    BY <2>1 DEF SyncStep
  <2>2. CASE e \in FilledEntries(os)
    <3>. DEFINE t == SyncStep(p, os, e, acc)
                sole == FilledEntries(os) = {e}
    <3>1. t = SyncEntry(p, sole, acc, e)
      BY <2>2 DEF SyncStep
    <3>2. e \in DOMAIN acc
      BY DEF Later
    <3>. HIDE DEF t, sole
    <3>3. /\ t \in Seq(Order) /\ Later(acc, t)
          /\ p = 0 \/ Children(acc, e) # {} => Len(t) = Len(acc)
      BY <3>1, <3>2, EntrySyncs
    <3>4. Later(os, t)
      BY <3>3, LaterTwice
    <3>5. Bracketed(os, p) => Len(t) = Len(os)
      BY <2>2, <3>3, ChildrenStay DEF Bracketed
    <3>. QED BY <3>3, <3>4, <3>5 DEF t
  <2>. QED BY <2>1, <2>2
<1>3. <<{}, os>> \in R
  BY <1>1
<1>4. \A U \in SUBSET DOMAIN os, acc \in S :
        U # {} /\ <<U \ {Max(U)}, acc>> \in R => <<U, SyncStep(p, os, Max(U), acc)>> \in R
  <2>. TAKE U \in SUBSET DOMAIN os, acc \in S
  <2>. HAVE U # {} /\ <<U \ {Max(U)}, acc>> \in R
  <2>. DEFINE t == SyncStep(p, os, Max(U), acc)
  <2>1. Max(U) \in U
    <3>1. DOMAIN os = 1..Len(os) /\ Len(os) \in Nat
      OBVIOUS
    <3>. QED BY <3>1, MaxIsIn
  <2>2. t \in S
    BY <1>2, <2>1
  <2>3. ASSUME p # 0, NEW e \in U \cap FilledEntries(os) PROVE Children(t, e) # {}
    <3>0. acc \in Seq(Order) /\ Later(os, acc) /\ t \in Seq(Order)
      BY <2>2
    <3>1. CASE Max(U) \in FilledEntries(os)
      <4>. DEFINE sole == FilledEntries(os) = {Max(U)}
      <4>1. t = SyncEntry(p, sole, acc, Max(U))
        BY <3>1 DEF SyncStep
      <4>2. Max(U) \in DOMAIN acc
        BY <2>1, <3>0 DEF Later
      <4>. HIDE DEF t, S, sole
      <4>3. Later(acc, t) /\ Children(t, Max(U)) # {}
        BY <2>3, <3>0, <4>1, <4>2, EntrySyncs
      <4>4. CASE e = Max(U)
        BY <4>3, <4>4
      <4>5. CASE e # Max(U)
        <5>1. Children(acc, e) # {}
          BY <2>3, <4>5
        <5>. QED BY <3>0, <4>3, <5>1, ChildrenStay
      <4>. QED BY <4>4, <4>5
    <3>2. CASE Max(U) \notin FilledEntries(os)
      BY <2>3, <3>2 DEF SyncStep
    <3>. QED BY <3>1, <3>2
  <2>. HIDE DEF t
  <2>. QED BY <2>2, <2>3 DEF t
<1>. HIDE DEF r
<1>5. r \in S /\ <<DOMAIN os, r>> \in R
  <2>. HIDE DEF S, R
  <2>. QED BY <1>1, <1>2, <1>3, <1>4, SyncStays DEF r
<1>6. Bracketed(r, p)
  <2>. SUFFICES ASSUME p # 0, NEW e \in FilledEntries(r) PROVE Children(r, e) # {}
    BY DEF Bracketed
  <2>1. e \in FilledEntries(os)
    BY <1>5 DEF FilledEntries, Later, SameOrder
  <2>2. e \in DOMAIN os
    BY <2>1 DEF FilledEntries
  <2>. QED BY <1>5, <2>1, <2>2
<1>. QED BY <1>5, <1>6 DEF r

\* What syncProtection makes of the order i.
Covering(os, p, i) ==
  IF Protective(os[i]) /\ os[i].parent = Nobody /\ isOpen(os[i])
  THEN Resized(os[i], IF Sign(p) = -os[i].side THEN os[i].filled + Magnitude(p) ELSE os[i].filled)
  ELSE os[i]

LEMMA ProtectionSyncs ==
  ASSUME NEW os \in Seq(Order), NEW p \in Int
  PROVE  /\ syncProtection(os, p) \in Seq(Order)
         /\ Len(syncProtection(os, p)) = Len(os)
         /\ Later(os, syncProtection(os, p))
         /\ \A i \in DOMAIN os : syncProtection(os, p)[i] = Covering(os, p, i)
<1>. DEFINE f == [i \in DOMAIN os |-> Covering(os, p, i)]
            target(i) == IF Sign(p) = -os[i].side THEN os[i].filled + Magnitude(p) ELSE os[i].filled
<1>1. syncProtection(os, p) = <<>> \o f
  BY DEF syncProtection, Every, Covering
<1>2. \A i \in DOMAIN os : /\ f[i] \in Order /\ SameOrder(os[i], f[i])
                           /\ f[i].filled = os[i].filled
                           /\ isOpen(f[i]) => isOpen(os[i])
  <2>. TAKE i \in DOMAIN os
  <2>1. os[i] \in Order
    OBVIOUS
  <2>2. target(i) \in Int
    <3>1. os[i].filled \in Int
      BY <2>1, OrderFields
    <3>. QED BY <3>1 DEF Magnitude
  <2>. HIDE DEF target
  <2>3. f[i] = Resized(os[i], target(i)) \/ f[i] = os[i]
    BY Zenon DEF Covering, target
  <2>. HIDE DEF f
  <2>4. CASE f[i] = Resized(os[i], target(i))
    <3>1. PICK t \in Int : f[i] = Resized(os[i], t)
      BY <2>2, <2>4
    <3>. QED BY <2>1, <3>1, ResizedIs
  <2>5. CASE f[i] = os[i]
    BY <2>1, <2>5 DEF SameOrder
  <2>. QED BY <2>3, <2>4, <2>5
<1>3. f \in [DOMAIN os -> Order]
  BY <1>2
<1>4. /\ <<>> \o f = f /\ f \in Seq(Order) /\ Len(f) = Len(os) /\ DOMAIN f = DOMAIN os
  BY <1>3, EveryOfThem
<1>5. \A i \in DOMAIN os : f[i] = Covering(os, p, i)
  OBVIOUS
<1>. HIDE DEF f
<1>6. Later(os, f)
  BY <1>2, <1>4 DEF Later
<1>. QED BY <1>1, <1>4, <1>5, <1>6

LEMMA BracketedStays ==
  ASSUME NEW os \in Seq(Order), NEW r \in Seq(Order), NEW p, Later(os, r), Bracketed(os, p)
  PROVE  Bracketed(r, p)
<1>. SUFFICES ASSUME p # 0, NEW e \in FilledEntries(r) PROVE Children(r, e) # {}
  BY DEF Bracketed
<1>1. e \in FilledEntries(os)
  BY DEF FilledEntries, Later, SameOrder
<1>. QED BY <1>1, ChildrenStay DEF Bracketed

LEMMA SyncedIs ==
  ASSUME NEW s \in State
  PROVE  /\ Synced(s) \in State /\ Synced(s).pos = s.pos
         /\ Later(s.orders, Synced(s).orders)
         /\ Bracketed(Synced(s).orders, s.pos)
         /\ Bracketed(s.orders, s.pos) => Len(Synced(s).orders) = Len(s.orders)
<1>. DEFINE b == syncBrackets(s.orders, s.pos)
            r == syncProtection(b, s.pos)
<1>1. s.orders \in Seq(Order) /\ s.pos \in Int
  BY DEF State
<1>2. Synced(s) = [s EXCEPT !.orders = r]
  BY DEF Synced
<1>3. /\ b \in Seq(Order) /\ Later(s.orders, b) /\ Bracketed(b, s.pos)
      /\ Bracketed(s.orders, s.pos) => Len(b) = Len(s.orders)
  BY <1>1, BracketsSync
<1>. HIDE DEF b
<1>4. r \in Seq(Order) /\ Len(r) = Len(b) /\ Later(b, r)
  BY <1>1, <1>3, ProtectionSyncs
<1>. HIDE DEF r
<1>5. Later(s.orders, r) /\ Bracketed(r, s.pos)
  BY <1>1, <1>3, <1>4, LaterTwice, BracketedStays
<1>6. Synced(s) = [orders |-> r, pos |-> s.pos]
  BY <1>2 DEF State
<1>7. Synced(s) \in State /\ Synced(s).orders = r /\ Synced(s).pos = s.pos
  BY <1>1, <1>4, <1>6 DEF State
<1>. QED BY <1>3, <1>4, <1>5, <1>7

-------------------------------------------------------------------------------
(* Enforcement *)

LEMMA AllAreCanceled ==
  ASSUME NEW os \in Seq(Order)
  PROVE  /\ cancelAll(os) \in Seq(Order) /\ Len(cancelAll(os)) = Len(os)
         /\ Later(os, cancelAll(os))
         /\ \A i \in DOMAIN os : ~isOpen(cancelAll(os)[i])
<1>. DEFINE f == [i \in DOMAIN os |-> IF isOpen(os[i]) THEN Canceled(os[i]) ELSE os[i]]
<1>1. cancelAll(os) = <<>> \o f
  BY DEF cancelAll, Every
<1>2. \A i \in DOMAIN os : /\ f[i] \in Order /\ SameOrder(os[i], f[i])
                           /\ f[i].filled = os[i].filled /\ ~isOpen(f[i])
  <2>. TAKE i \in DOMAIN os
  <2>1. os[i] \in Order
    OBVIOUS
  <2>2. CASE isOpen(os[i])
    BY <2>1, <2>2, CanceledIs
  <2>3. CASE ~isOpen(os[i])
    BY <2>1, <2>3 DEF SameOrder
  <2>. QED BY <2>2, <2>3
<1>3. f \in [DOMAIN os -> Order]
  BY <1>2
<1>4. /\ <<>> \o f = f /\ f \in Seq(Order) /\ Len(f) = Len(os) /\ DOMAIN f = DOMAIN os
  BY <1>3, EveryOfThem
<1>. HIDE DEF f
<1>5. Later(os, f)
  BY <1>2, <1>4 DEF Later
<1>. QED BY <1>1, <1>2, <1>4, <1>5

\* The tables of FailedOnlyLiquidates: orders of liquidations are what
\* closingOrder makes them; nothing else is open; nothing else fills.
LiquidationsClose(os) ==
  \A i \in DOMAIN os : os[i].tag = "liquidate" => os[i].kind = "MARKET" /\ os[i].role = "STANDALONE"

OnlyLiquidation(os) == \A i \in DOMAIN os : isOpen(os[i]) => os[i].tag = "liquidate"

Quiet(os, r) ==
  /\ Len(r) >= Len(os)
  /\ \A j \in DOMAIN os : /\ r[j].tag = os[j].tag
                          /\ r[j].tag # "liquidate" => r[j].filled = os[j].filled
  /\ \A j \in DOMAIN r \ DOMAIN os : r[j].tag # "liquidate" => r[j].filled = 0

LEMMA QuietTwice ==
  ASSUME NEW os \in Seq(Order), NEW r \in Seq(Order), NEW t \in Seq(Order), Quiet(os, r), Quiet(r, t)
  PROVE  Quiet(os, t)
<1>1. DOMAIN os \subseteq DOMAIN r /\ DOMAIN r \subseteq DOMAIN t /\ Len(t) >= Len(os)
  BY DEF Quiet
<1>2. \A j \in DOMAIN os : /\ t[j].tag = os[j].tag
                           /\ t[j].tag # "liquidate" => t[j].filled = os[j].filled
  BY <1>1 DEF Quiet
<1>3. \A j \in DOMAIN t \ DOMAIN os : t[j].tag # "liquidate" => t[j].filled = 0
  BY <1>1 DEF Quiet
<1>. QED BY <1>1, <1>2, <1>3 DEF Quiet

LEMMA LaterIsQuiet ==
  ASSUME NEW os \in Seq(Order), NEW r \in Seq(Order), Later(os, r)
  PROVE  /\ Quiet(os, r)
         /\ LiquidationsClose(os) => LiquidationsClose(r)
         /\ OnlyLiquidation(os) /\ Len(r) = Len(os) => OnlyLiquidation(r)
<1>1. Quiet(os, r)
  BY DEF Later, Quiet, SameOrder
<1>2. LiquidationsClose(os) => LiquidationsClose(r)
  BY DEF Later, LiquidationsClose, SameOrder
<1>3. OnlyLiquidation(os) /\ Len(r) = Len(os) => OnlyLiquidation(r)
  <2>. HAVE OnlyLiquidation(os) /\ Len(r) = Len(os)
  <2>1. DOMAIN r = DOMAIN os
    OBVIOUS
  <2>. QED BY <2>1 DEF Later, OnlyLiquidation, SameOrder
<1>. QED BY <1>1, <1>2, <1>3

LEMMA MatchesIsQuiet ==
  ASSUME NEW os \in Seq(Order), NEW r \in Seq(Order), Matches(os, r),
         \A i \in DOMAIN os : isOpen(os[i]) /\ os[i].eligible => os[i].tag = "liquidate"
  PROVE  Quiet(os, r)
<1>1. Len(r) = Len(os) /\ DOMAIN r = DOMAIN os
  BY DEF Matches
<1>2. \A j \in DOMAIN os : /\ r[j].tag = os[j].tag
                           /\ r[j].tag # "liquidate" => r[j].filled = os[j].filled
  BY DEF Matches, SameOrder
<1>. QED BY <1>1, <1>2 DEF Quiet

LEMMA MatchesKeeps ==
  ASSUME NEW os \in Seq(Order), NEW r \in Seq(Order), Matches(os, r)
  PROVE  /\ LiquidationsClose(os) => LiquidationsClose(r)
         /\ OnlyLiquidation(os) => OnlyLiquidation(r)
BY DEF Matches, LiquidationsClose, OnlyLiquidation, SameOrder

LEMMA QuoteIsObservation == ASSUME NEW price \in Int PROVE Quote(price) \in Observation
BY DEF Quote, Observation

LEMMA ClosingOrderIs ==
  ASSUME NEW p \in Int, p # 0, NEW qty \in Int, NEW tag \in Tags
  PROVE  Working(closingOrder(tag, p, qty), "STANDALONE", tag, -Sign(p), "MARKET", 0, qty, Nobody, Nobody)
<1>1. -Sign(p) \in Sides
  <2>1. Sign(p) = 1 \/ Sign(p) = -1
    BY DEF Sign
  <2>. QED BY <2>1 DEF Sides
<1>2. "STANDALONE" \in Roles /\ "MARKET" \in Kinds /\ 0 \in Int /\ Nobody \in Refs
  BY DEF Roles, Kinds, Refs
<1>. DEFINE side == -Sign(p)
<1>3. closingOrder(tag, p, qty) = createOrder("STANDALONE", tag, side, "MARKET", 0, qty, Nobody, Nobody)
  BY DEF closingOrder
<1>4. side \in Sides
  BY <1>1
<1>. HIDE DEF side
<1>5. Working(closingOrder(tag, p, qty), "STANDALONE", tag, side, "MARKET", 0, qty, Nobody, Nobody)
  BY <1>2, <1>3, <1>4, CreatedIs
<1>. QED BY <1>5 DEF side

(* The table a liquidation matches: everything canceled, and one order to  *)
(* close what is held.                                                     *)
LEMMA LiquidationTable ==
  ASSUME NEW s \in State
  PROVE  /\ LiquidationOrders(s) \in Seq(Order)
         /\ Len(LiquidationOrders(s)) >= Len(s.orders)
         /\ \A i \in DOMAIN s.orders :
              /\ SameOrder(s.orders[i], LiquidationOrders(s)[i])
              /\ LiquidationOrders(s)[i].filled = s.orders[i].filled
              /\ ~isOpen(LiquidationOrders(s)[i])
         /\ \A i \in DOMAIN LiquidationOrders(s) \ DOMAIN s.orders :
              LET o == LiquidationOrders(s)[i] IN
              /\ o.tag = "liquidate" /\ o.kind = "MARKET" /\ o.role = "STANDALONE" /\ o.filled = 0
              /\ i = Len(s.orders) + 1 /\ o.parent = Nobody
              /\ o.side = -Sign(s.pos) /\ o.qty = Magnitude(s.pos)
         /\ s.pos = 0 => Len(LiquidationOrders(s)) = Len(s.orders)
<1>. DEFINE c == cancelAll(s.orders)
            qty == Magnitude(s.pos)
            o == closingOrder("liquidate", s.pos, qty)
            L == LiquidationOrders(s)
<1>1. s.orders \in Seq(Order) /\ s.pos \in Int
  BY DEF State
<1>2. /\ c \in Seq(Order) /\ Len(c) = Len(s.orders) /\ Later(s.orders, c)
      /\ \A i \in DOMAIN s.orders : ~isOpen(c[i])
  BY <1>1, AllAreCanceled
<1>3. CASE s.pos = 0
  <2>1. L = c
    BY <1>3 DEF LiquidationOrders
  <2>. HIDE DEF c, L
  <2>2. DOMAIN c = DOMAIN s.orders
    BY <1>1, <1>2
  <2>. QED BY <1>1, <1>2, <2>1, <2>2 DEF Later, L
<1>4. CASE s.pos # 0
  <2>1. L = Append(c, o)
    BY <1>4 DEF LiquidationOrders
  <2>2. qty \in Int /\ "liquidate" \in Tags
    BY <1>1 DEF Magnitude, Tags
  <2>. HIDE DEF qty
  <2>3. Working(o, "STANDALONE", "liquidate", -Sign(s.pos), "MARKET", 0, qty, Nobody, Nobody)
    BY <1>1, <1>4, <2>2, ClosingOrderIs
  <2>4. /\ o \in Order /\ o.tag = "liquidate" /\ o.kind = "MARKET" /\ o.role = "STANDALONE" /\ o.filled = 0
        /\ o.parent = Nobody /\ o.side = -Sign(s.pos) /\ o.qty = Magnitude(s.pos)
    BY <2>3 DEF Working, qty
  <2>. HIDE DEF c, o, L
  <2>5. /\ L \in Seq(Order) /\ Len(L) = Len(s.orders) + 1 /\ L[Len(s.orders) + 1] = o
        /\ \A i \in DOMAIN s.orders : L[i] = c[i]
    BY <1>1, <1>2, <2>1, <2>4
  <2>6. DOMAIN L \ DOMAIN s.orders = {Len(s.orders) + 1}
    BY <1>1, <2>5
  <2>. QED BY <1>1, <1>2, <1>4, <2>4, <2>5, <2>6 DEF Later, L
<1>. QED BY <1>1, <1>3, <1>4

LEMMA EnforceLiquidates ==
  ASSUME NEW s \in State, NEW price \in Int,
         LiquidationsClose(s.orders), Bracketed(s.orders, s.pos),
         NEW r, r = enforce(s, "FAILED", price)
  PROVE  /\ r \in State
         /\ Quiet(s.orders, r.orders)
         /\ LiquidationsClose(r.orders) /\ OnlyLiquidation(r.orders)
         /\ Bracketed(r.orders, r.pos)
<1>1. s.orders \in Seq(Order) /\ s.pos \in Int
  BY DEF State
<1>2. CASE ~hasExposure(s)
  <2>1. r = s
    BY <1>2 DEF enforce
  <2>2. OnlyLiquidation(s.orders)
    BY <1>2 DEF hasExposure, OpenIn, OnlyLiquidation
  <2>3. Quiet(s.orders, s.orders)
    BY <1>1 DEF Quiet
  <2>. QED BY <2>1, <2>2, <2>3
<1>3. CASE hasExposure(s)
  <2>. DEFINE L == LiquidationOrders(s)
              M == matchOrders(Quote(price), L, s.pos)
  <2>1. r = Synced(M)
    BY <1>3 DEF enforce
  <2>2. L \in Seq(Order) /\ Len(L) >= Len(s.orders) /\ (s.pos = 0 => Len(L) = Len(s.orders))
    BY LiquidationTable
  <2>3. \A i \in DOMAIN s.orders : /\ SameOrder(s.orders[i], L[i])
                                   /\ L[i].filled = s.orders[i].filled
                                   /\ ~isOpen(L[i])
    BY LiquidationTable
  <2>4. \A i \in DOMAIN L \ DOMAIN s.orders :
          L[i].tag = "liquidate" /\ L[i].kind = "MARKET" /\ L[i].role = "STANDALONE" /\ L[i].filled = 0
    BY LiquidationTable
  <2>. HIDE DEF L
  <2>5. /\ M \in State /\ Matches(L, M.orders) /\ (OpenIn(L) = {} => M.pos = s.pos)
    BY <1>1, <2>2, QuoteIsObservation, OrdersMatch
  <2>. HIDE DEF M
  <2>6. /\ LiquidationsClose(L) /\ OnlyLiquidation(L) /\ Quiet(s.orders, L)
    <3>1. LiquidationsClose(L)
      BY <2>3, <2>4 DEF LiquidationsClose, SameOrder
    <3>2. OnlyLiquidation(L)
      BY <2>3, <2>4 DEF OnlyLiquidation
    <3>3. Quiet(s.orders, L)
      BY <2>2, <2>3, <2>4 DEF Quiet, SameOrder
    <3>. QED BY <3>1, <3>2, <3>3
  <2>7. M.orders \in Seq(Order) /\ M.pos \in Int
    BY <2>5 DEF State
  <2>8. /\ LiquidationsClose(M.orders) /\ OnlyLiquidation(M.orders) /\ Quiet(L, M.orders)
    <3>1. \A i \in DOMAIN L : isOpen(L[i]) /\ L[i].eligible => L[i].tag = "liquidate"
      BY <2>6 DEF OnlyLiquidation
    <3>. QED BY <2>2, <2>5, <2>6, <2>7, <3>1, MatchesKeeps, MatchesIsQuiet
  <2>9. Bracketed(M.orders, M.pos)
    <3>. SUFFICES ASSUME M.pos # 0, NEW e \in FilledEntries(M.orders)
                  PROVE  Children(M.orders, e) # {}
      BY DEF Bracketed
    <3>1. s.pos # 0
      <4>. SUFFICES ASSUME s.pos = 0 PROVE FALSE
        OBVIOUS
      <4>1. DOMAIN L = DOMAIN s.orders
        BY <1>1, <2>2
      <4>2. OpenIn(L) = {}
        BY <2>3, <4>1 DEF OpenIn
      <4>. QED BY <2>5, <4>2
    <3>2. e \in DOMAIN M.orders /\ M.orders[e].role = "ENTRY" /\ M.orders[e].filled > 0
      BY DEF FilledEntries
    <3>3. e \in DOMAIN L /\ L[e].role = "ENTRY"
      BY <2>5, <3>2 DEF Matches, SameOrder
    <3>4. e \in DOMAIN s.orders
      BY <2>4, <3>3
    <3>5. M.orders[e].filled = L[e].filled
      BY <2>3, <2>5, <3>3, <3>4 DEF Matches
    <3>6. e \in FilledEntries(s.orders)
      BY <2>3, <3>2, <3>3, <3>4, <3>5 DEF FilledEntries, SameOrder
    <3>7. PICK c \in DOMAIN s.orders : s.orders[c].parent = e
      BY <3>1, <3>6 DEF Bracketed, Children
    <3>8. c \in DOMAIN L /\ L[c].parent = e
      BY <1>1, <2>2, <2>3, <3>7 DEF SameOrder
    <3>9. c \in DOMAIN M.orders /\ M.orders[c].parent = e
      BY <2>5, <3>8 DEF Matches, SameOrder
    <3>. QED BY <3>9 DEF Children
  <2>10. /\ r \in State /\ r.pos = M.pos /\ Later(M.orders, r.orders)
         /\ Bracketed(r.orders, M.pos) /\ Len(r.orders) = Len(M.orders)
    BY <2>1, <2>5, <2>9, SyncedIs
  <2>11. r.orders \in Seq(Order)
    BY <2>10 DEF State
  <2>12. /\ Quiet(M.orders, r.orders) /\ LiquidationsClose(r.orders) /\ OnlyLiquidation(r.orders)
    BY <2>7, <2>8, <2>10, <2>11, LaterIsQuiet
  <2>13. Quiet(s.orders, r.orders)
    <3>1. Quiet(s.orders, M.orders)
      BY <1>1, <2>2, <2>6, <2>7, <2>8, QuietTwice
    <3>. QED BY <1>1, <2>7, <2>11, <2>12, <3>1, QuietTwice
  <2>. QED BY <2>10, <2>12, <2>13
<1>. QED BY <1>2, <1>3

(* What is committed is the table, its working orders marked as older than *)
(* the bar that closed.                                                    *)
LEMMA CommitIs ==
  ASSUME NEW m \in Observation, NEW s \in State, NEW st, Commit(m, s, st)
  PROVE  /\ orders' \in Seq(Order) /\ Len(orders') = Len(s.orders)
         /\ pos' = s.pos /\ status' = st
         /\ Later(s.orders, orders')
         /\ \A i \in DOMAIN s.orders : /\ orders'[i].qty = s.orders[i].qty
                                       /\ orders'[i].status = s.orders[i].status
<1>1. s.orders \in Seq(Order) /\ pos' = s.pos /\ status' = st
  BY DEF State, Commit
<1>2. CASE m.closes
  <2>. DEFINE os == s.orders
              f == [i \in DOMAIN os |-> [os[i] EXCEPT !.rested = isOpen(os[i])]]
  <2>1. orders' = <<>> \o f
    BY <1>2 DEF Commit, Every
  <2>2. \A i \in DOMAIN os :
          /\ f[i] \in Order /\ SameOrder(os[i], f[i]) /\ f[i].filled = os[i].filled
          /\ f[i].qty = os[i].qty /\ f[i].status = os[i].status
    <3>. TAKE i \in DOMAIN os
    <3>1. os[i] \in Order
      BY <1>1
    <3>2. isOpen(os[i]) \in BOOLEAN
      BY DEF isOpen
    <3>3. PICK b \in BOOLEAN : f[i] = [os[i] EXCEPT !.rested = b]
      BY <3>2, Zenon
    <3>. QED BY <3>1, <3>3 DEF Order, SameOrder
  <2>3. f \in [DOMAIN os -> Order]
    BY <2>2
  <2>4. /\ <<>> \o f = f /\ f \in Seq(Order) /\ Len(f) = Len(os) /\ DOMAIN f = DOMAIN os
    BY <1>1, <2>3, EveryOfThem
  <2>. HIDE DEF f
  <2>5. Later(os, f)
    BY <2>2, <2>4 DEF Later, isOpen
  <2>. QED BY <1>1, <2>1, <2>2, <2>4, <2>5
<1>3. CASE ~m.closes
  <2>1. orders' = s.orders
    BY <1>3 DEF Commit
  <2>2. Later(s.orders, s.orders)
    BY <1>1 DEF Later, SameOrder
  <2>. QED BY <1>1, <2>1, <2>2
<1>. QED BY <1>2, <1>3

LEMMA MatchedIs ==
  ASSUME NEW m \in Observation, NEW os \in Seq(Order), pos \in Int
  PROVE  /\ Matched(m, os) \in State
         /\ Matches(os, Matched(m, os).orders)
         /\ OpenIn(os) = {} => Matched(m, os) = [orders |-> os, pos |-> pos]
<1>1. CASE OpenIn(os) = {}
  <2>1. Matched(m, os) = [orders |-> os, pos |-> pos]
    BY <1>1 DEF Matched
  <2>. QED BY <1>1, <2>1 DEF State, Matches, SameOrder
<1>2. CASE OpenIn(os) # {}
  <2>1. Matched(m, os) = matchOrders(m, os, pos)
    BY <1>2 DEF Matched
  <2>. QED BY <1>2, <2>1, OrdersMatch
<1>. QED BY <1>1, <1>2

LEMMA ReconciledIs ==
  ASSUME NEW m \in Observation, NEW os \in Seq(Order), pos \in Int,
         NEW s, s = Reconciled(os, Matched(m, os))
  PROVE  /\ s \in State /\ s.pos = Matched(m, os).pos
         /\ Later(Matched(m, os).orders, s.orders)
         /\ OpenIn(os) # {} => Bracketed(s.orders, s.pos)
<1>. DEFINE M == Matched(m, os)
<1>1. M \in State
  BY MatchedIs
<1>. HIDE DEF M
<1>2. CASE OpenIn(os) = {}
  <2>1. s = M
    BY <1>2 DEF Reconciled, M
  <2>. QED BY <1>1, <1>2, <2>1 DEF State, Later, SameOrder, M
<1>3. CASE OpenIn(os) # {}
  <2>1. s = Synced(M)
    BY <1>3 DEF Reconciled, M
  <2>2. Synced(M) \in State /\ Synced(M).pos = M.pos /\ Later(M.orders, Synced(M).orders)
        /\ Bracketed(Synced(M).orders, M.pos)
    BY <1>1, SyncedIs
  <2>. QED BY <2>1, <2>2 DEF M
<1>. QED BY <1>2, <1>3

-------------------------------------------------------------------------------
(* A failed account *)

Statuses == {"ACTIVE", "FAILED"}

EngineTypes ==
  orders \in Seq(Order) /\ pos \in Int /\ last \in Levels /\ status \in Statuses

\* With FailedHoldsOnlyLiquidation, the invariant behind FailedOnlyLiquidates.
FailedHoldsOnlyLiquidation == status = "FAILED" => OnlyLiquidation(orders)

FailedInv ==
  /\ EngineTypes
  /\ LiquidationsClose(orders)
  /\ Bracketed(orders, pos)
  /\ FailedHoldsOnlyLiquidation

(* A pass over a table with these properties leaves one with them; in a    *)
(* failed account, whose table has nothing else that may fill, only the    *)
(* liquidation trades.                                                     *)
LEMMA PassKeepsFailed ==
  ASSUME NEW m \in Observation, NEW os \in Seq(Order), pos \in Int, status \in Statuses,
         LiquidationsClose(os), Bracketed(os, pos), matchLocked(m, os)
  PROVE  /\ orders' \in Seq(Order) /\ pos' \in Int /\ status' \in Statuses
         /\ LiquidationsClose(orders') /\ Bracketed(orders', pos')
         /\ status' = "FAILED" => OnlyLiquidation(orders')
         /\ status = "FAILED"
              /\ (\A i \in DOMAIN os : isOpen(os[i]) /\ os[i].eligible => os[i].tag = "liquidate")
            => Quiet(os, orders')
<1>. DEFINE M == Matched(m, os)
            c == Reconciled(os, M)
<1>0. PICK st \in Statuses :
        /\ status = "FAILED" => st = "FAILED"
        /\ Commit(m, IF OpenIn(os) = {} /\ pos = 0 THEN M ELSE enforce(c, st, m.last), st)
  <2>1. PICK st \in IF MayBreach(M.pos) THEN {status, "FAILED"} ELSE {status} :
          Commit(m, IF OpenIn(os) = {} /\ pos = 0 THEN M ELSE enforce(c, st, m.last), st)
    BY Zenon DEF matchLocked
  <2>2. st \in {status, "FAILED"}
    BY <2>1
  <2>. HIDE DEF M, c
  <2>. QED BY <2>1, <2>2 DEF Statuses
<1>1. PICK s : /\ status = "FAILED" => st = "FAILED"
               /\ s = IF OpenIn(os) = {} /\ pos = 0 THEN M ELSE enforce(c, st, m.last)
               /\ Commit(m, s, st)
  <2>. HIDE DEF M, c
  <2>. QED BY <1>0
<1>2. /\ M \in State /\ Matches(os, M.orders)
      /\ OpenIn(os) = {} => M = [orders |-> os, pos |-> pos]
  BY MatchedIs
<1>3. /\ c \in State /\ c.pos = M.pos /\ Later(M.orders, c.orders)
      /\ OpenIn(os) # {} => Bracketed(c.orders, c.pos)
  BY ReconciledIs
<1>4. OpenIn(os) = {} => c = M
  BY DEF Reconciled
<1>. HIDE DEF M, c
<1>5. /\ M.orders \in Seq(Order) /\ M.pos \in Int /\ c.orders \in Seq(Order) /\ c.pos \in Int
  BY <1>2, <1>3 DEF State
<1>6. /\ LiquidationsClose(M.orders) /\ LiquidationsClose(c.orders)
  BY <1>2, <1>3, <1>5, MatchesKeeps, LaterIsQuiet
<1>7. Bracketed(c.orders, c.pos)
  BY <1>2, <1>3, <1>4
<1>8. (\A i \in DOMAIN os : isOpen(os[i]) /\ os[i].eligible => os[i].tag = "liquidate")
      => Quiet(os, M.orders) /\ Quiet(os, c.orders)
  <2>. HAVE \A i \in DOMAIN os : isOpen(os[i]) /\ os[i].eligible => os[i].tag = "liquidate"
  <2>1. Quiet(os, M.orders)
    BY <1>2, <1>5, MatchesIsQuiet
  <2>2. Quiet(M.orders, c.orders)
    BY <1>3, <1>5, LaterIsQuiet
  <2>. QED BY <1>5, <2>1, <2>2, QuietTwice
<1>9. /\ s \in State /\ LiquidationsClose(s.orders) /\ Bracketed(s.orders, s.pos)
      /\ st = "FAILED" => OnlyLiquidation(s.orders)
      /\ (s = M \/ s = c \/ Quiet(c.orders, s.orders))
  <2>1. CASE OpenIn(os) = {} /\ pos = 0
    <3>1. s = M /\ s = c
      BY <1>1, <1>4, <2>1
    <3>2. OnlyLiquidation(os)
      BY <2>1 DEF OpenIn, OnlyLiquidation
    <3>. QED BY <1>2, <1>6, <1>7, <2>1, <3>1, <3>2
  <2>2. CASE ~(OpenIn(os) = {} /\ pos = 0) /\ st = "FAILED"
    <3>1. s = enforce(c, "FAILED", m.last)
      BY <1>1, <2>2
    <3>2. m.last \in Int
      BY DEF Observation
    <3>. QED BY <1>3, <1>6, <1>7, <3>1, <3>2, EnforceLiquidates
  <2>3. CASE ~(OpenIn(os) = {} /\ pos = 0) /\ st # "FAILED"
    <3>1. s = c
      BY <1>1, <2>3 DEF enforce, Statuses
    <3>. QED BY <1>3, <1>6, <1>7, <2>3, <3>1
  <2>. QED BY <2>1, <2>2, <2>3
<1>10. /\ orders' \in Seq(Order) /\ Len(orders') = Len(s.orders) /\ pos' = s.pos /\ status' = st
       /\ Later(s.orders, orders')
  BY <1>1, <1>9, CommitIs
<1>11. s.orders \in Seq(Order) /\ s.pos \in Int
  BY <1>9 DEF State
<1>12. /\ Quiet(s.orders, orders') /\ LiquidationsClose(orders')
       /\ OnlyLiquidation(s.orders) => OnlyLiquidation(orders')
  BY <1>9, <1>10, <1>11, LaterIsQuiet
<1>13. Bracketed(orders', pos')
  BY <1>9, <1>10, <1>11, BracketedStays
<1>14. ASSUME \A i \in DOMAIN os : isOpen(os[i]) /\ os[i].eligible => os[i].tag = "liquidate"
       PROVE  Quiet(os, orders')
  <2>1. Quiet(os, s.orders)
    BY <1>5, <1>8, <1>9, <1>11, <1>14, QuietTwice
  <2>. QED BY <1>10, <1>11, <1>12, <2>1, QuietTwice
<1>. QED BY <1>1, <1>9, <1>10, <1>11, <1>12, <1>13, <1>14

-------------------------------------------------------------------------------
(* What the trader's requests make of the table *)

Grown(os, r) ==
  /\ Len(r) >= Len(os)
  /\ \A j \in DOMAIN os : /\ r[j].role = os[j].role /\ r[j].tag = os[j].tag /\ r[j].kind = os[j].kind
                          /\ r[j].parent = os[j].parent /\ r[j].filled = os[j].filled
  /\ \A j \in DOMAIN r \ DOMAIN os : r[j].filled = 0 /\ r[j].tag # "liquidate"

LEMMA GrownKeeps ==
  ASSUME NEW os \in Seq(Order), NEW r \in Seq(Order), Grown(os, r)
  PROVE  /\ LiquidationsClose(os) => LiquidationsClose(r)
         /\ \A p : Bracketed(os, p) => Bracketed(r, p)
         /\ Quiet(os, r)
<1>1. LiquidationsClose(os) => LiquidationsClose(r)
  BY DEF Grown, LiquidationsClose
<1>2. Quiet(os, r)
  BY DEF Grown, Quiet
<1>3. ASSUME NEW p, Bracketed(os, p), p # 0, NEW e \in FilledEntries(r) PROVE Children(r, e) # {}
  <2>1. e \in FilledEntries(os)
    BY DEF FilledEntries, Grown
  <2>2. PICK c \in DOMAIN os : os[c].parent = e
    BY <1>3, <2>1 DEF Bracketed, Children
  <2>3. c \in DOMAIN r /\ r[c].parent = e
    BY <2>2 DEF Grown
  <2>. QED BY <2>3 DEF Children
<1>. QED BY <1>1, <1>2, <1>3 DEF Bracketed

LEMMA Appended ==
  ASSUME NEW os \in Seq(Order), NEW o \in Order, NEW r, r = Append(os, o)
  PROVE  /\ r \in Seq(Order) /\ Len(r) = Len(os) + 1
         /\ DOMAIN r = DOMAIN os \cup {Len(os) + 1} /\ Len(os) + 1 \notin DOMAIN os
         /\ \A j \in DOMAIN os : r[j] = os[j]
         /\ r[Len(os) + 1] = o
<1>1. DOMAIN os = 1..Len(os) /\ Len(os) \in Nat
  OBVIOUS
<1>. QED BY <1>1

\* A new order for the engine: ungrouped, without parent.
NewOrder(t, at) == createOrder(IF t.bracket THEN "ENTRY" ELSE "STANDALONE", "user",
                               t.side, t.kind, at, t.qty, Nobody, Nobody)

LEMMA NewOrderIs ==
  ASSUME NEW t \in Tickets, NEW at \in Int
  PROVE  \E role \in Roles : Working(NewOrder(t, at), role, "user", t.side, t.kind, at, t.qty, Nobody, Nobody)
<1>1. t.side \in Sides /\ t.qty \in Int /\ t.qty > 0 /\ t.kind \in Kinds
  BY TicketsAssumption
<1>2. (IF t.bracket THEN "ENTRY" ELSE "STANDALONE") \in Roles
  BY DEF Roles
<1>3. "user" \in Tags /\ Nobody \in Refs
  BY DEF Tags, Refs
<1>. DEFINE role == IF t.bracket THEN "ENTRY" ELSE "STANDALONE"
<1>4. NewOrder(t, at) = createOrder(role, "user", t.side, t.kind, at, t.qty, Nobody, Nobody)
  BY DEF NewOrder
<1>5. role \in Roles
  BY <1>2
<1>. HIDE DEF role
<1>6. Working(NewOrder(t, at), role, "user", t.side, t.kind, at, t.qty, Nobody, Nobody)
  BY <1>1, <1>3, <1>4, <1>5, CreatedIs
<1>. QED BY <1>5, <1>6

LEMMA ProtectiveAreCanceled ==
  ASSUME orders \in Seq(Order)
  PROVE  /\ cancelProtective(orders) \in Seq(Order)
         /\ Len(cancelProtective(orders)) = Len(orders)
         /\ Later(orders, cancelProtective(orders)) /\ Grown(orders, cancelProtective(orders))
         /\ \A i \in DOMAIN orders :
              /\ cancelProtective(orders)[i] \in {orders[i], Canceled(orders[i])}
              /\ Protective(orders[i]) => ~isOpen(cancelProtective(orders)[i])
<1>. DEFINE f == [i \in DOMAIN orders |-> IF Protective(orders[i]) /\ isOpen(orders[i])
                                          THEN Canceled(orders[i]) ELSE orders[i]]
<1>1. cancelProtective(orders) = <<>> \o f
  BY DEF cancelProtective, Every
<1>2. \A i \in DOMAIN orders : /\ f[i] \in Order /\ SameOrder(orders[i], f[i])
                               /\ f[i].filled = orders[i].filled
                               /\ isOpen(f[i]) => isOpen(orders[i])
                               /\ f[i] \in {orders[i], Canceled(orders[i])}
                               /\ Protective(orders[i]) => ~isOpen(f[i])
  <2>. TAKE i \in DOMAIN orders
  <2>1. orders[i] \in Order
    OBVIOUS
  <2>2. CASE Protective(orders[i]) /\ isOpen(orders[i])
    BY <2>1, <2>2, CanceledIs
  <2>3. CASE ~(Protective(orders[i]) /\ isOpen(orders[i]))
    BY <2>1, <2>3 DEF SameOrder
  <2>. QED BY <2>2, <2>3
<1>3. f \in [DOMAIN orders -> Order]
  BY <1>2
<1>4. /\ <<>> \o f = f /\ f \in Seq(Order) /\ Len(f) = Len(orders) /\ DOMAIN f = DOMAIN orders
  BY <1>3, EveryOfThem
<1>. HIDE DEF f
<1>5. Later(orders, f) /\ Grown(orders, f)
  BY <1>2, <1>4 DEF Later, Grown, SameOrder
<1>. QED BY <1>1, <1>2, <1>4, <1>5

LEMMA LeastIndex ==
  ASSUME NEW n \in Nat, NEW U \in SUBSET (1..n), U # {}
  PROVE  \E i \in U : \A j \in U : i <= j
<1>. DEFINE B == {V \in SUBSET U : V # {} /\ ~\E x \in V : \A y \in V : x <= y}
<1>. SUFFICES ASSUME B # {} PROVE FALSE
  OBVIOUS
<1>1. PICK V \in B : \A W \in SUBSET V : W # V => W \notin B
  <2>1. B \in SUBSET (SUBSET (1..n))
    OBVIOUS
  <2>. HIDE DEF B
  <2>. QED BY <2>1, LeastSet
<1>2. PICK z \in V : TRUE
  OBVIOUS
<1>3. CASE V \ {z} = {}
  <2>1. \A y \in V : y = z /\ z \in Int
    BY <1>3
  <2>. QED BY <2>1
<1>4. CASE V \ {z} # {}
  <2>1. PICK x \in V \ {z} : \A y \in V \ {z} : x <= y
    BY <1>1, <1>4
  <2>2. x \in Int /\ z \in Int /\ \A y \in V : y \in Int
    OBVIOUS
  <2>3. CASE x <= z
    BY <2>1, <2>2, <2>3
  <2>4. CASE z <= x
    BY <2>1, <2>2, <2>4
  <2>. QED BY <2>2, <2>3, <2>4
<1>. QED BY <1>3, <1>4

LEMMA RequestsAre ==
  ASSUME NEW r \in Requests
  PROVE  r.at \in Int
<1>1. CASE r \in [act : {"keep", "drop"}, at : {0}]
  BY <1>1
<1>2. CASE r \in [act : {"set"}, at : Levels]
  BY <1>2, LevelsAssumption
<1>. QED BY <1>1, <1>2 DEF Requests

\* A leg that a request for protection appends.
Asked(o) ==
  /\ o.filled = 0 /\ o.qty > 0 /\ o.status = "WORKING" /\ o.tag = "protect"
  /\ Latent => ~o.eligible
  /\ Protective(o) /\ o.parent = Nobody /\ o.side = -Sign(pos) /\ o.qty = Magnitude(pos)

AskedIn(o, g) == Asked(o) /\ o.group = g

\* A leg that it changes.
Changed(o, p) ==
  /\ p.role = o.role /\ p.tag = o.tag /\ p.kind = o.kind /\ p.parent = o.parent /\ p.side = o.side
  /\ p.filled = o.filled /\ p.qty \in {o.qty, Magnitude(pos)}
  /\ p.status \in {o.status, "CANCELED"}

LEMMA AskedLegs ==
  ASSUME NEW g, NEW legs, legs = <<>> \/ \E o \in Order : legs = <<o>> /\ AskedIn(o, g)
  PROVE  legs \in Seq(Order) /\ \A i \in DOMAIN legs : AskedIn(legs[i], g)
<1>1. CASE legs = <<>>
  BY <1>1
<1>2. CASE \E o \in Order : legs = <<o>> /\ AskedIn(o, g)
  <2>1. PICK o \in Order : legs = <<o>> /\ AskedIn(o, g)
    BY <1>2
  <2>2. legs \in Seq(Order) /\ DOMAIN legs = {1} /\ legs[1] = o
    BY <2>1
  <2>. QED BY <2>1, <2>2
<1>. QED BY <1>1, <1>2

(* The table that a request to protect the position has matched: working   *)
(* protection is regrouped, moved or dropped, missing legs are appended.   *)
LEMMA ProtectionTable ==
  ASSUME EngineTypes, NEW stop \in Requests, NEW target \in Requests, setProtection(stop, target)
  PROVE  \E os \in Seq(Order) :
           /\ matchLocked(Quote(last), os)
           /\ Grown(orders, os)
           /\ \A i \in DOMAIN orders :
                \/ os[i] = orders[i]
                \/ Protective(orders[i]) /\ isOpen(orders[i]) /\ Changed(orders[i], os[i])
           /\ \A i \in DOMAIN os \ DOMAIN orders : Asked(os[i])
           /\ \E g \in Nat : \A i \in OpenIn(os) : Protective(os[i]) => os[i].group = g
<1>. DEFINE legs == {i \in OpenIn(orders) : Protective(orders[i])}
            first(set) == {i \in set : \A j \in set : i <= j}
            leg(role) == first({i \in legs : orders[i].role = role})
            held == {j \in legs : orders[j].group # Nobody}
            group == IF \A i \in legs : orders[i].group = Nobody THEN Len(orders) + 1
                     ELSE orders[CHOOSE i \in first(held) : TRUE].group
            asked(i) == IF orders[i].role = "STOP_LOSS" THEN stop ELSE target
            changed(i) ==
              LET o == [orders[i] EXCEPT !.group = group] IN
              IF i \notin leg(o.role) \/ asked(i).act = "keep" THEN o
              ELSE IF asked(i).act = "drop" THEN Canceled(o)
              ELSE [o EXCEPT !.at = asked(i).at, !.qty = Magnitude(pos), !.rested = FALSE]
            new(role, kind, r) ==
              IF leg(role) # {} \/ r.act # "set" THEN <<>>
              ELSE <<createOrder(role, "protect", -Sign(pos), kind, r.at, Magnitude(pos), Nobody, group)>>
            f == [i \in DOMAIN orders |-> IF i \in legs THEN changed(i) ELSE orders[i]]
            stops == new("STOP_LOSS", "STOP_MARKET", stop)
            targets == new("TAKE_PROFIT", "LIMIT", target)
<1>1. matchLocked(Quote(last), Every(orders, LAMBDA i : IF i \in legs THEN changed(i) ELSE orders[i])
                                 \o stops \o targets)
  BY Zenon DEF setProtection
<1>2. Every(orders, LAMBDA i : IF i \in legs THEN changed(i) ELSE orders[i]) = <<>> \o f
  BY DEF Every
<1>3. orders \in Seq(Order) /\ pos \in Int /\ pos # 0
  BY DEF EngineTypes, setProtection
<1>4. DOMAIN orders = 1..Len(orders) /\ Len(orders) \in Nat
  BY <1>3
<1>5. group \in Nat
  <2>1. CASE \A i \in legs : orders[i].group = Nobody
    <3>1. group = Len(orders) + 1
      BY <2>1
    <3>. QED BY <1>4, <3>1
  <2>2. CASE ~\A i \in legs : orders[i].group = Nobody
    <3>1. group = orders[CHOOSE i \in first(held) : TRUE].group
      BY <2>2
    <3>2. held \in SUBSET (1..Len(orders)) /\ held # {}
      BY <1>4, <2>2 DEF OpenIn
    <3>3. first(held) # {}
      <4>. HIDE DEF held
      <4>1. \E i \in held : \A j \in held : i <= j
        BY <1>4, <3>2, LeastIndex
      <4>. QED BY <4>1
    <3>4. (CHOOSE i \in first(held) : TRUE) \in held
      BY <3>3
    <3>. DEFINE k == CHOOSE i \in first(held) : TRUE
    <3>5. k \in DOMAIN orders /\ orders[k].group # Nobody /\ group = orders[k].group
      BY <1>4, <3>1, <3>2, <3>4
    <3>. HIDE DEF group, first, held, k
    <3>6. orders[k] \in Order
      BY <1>3, <3>5
    <3>. QED BY <3>5, <3>6, OrderFields
  <2>. QED BY <2>1, <2>2
<1>5a. group \in Refs
  BY <1>5 DEF Refs
<1>. HIDE DEF group, first
<1>6. \A i \in DOMAIN orders : /\ f[i] \in Order /\ Changed(orders[i], f[i])
                               /\ f[i] = orders[i] \/ (Protective(orders[i]) /\ isOpen(orders[i]))
                               /\ Protective(f[i]) /\ isOpen(f[i]) => f[i].group = group
  <2>. TAKE i \in DOMAIN orders
  <2>. DEFINE o == [orders[i] EXCEPT !.group = group]
  <2>1. orders[i] \in Order
    BY <1>3
  <2>2. /\ o \in Order /\ o.role = orders[i].role /\ o.tag = orders[i].tag
        /\ o.kind = orders[i].kind /\ o.parent = orders[i].parent /\ o.filled = orders[i].filled
        /\ o.qty = orders[i].qty /\ o.status = orders[i].status
        /\ o.side = orders[i].side /\ o.group = group
    BY <1>5a, <2>1 DEF Order, Refs
  <2>. HIDE DEF o
  <2>3. CASE i \notin legs
    BY <2>1, <2>3 DEF Changed, OpenIn
  <2>4. CASE i \in legs
    <3>0. Protective(orders[i]) /\ isOpen(orders[i])
      BY <2>4 DEF OpenIn
    <3>1. asked(i).at \in Int
      BY RequestsAre
    <3>2. Magnitude(pos) \in Int
      BY <1>3 DEF Magnitude
    <3>3. f[i] = changed(i)
      BY <2>4
    <3>4. changed(i) \in {o, Canceled(o), [o EXCEPT !.at = asked(i).at, !.qty = Magnitude(pos), !.rested = FALSE]}
      BY Zenon DEF o
    <3>5. CASE changed(i) = o
      BY <2>2, <3>0, <3>3, <3>5 DEF Changed
    <3>6. CASE changed(i) = Canceled(o)
      <4>. HIDE DEF changed
      <4>1. f[i] = Canceled(o) /\ Canceled(o).qty = o.qty
        BY <2>2, <3>3, <3>6 DEF Canceled, Order
      <4>. QED BY <2>2, <3>0, <4>1, CanceledIs DEF SameOrder, Changed
    <3>7. CASE changed(i) = [o EXCEPT !.at = asked(i).at, !.qty = Magnitude(pos), !.rested = FALSE]
      <4>. HIDE DEF changed, asked
      <4>1. PICK a \in Int, q \in Int :
              f[i] = [o EXCEPT !.at = a, !.qty = q, !.rested = FALSE] /\ q = Magnitude(pos)
        BY <3>1, <3>2, <3>3, <3>7
      <4>2. /\ f[i] \in Order /\ f[i].role = o.role /\ f[i].tag = o.tag /\ f[i].kind = o.kind
            /\ f[i].parent = o.parent /\ f[i].filled = o.filled /\ f[i].qty = q
            /\ f[i].status = o.status /\ f[i].side = o.side /\ f[i].group = o.group
        BY <2>2, <4>1 DEF Order
      <4>. QED BY <2>2, <3>0, <4>1, <4>2 DEF Changed
    <3>. QED BY <3>4, <3>5, <3>6, <3>7
  <2>. QED BY <2>3, <2>4
<1>7. f \in [DOMAIN orders -> Order]
  BY <1>6
<1>8. /\ <<>> \o f = f /\ f \in Seq(Order) /\ Len(f) = Len(orders) /\ DOMAIN f = DOMAIN orders
  BY <1>3, <1>7, EveryOfThem
<1>. HIDE DEF f, legs
<1>9. ASSUME NEW role \in {"STOP_LOSS", "TAKE_PROFIT"}, NEW kind \in {"STOP_MARKET", "LIMIT"},
             NEW r \in Requests
      PROVE  new(role, kind, r) = <<>> \/ \E o \in Order :
               new(role, kind, r) = <<o>> /\ AskedIn(o, group)
  <2>. DEFINE side == -Sign(pos)
              at == r.at
              qty == Magnitude(pos)
              o == createOrder(role, "protect", side, kind, at, qty, Nobody, group)
  <2>1. role \in Roles /\ kind \in Kinds /\ Nobody \in Refs /\ "protect" \in Tags
    BY DEF Roles, Kinds, Refs, Tags
  <2>2. side \in Sides
    <3>1. Sign(pos) = 1 \/ Sign(pos) = -1
      BY <1>3 DEF Sign
    <3>. QED BY <3>1 DEF Sides
  <2>3. at \in Int /\ qty \in Int
    BY <1>3, RequestsAre DEF Magnitude
  <2>4. new(role, kind, r) \in {<<>>, <<o>>}
    BY Zenon
  <2>. HIDE DEF side, at, qty
  <2>5. Working(o, role, "protect", side, kind, at, qty, Nobody, group)
    BY <1>5a, <2>1, <2>2, <2>3, CreatedIs
  <2>6. qty > 0
    BY <1>3 DEF qty, Magnitude
  <2>7. o \in Order /\ o.qty > 0
    BY <2>5, <2>6 DEF Working
  <2>8. AskedIn(o, group)
    <3>1. Protective(o)
      BY <2>5 DEF Working, Protective
    <3>. QED BY <2>5, <2>7, <3>1, Zenon DEF Working, Asked, AskedIn, side, qty
  <2>. HIDE DEF o, new
  <2>. QED BY <2>4, <2>7, <2>8
<1>10. /\ stops = <<>> \/ \E o \in Order : stops = <<o>> /\ AskedIn(o, group)
       /\ targets = <<>> \/ \E o \in Order : targets = <<o>> /\ AskedIn(o, group)
  BY <1>9
<1>. DEFINE os == f \o stops \o targets
<1>. HIDE DEF stops, targets, new
<1>11. /\ os \in Seq(Order) /\ Len(os) >= Len(f) /\ \A i \in DOMAIN f : os[i] = f[i]
       /\ \A i \in DOMAIN os \ DOMAIN f : AskedIn(os[i], group)
  <2>1. stops \in Seq(Order) /\ \A i \in DOMAIN stops : AskedIn(stops[i], group)
    BY <1>10, AskedLegs
  <2>2. targets \in Seq(Order) /\ \A i \in DOMAIN targets : AskedIn(targets[i], group)
    BY <1>10, AskedLegs
  <2>. QED BY <1>8, <2>1, <2>2
<1>12. matchLocked(Quote(last), os)
  BY <1>1, <1>2, <1>8
<1>. HIDE DEF os
<1>13. Grown(orders, os)
  BY <1>6, <1>8, <1>11 DEF Grown, AskedIn, Asked, Changed
<1>14. \A i \in OpenIn(os) : Protective(os[i]) => os[i].group = group
  BY <1>6, <1>8, <1>11 DEF OpenIn, AskedIn
<1>15. \E g \in Nat : \A i \in OpenIn(os) : Protective(os[i]) => os[i].group = g
  BY <1>5, <1>14
<1>16. \A i \in DOMAIN os \ DOMAIN orders : Asked(os[i])
  BY <1>8, <1>11 DEF AskedIn
<1>. QED BY <1>6, <1>8, <1>11, <1>12, <1>13, <1>15, <1>16

-------------------------------------------------------------------------------
(* Every step *)

\* What each step has to keep.
Kept == FailedInv' /\ (status = "FAILED" => Quiet(orders, orders'))

LEMMA PassIsKept ==
  ASSUME FailedInv, NEW m \in Observation, NEW os \in Seq(Order), Grown(orders, os),
         matchLocked(m, os), last' \in Levels,
         status = "FAILED" => \A i \in DOMAIN os : isOpen(os[i]) /\ os[i].eligible => os[i].tag = "liquidate"
  PROVE  Kept
<1>1. /\ orders \in Seq(Order) /\ pos \in Int /\ status \in Statuses
      /\ LiquidationsClose(orders) /\ Bracketed(orders, pos)
  BY DEF FailedInv, EngineTypes
<1>2. LiquidationsClose(os) /\ Bracketed(os, pos) /\ Quiet(orders, os)
  BY <1>1, GrownKeeps
<1>3. /\ orders' \in Seq(Order) /\ pos' \in Int /\ status' \in Statuses
      /\ LiquidationsClose(orders') /\ Bracketed(orders', pos')
      /\ status' = "FAILED" => OnlyLiquidation(orders')
  BY <1>1, <1>2, PassKeepsFailed
<1>4. status = "FAILED" => Quiet(os, orders')
  BY <1>1, <1>2, PassKeepsFailed
<1>5. status = "FAILED" => Quiet(orders, orders')
  BY <1>1, <1>2, <1>3, <1>4, QuietTwice
<1>. QED BY <1>3, <1>5 DEF Kept, FailedInv, EngineTypes, FailedHoldsOnlyLiquidation,
                           LiquidationsClose, Bracketed, OnlyLiquidation, FilledEntries, Children

LEMMA LevelsAreInts == ASSUME NEW at \in Levels PROVE at \in Int
BY LevelsAssumption

LEMMA AppendIsGrown ==
  ASSUME NEW bare \in Seq(Order), Grown(orders, bare), orders \in Seq(Order),
         NEW o \in Order, o.filled = 0, o.tag # "liquidate"
  PROVE  Append(bare, o) \in Seq(Order) /\ Grown(orders, Append(bare, o))
<1>. DEFINE r == Append(bare, o)
<1>1. /\ r \in Seq(Order) /\ Len(r) = Len(bare) + 1
      /\ DOMAIN r = DOMAIN bare \cup {Len(bare) + 1}
      /\ \A j \in DOMAIN bare : r[j] = bare[j]
      /\ r[Len(bare) + 1] = o
  BY Appended
<1>. HIDE DEF r
<1>2. DOMAIN orders \subseteq DOMAIN bare /\ Len(r) >= Len(orders)
  BY <1>1 DEF Grown
<1>3. Grown(orders, r)
  BY <1>1, <1>2 DEF Grown
<1>. QED BY <1>1, <1>3 DEF r

LEMMA GrownIsReflexive == ASSUME orders \in Seq(Order) PROVE Grown(orders, orders)
BY DEF Grown

LEMMA SubmitIsKept ==
  ASSUME FailedInv, NEW t \in Tickets, NEW at \in Levels, submitOrder(t, at)
  PROVE  Kept
<1>1. /\ orders \in Seq(Order) /\ last \in Levels /\ status = "ACTIVE" /\ last' = last
      /\ matchLocked(Quote(last), Append(orders, NewOrder(t, at)))
  BY DEF FailedInv, EngineTypes, submitOrder, Accepts, NewOrder
<1>2. PICK role \in Roles : Working(NewOrder(t, at), role, "user", t.side, t.kind, at, t.qty, Nobody, Nobody)
  BY NewOrderIs, LevelsAreInts
<1>3. NewOrder(t, at) \in Order /\ NewOrder(t, at).filled = 0 /\ NewOrder(t, at).tag # "liquidate"
  BY <1>2 DEF Working
<1>4. Append(orders, NewOrder(t, at)) \in Seq(Order) /\ Grown(orders, Append(orders, NewOrder(t, at)))
  BY <1>1, <1>3, GrownIsReflexive, AppendIsGrown
<1>5. Quote(last) \in Observation
  BY <1>1, LevelsAreInts, QuoteIsObservation
<1>. QED BY <1>1, <1>4, <1>5, PassIsKept

LEMMA CloseIsKept ==
  ASSUME FailedInv, NEW tag \in {"flatten", "reverse"}, NEW qty \in Int, Close(tag, qty)
  PROVE  Kept
<1>. DEFINE bare == cancelProtective(orders)
            o == closingOrder(tag, pos, qty)
<1>1. /\ orders \in Seq(Order) /\ pos \in Int /\ pos # 0 /\ last \in Levels /\ last' = last
      /\ LiquidationsClose(orders) /\ Bracketed(orders, pos)
  BY DEF FailedInv, EngineTypes, Close
<1>2. /\ bare \in Seq(Order) /\ Len(bare) = Len(orders) /\ Later(orders, bare) /\ Grown(orders, bare)
  BY <1>1, ProtectiveAreCanceled
<1>3. CASE status = "ACTIVE" /\ matchLocked(Quote(last), Append(bare, o))
  <2>1. Working(o, "STANDALONE", tag, -Sign(pos), "MARKET", 0, qty, Nobody, Nobody)
    BY <1>1, ClosingOrderIs DEF Tags
  <2>2. o \in Order /\ o.filled = 0 /\ o.tag # "liquidate"
    BY <2>1 DEF Working
  <2>. HIDE DEF o, bare
  <2>3. Append(bare, o) \in Seq(Order) /\ Grown(orders, Append(bare, o))
    BY <1>1, <1>2, <2>2, AppendIsGrown
  <2>4. Quote(last) \in Observation
    BY <1>1, LevelsAreInts, QuoteIsObservation
  <2>. QED BY <1>1, <1>3, <2>3, <2>4, PassIsKept
<1>4. CASE orders' = bare /\ UNCHANGED <<pos, status>>
  <2>. HIDE DEF bare
  <2>1. /\ LiquidationsClose(bare) /\ Bracketed(bare, pos) /\ Quiet(orders, bare)
        /\ OnlyLiquidation(orders) => OnlyLiquidation(bare)
    BY <1>1, <1>2, LaterIsQuiet, GrownKeeps
  <2>2. LiquidationsClose(orders') /\ Bracketed(orders', pos') /\ Quiet(orders, orders')
    BY <1>4, <2>1
  <2>3. status' = "FAILED" => OnlyLiquidation(orders')
    BY <1>4, <2>1 DEF FailedInv, FailedHoldsOnlyLiquidation
  <2>4. EngineTypes'
    BY <1>1, <1>2, <1>4 DEF FailedInv, EngineTypes
  <2>. QED BY <2>2, <2>3, <2>4 DEF Kept, FailedInv, FailedHoldsOnlyLiquidation,
                           LiquidationsClose, Bracketed, OnlyLiquidation, FilledEntries, Children
<1>5. status \in Statuses => (Accepts(-Sign(pos), qty) => status = "ACTIVE")
  BY DEF Accepts
<1>. QED BY <1>3, <1>4, <1>5 DEF Close, FailedInv, EngineTypes

\* A step that leaves position and status alone and fills nothing.
LEMMA ChangeIsKept ==
  ASSUME FailedInv, orders' \in Seq(Order), Grown(orders, orders'),
         Len(orders') = Len(orders),
         \A j \in DOMAIN orders : isOpen(orders'[j]) => isOpen(orders[j]),
         UNCHANGED <<pos, last, status>>
  PROVE  Kept
<1>1. /\ orders \in Seq(Order) /\ LiquidationsClose(orders) /\ Bracketed(orders, pos)
      /\ status = "FAILED" => OnlyLiquidation(orders)
  BY DEF FailedInv, EngineTypes, FailedHoldsOnlyLiquidation
<1>2. LiquidationsClose(orders') /\ Bracketed(orders', pos') /\ Quiet(orders, orders')
  BY <1>1, GrownKeeps
<1>3. OnlyLiquidation(orders) => OnlyLiquidation(orders')
  <2>1. DOMAIN orders' = DOMAIN orders
    BY <1>1
  <2>. QED BY <2>1 DEF OnlyLiquidation, Grown
<1>4. EngineTypes'
  BY DEF FailedInv, EngineTypes
<1>. QED BY <1>1, <1>2, <1>3, <1>4
         DEF Kept, FailedInv, FailedHoldsOnlyLiquidation,
             LiquidationsClose, Bracketed, OnlyLiquidation, FilledEntries, Children

LEMMA CancelIsKept ==
  ASSUME FailedInv, NEW i \in DOMAIN orders, cancelOrder(i)
  PROVE  Kept
<1>1. /\ orders \in Seq(Order) /\ orders[i] \in Order
      /\ orders' = [orders EXCEPT ![i] = Canceled(orders[i])]
      /\ UNCHANGED <<pos, last, status>>
  BY DEF FailedInv, EngineTypes, cancelOrder
<1>2. /\ Canceled(orders[i]) \in Order /\ SameOrder(orders[i], Canceled(orders[i]))
      /\ ~isOpen(Canceled(orders[i])) /\ Canceled(orders[i]).filled = orders[i].filled
  BY <1>1, CanceledIs
<1>3. /\ orders' \in Seq(Order) /\ Len(orders') = Len(orders) /\ DOMAIN orders' = DOMAIN orders
      /\ \A j \in DOMAIN orders : orders'[j] = IF j = i THEN Canceled(orders[i]) ELSE orders[j]
  BY <1>1, <1>2
<1>4. Grown(orders, orders') /\ \A j \in DOMAIN orders : isOpen(orders'[j]) => isOpen(orders[j])
  BY <1>2, <1>3 DEF Grown, SameOrder
<1>. QED BY <1>1, <1>3, <1>4, ChangeIsKept

\* The order i moved to another price and quantity.
Modified(i, at, qty) ==
  [orders[i] EXCEPT !.at = at, !.qty = qty, !.rested = FALSE,
                    !.status = IF orders[i].filled >= qty THEN "FILLED" ELSE @]

ModifiedTable(i, at, qty) ==
  [orders EXCEPT ![i].at = at, ![i].qty = qty, ![i].rested = FALSE,
                 ![i].status = IF orders[i].filled >= qty THEN "FILLED" ELSE @]

LEMMA ModifiedIs ==
  ASSUME orders \in Seq(Order), NEW i \in DOMAIN orders, NEW at \in Int, NEW qty \in Int,
         NEW os, os = ModifiedTable(i, at, qty)
  PROVE  /\ os \in Seq(Order) /\ DOMAIN os = DOMAIN orders /\ Len(os) = Len(orders)
         /\ \A j \in DOMAIN orders : os[j] = IF j = i THEN Modified(i, at, qty) ELSE orders[j]
         /\ SameOrder(orders[i], Modified(i, at, qty))
         /\ Modified(i, at, qty).filled = orders[i].filled
         /\ Modified(i, at, qty).qty = qty
         /\ Modified(i, at, qty).status = IF orders[i].filled >= qty THEN "FILLED" ELSE orders[i].status
<1>. DEFINE st == IF orders[i].filled >= qty THEN "FILLED" ELSE orders[i].status
            r == Modified(i, at, qty)
<1>1. orders[i] \in Order
  OBVIOUS
<1>2. st \in OrderStatus
  BY <1>1, OrderFields DEF OrderStatus
<1>3. r = [orders[i] EXCEPT !.at = at, !.qty = qty, !.rested = FALSE, !.status = st]
  BY <1>1 DEF Modified, Order
<1>4. os = [orders EXCEPT ![i] = r]
  BY <1>1, <1>3 DEF Order, ModifiedTable
<1>. HIDE DEF st, r
<1>5. /\ r \in Order /\ SameOrder(orders[i], r) /\ r.filled = orders[i].filled /\ r.qty = qty
      /\ r.status = st
  BY <1>1, <1>2, <1>3 DEF Order, SameOrder
<1>. QED BY <1>4, <1>5 DEF r, st

LEMMA ModifyIsKept ==
  ASSUME FailedInv, NEW i \in DOMAIN orders, NEW at \in Levels, NEW qty \in Nat, modifyOrder(i, at, qty)
  PROVE  Kept
<1>. DEFINE os == [orders EXCEPT ![i].at = at, ![i].qty = qty, ![i].rested = FALSE,
                     ![i].status = IF orders[i].filled >= qty THEN "FILLED" ELSE @]
<1>1. /\ orders \in Seq(Order) /\ last \in Levels /\ last' = last
      /\ isOpen(orders[i]) /\ orders[i].kind # "MARKET" /\ matchLocked(Quote(last), os)
  BY DEF FailedInv, EngineTypes, modifyOrder
<1>1a. at \in Int /\ qty \in Int /\ os = ModifiedTable(i, at, qty)
  BY LevelsAreInts DEF ModifiedTable
<1>. HIDE DEF os
<1>2. /\ os \in Seq(Order) /\ DOMAIN os = DOMAIN orders /\ Len(os) = Len(orders)
      /\ \A j \in DOMAIN orders : os[j] = IF j = i THEN Modified(i, at, qty) ELSE orders[j]
      /\ SameOrder(orders[i], Modified(i, at, qty))
      /\ Modified(i, at, qty).filled = orders[i].filled
      /\ Modified(i, at, qty).qty = qty
      /\ Modified(i, at, qty).status = IF orders[i].filled >= qty THEN "FILLED" ELSE orders[i].status
  BY <1>1, <1>1a, ModifiedIs
<1>3. Grown(orders, os)
  BY <1>2 DEF Grown, SameOrder
<1>4. status # "FAILED"
  BY <1>1 DEF FailedInv, FailedHoldsOnlyLiquidation, OnlyLiquidation, LiquidationsClose
<1>5. Quote(last) \in Observation
  BY <1>1, LevelsAreInts, QuoteIsObservation
<1>. QED BY <1>1, <1>2, <1>3, <1>4, <1>5, PassIsKept

LEMMA ProtectionIsKept ==
  ASSUME FailedInv, "stubborn" \in Abilities => Latent, NEW stop \in Requests, NEW target \in Requests, setProtection(stop, target)
  PROVE  Kept
<1>1. EngineTypes /\ last \in Levels /\ last' = last
  BY DEF FailedInv, EngineTypes, setProtection
<1>2. PICK os \in Seq(Order) :
        /\ matchLocked(Quote(last), os)
        /\ Grown(orders, os)
        /\ \A i \in DOMAIN orders :
             \/ os[i] = orders[i]
             \/ Protective(orders[i]) /\ isOpen(orders[i]) /\ Changed(orders[i], os[i])
        /\ \A i \in DOMAIN os \ DOMAIN orders : Asked(os[i])
  BY <1>1, ProtectionTable
<1>3. ASSUME status = "FAILED", NEW i \in DOMAIN os, isOpen(os[i]) /\ os[i].eligible
      PROVE  os[i].tag = "liquidate"
  <2>1. OnlyLiquidation(orders) /\ LiquidationsClose(orders)
    BY <1>3 DEF FailedInv, FailedHoldsOnlyLiquidation
  <2>2. CASE i \notin DOMAIN orders
    <3>1. Latent
      BY <1>3 DEF setProtection
    <3>. QED BY <1>2, <1>3, <2>2, <3>1, Zenon DEF Asked
  <2>3. CASE i \in DOMAIN orders
    <3>1. ~(Protective(orders[i]) /\ isOpen(orders[i]))
      BY <2>1, <2>3 DEF OnlyLiquidation, LiquidationsClose, Protective
    <3>2. os[i] = orders[i]
      BY <1>2, <2>3, <3>1
    <3>. QED BY <1>3, <2>1, <2>3, <3>2 DEF OnlyLiquidation
  <2>. QED BY <2>2, <2>3
<1>4. Quote(last) \in Observation
  BY <1>1, LevelsAreInts, QuoteIsObservation
<1>. QED BY <1>1, <1>2, <1>3, <1>4, PassIsKept

LEMMA MarketIsKept ==
  ASSUME FailedInv, NEW m \in Observation, m.last \in Levels, onMarketEvent(m)
  PROVE  Kept
<1>1. /\ orders \in Seq(Order) /\ matchLocked(m, orders) /\ last' \in Levels
      /\ status = "FAILED" => OnlyLiquidation(orders)
  BY DEF FailedInv, EngineTypes, FailedHoldsOnlyLiquidation, onMarketEvent
<1>2. status = "FAILED" => \A i \in DOMAIN orders : isOpen(orders[i]) /\ orders[i].eligible
                                                    => orders[i].tag = "liquidate"
  BY <1>1 DEF OnlyLiquidation
<1>. QED BY <1>1, <1>2, GrownIsReflexive, PassIsKept

LEMMA LatencyIsKept ==
  ASSUME FailedInv, LatencyElapses
  PROVE  Kept
<1>1. PICK i \in DOMAIN orders : /\ orders' = [orders EXCEPT ![i].eligible = TRUE]
                                 /\ UNCHANGED <<pos, last, status>>
  BY DEF LatencyElapses
<1>2. orders \in Seq(Order) /\ orders[i] \in Order
  BY DEF FailedInv, EngineTypes
<1>. DEFINE o == [orders[i] EXCEPT !.eligible = TRUE]
<1>3. /\ o \in Order /\ o.role = orders[i].role /\ o.tag = orders[i].tag /\ o.kind = orders[i].kind
      /\ o.parent = orders[i].parent /\ o.filled = orders[i].filled /\ o.status = orders[i].status
  BY <1>2 DEF Order
<1>4. orders' = [orders EXCEPT ![i] = o]
  BY <1>1
<1>. HIDE DEF o
<1>5. /\ orders' \in Seq(Order) /\ Len(orders') = Len(orders) /\ DOMAIN orders' = DOMAIN orders
      /\ \A j \in DOMAIN orders : orders'[j] = IF j = i THEN o ELSE orders[j]
  BY <1>2, <1>3, <1>4
<1>6. Grown(orders, orders') /\ \A j \in DOMAIN orders : isOpen(orders'[j]) => isOpen(orders[j])
  BY <1>3, <1>5 DEF Grown, isOpen
<1>. QED BY <1>1, <1>5, <1>6, ChangeIsKept

LEMMA StutterIsKept ==
  ASSUME FailedInv, UNCHANGED vars
  PROVE  Kept
<1>1. orders \in Seq(Order) /\ orders' = orders /\ UNCHANGED <<pos, last, status>>
  BY DEF FailedInv, EngineTypes, vars
<1>. QED BY <1>1, GrownIsReflexive, ChangeIsKept

LEMMA StepIsKept ==
  ASSUME "crash" \notin Abilities, "stubborn" \in Abilities => Latent, FailedInv, [Next]_vars
  PROVE  Kept
<1>1. last \in Levels /\ pos \in Int
  BY DEF FailedInv, EngineTypes
<1>2. CASE Submit
  BY <1>2, SubmitIsKept DEF Submit
<1>3. CASE Cancel
  BY <1>3, CancelIsKept DEF Cancel
<1>4. CASE Modify
  <2>1. PICK i \in DOMAIN orders, at \in Levels, qty \in 1..MaxContracts : modifyOrder(i, at, qty)
    BY <1>4 DEF Modify
  <2>2. qty \in Nat
    BY SizesAssumption
  <2>. QED BY <2>1, <2>2, ModifyIsKept
<1>5. CASE flatten
  <2>1. Magnitude(pos) \in Int /\ Close("flatten", Magnitude(pos))
    BY <1>1, <1>5 DEF flatten, Magnitude
  <2>. QED BY <2>1, CloseIsKept
<1>6. CASE reverse
  <2>1. 2 * Magnitude(pos) \in Int /\ Close("reverse", 2 * Magnitude(pos))
    BY <1>1, <1>6 DEF reverse, Magnitude
  <2>. QED BY <2>1, CloseIsKept
<1>7. CASE SetProtection
  <2>1. PICK stop \in Requests, target \in Requests : setProtection(stop, target)
    BY <1>7 DEF SetProtection
  <2>. QED BY <2>1, ProtectionIsKept
<1>8. CASE QuoteArrives
  <2>1. PICK price \in Levels : onMarketEvent(Quote(price))
    BY <1>8 DEF QuoteArrives
  <2>2. Quote(price) \in Observation /\ Quote(price).last = price
    BY LevelsAreInts, QuoteIsObservation DEF Quote
  <2>. QED BY <2>1, <2>2, MarketIsKept
<1>9. CASE BarCloses
  <2>1. PICK price \in Levels, lo \in Levels, hi \in Levels : onMarketEvent(Bar(price, lo, hi))
    BY <1>9 DEF BarCloses
  <2>2. Bar(price, lo, hi) \in Observation /\ Bar(price, lo, hi).last = price
    BY LevelsAreInts DEF Bar, Observation
  <2>. QED BY <2>1, <2>2, MarketIsKept
<1>10. CASE LatencyElapses
  BY <1>10, LatencyIsKept
<1>11. CASE UNCHANGED vars
  BY <1>11, StutterIsKept
<1>12. ~Crash
  BY DEF Crash
<1>. QED BY <1>2, <1>3, <1>4, <1>5, <1>6, <1>7, <1>8, <1>9, <1>10, <1>11, <1>12 DEF Next

LEMMA FailedInvHoldsAtFirst == ASSUME Init PROVE FailedInv
<1>1. EngineTypes
  BY DEF Init, EngineTypes, Statuses
<1>2. DOMAIN orders = {}
  BY DEF Init
<1>. QED BY <1>1, <1>2 DEF Init, FailedInv, LiquidationsClose, Bracketed, FailedHoldsOnlyLiquidation

(* What a failed account still has working is its liquidation: the pass in *)
(* which the rules find a breach cancels the rest (liquidateLocked,        *)
(* engine.ts), and nothing the trader can do afterwards puts another order *)
(* to work.  An engine that dies between the two, and protection attached  *)
(* to what a failed account still holds, under no latency, are the         *)
(* exceptions.                                                             *)
THEOREM FailedInvariant ==
  ASSUME "crash" \notin Abilities, "stubborn" \in Abilities => Latent
  PROVE  Spec => []FailedInv
<1>1. Init => FailedInv
  BY FailedInvHoldsAtFirst
<1>2. FailedInv /\ [Next]_vars => FailedInv'
  BY StepIsKept DEF Kept
<1>. QED BY <1>1, <1>2, PTL DEF Spec

LEMMA QuietTradesLiquidations ==
  ASSUME EngineTypes, EngineTypes', Quiet(orders, orders'), NEW i \in Traded
  PROVE  orders'[i].tag = "liquidate"
<1>1. orders \in Seq(Order) /\ orders' \in Seq(Order)
  BY DEF EngineTypes
<1>2. i \in DOMAIN orders' /\ orders'[i].filled > (IF i \in DOMAIN orders THEN orders[i].filled ELSE 0)
  BY DEF Traded
<1>3. CASE i \in DOMAIN orders
  <2>1. orders[i].filled \in Int
    BY <1>1, <1>3, OrderFields
  <2>2. orders'[i].filled # orders[i].filled
    BY <1>2, <1>3, <2>1
  <2>. QED BY <1>3, <2>2 DEF Quiet
<1>4. CASE i \notin DOMAIN orders
  <2>1. orders'[i].filled # 0
    BY <1>2, <1>4
  <2>. QED BY <1>2, <1>4, <2>1 DEF Quiet
<1>. QED BY <1>3, <1>4

(* In a failed account nothing trades but its liquidation: enforceLocked   *)
(* cancels before it closes, on every pass.                                *)
THEOREM OnlyLiquidationTrades ==
  ASSUME "crash" \notin Abilities, "stubborn" \in Abilities => Latent
  PROVE  Spec => FailedOnlyLiquidates
<1>1. FailedInv /\ [Next]_vars => (status = "FAILED" => \A i \in Traded : orders'[i].tag = "liquidate")
  <2>. SUFFICES ASSUME FailedInv, [Next]_vars, status = "FAILED", NEW i \in Traded
                PROVE  orders'[i].tag = "liquidate"
    OBVIOUS
  <2>1. EngineTypes /\ EngineTypes' /\ Quiet(orders, orders')
    BY StepIsKept DEF Kept, FailedInv
  <2>. QED BY <2>1, QuietTradesLiquidations
<1>2. Spec => []FailedInv
  BY FailedInvariant
<1>. QED BY <1>1, <1>2, PTL DEF Spec, FailedOnlyLiquidates

-------------------------------------------------------------------------------
(* OCO groups, where fills are whole *)

\* What works has not filled: a fill, when it comes, is for all of it.
WorksWhole(os) == \A i \in DOMAIN os : isOpen(os[i]) => os[i].filled = 0 /\ os[i].qty > 0

\* Groups are numbered by the length of the table; their members are legs.
GroupsAreBrackets(os) ==
  \A i \in DOMAIN os : os[i].group # Nobody => os[i].group <= Len(os) /\ os[i].parent # Nobody

\* Two legs of a group hang on one entry, work for the same quantity, and
\* neither does once the other is complete.
LegsAgree(os) ==
  \A i, j \in DOMAIN os :
    i # j /\ os[i].group # Nobody /\ os[j].group = os[i].group =>
      /\ os[j].parent = os[i].parent
      /\ isOpen(os[i]) /\ isOpen(os[j]) => os[i].qty = os[j].qty
      /\ os[i].status = "FILLED" => ~isOpen(os[j])

OcoInv(os) == WorksWhole(os) /\ GroupsAreBrackets(os) /\ LegsAgree(os)

\* Nothing but that some orders work no longer.
Thinned(os, r) ==
  /\ Len(r) = Len(os)
  /\ \A j \in DOMAIN os :
       /\ r[j].group = os[j].group /\ r[j].parent = os[j].parent
       /\ isOpen(r[j]) => isOpen(os[j]) /\ r[j].filled = os[j].filled /\ r[j].qty = os[j].qty
       /\ r[j].status = "FILLED" => os[j].status = "FILLED"

LEMMA ThinnedAgrees ==
  ASSUME NEW os \in Seq(Order), NEW r \in Seq(Order), Thinned(os, r), OcoInv(os)
  PROVE  OcoInv(r)
<1>1. DOMAIN r = DOMAIN os
  BY DEF Thinned
<1>2. WorksWhole(r)
  BY <1>1 DEF Thinned, OcoInv, WorksWhole
<1>3. GroupsAreBrackets(r)
  BY <1>1 DEF Thinned, OcoInv, GroupsAreBrackets
<1>4. LegsAgree(r)
  BY <1>1 DEF Thinned, OcoInv, LegsAgree
<1>. QED BY <1>2, <1>3, <1>4 DEF OcoInv

LEMMA AppendAgrees ==
  ASSUME NEW os \in Seq(Order), NEW o \in Order, o.group = Nobody, o.filled = 0, o.qty > 0,
         NEW r, r = Append(os, o), OcoInv(os)
  PROVE  r \in Seq(Order) /\ OcoInv(r)
<1>1. /\ r \in Seq(Order) /\ Len(r) = Len(os) + 1
      /\ DOMAIN r = DOMAIN os \cup {Len(os) + 1}
      /\ \A j \in DOMAIN os : r[j] = os[j]
      /\ r[Len(os) + 1] = o
  BY Appended
<1>2. WorksWhole(r)
  BY <1>1 DEF OcoInv, WorksWhole
<1>3. GroupsAreBrackets(r)
  <2>1. \A i \in DOMAIN os : os[i].group # Nobody => os[i].group <= Len(os) + 1
    <3>. TAKE i \in DOMAIN os
    <3>1. os[i] \in Order
      OBVIOUS
    <3>2. os[i].group \in Nat \cup {Nobody}
      BY <3>1, OrderFields
    <3>. QED BY <3>2 DEF OcoInv, GroupsAreBrackets
  <2>. QED BY <1>1, <2>1 DEF OcoInv, GroupsAreBrackets
<1>4. LegsAgree(r)
  BY <1>1 DEF OcoInv, LegsAgree
<1>. QED BY <1>1, <1>2, <1>3, <1>4 DEF OcoInv

LEMMA MatchOneAgrees ==
  ASSUME FillCap = Nobody, NEW m \in Observation, NEW s \in State, NEW i \in DOMAIN s.orders,
         OcoInv(s.orders)
  PROVE  OcoInv(MatchOne(m, s, i).orders)
<1>. DEFINE os == s.orders
            r == MatchOne(m, s, i)
<1>1. os \in Seq(Order) /\ s.pos \in Int /\ \A j \in DOMAIN os : os[j] \in Order
  BY DEF State
<1>2. CASE r = s
  BY <1>2
<1>3. CASE r # s
  <2>0. isOpen(os[i])
    BY <1>3, MatchOneIs
  <2>1. PICK q \in Nat \ {0}, p \in Order :
          /\ q <= remainingQty(os[i])
          /\ FillCap = Nobody => q = remainingQty(os[i])
          /\ Executed(os[i], p, q)
          /\ r = [orders |-> ReduceSiblings([os EXCEPT ![i] = p], i, q),
                  pos |-> s.pos + os[i].side * q]
    BY <1>3, MatchOneIs
  <2>. DEFINE os1 == [os EXCEPT ![i] = p]
              rs == ReduceSiblings(os1, i, q)
  <2>2. os1 \in Seq(Order) /\ DOMAIN os1 = DOMAIN os /\ Len(os1) = Len(os) /\ i \in DOMAIN os1
    BY <1>1
  <2>3. \A j \in DOMAIN os : os1[j] = IF j = i THEN p ELSE os[j]
    BY <1>1
  <2>. HIDE DEF os1
  <2>4. /\ rs \in Seq(Order) /\ DOMAIN rs = DOMAIN os /\ Len(rs) = Len(os)
        /\ \A j \in DOMAIN os : rs[j] = LeftOver(os1, i, q, j)
    <3>1. q \in Int
      OBVIOUS
    <3>2. rs \in Seq(Order) /\ DOMAIN rs = DOMAIN os1 /\ Len(rs) = Len(os1)
      BY <2>2, <3>1, SiblingsReduced
    <3>3. \A j \in DOMAIN os1 : rs[j] = LeftOver(os1, i, q, j)
      BY <2>2, <3>1, SiblingsReduced
    <3>. HIDE DEF rs
    <3>. QED BY <2>2, <3>2, <3>3, Zenon
  <2>. HIDE DEF rs
  <2>5. os[i].filled = 0 /\ os[i].qty > 0 /\ q = os[i].qty
    <3>1. os[i].filled = 0 /\ os[i].qty > 0
      BY <2>0 DEF OcoInv, WorksWhole
    <3>2. os[i].qty \in Int
      BY <1>1, OrderFields
    <3>. QED BY <2>1, <3>1, <3>2 DEF remainingQty
  <2>6. p.status = "FILLED" /\ p.group = os[i].group /\ p.parent = os[i].parent /\ ~isOpen(p)
    BY <2>1, <2>5 DEF Executed, SameOrder, isOpen
  <2>7. \A j \in DOMAIN os : os1[j].group = os[j].group /\ os1[j].parent = os[j].parent
    BY <2>3, <2>6
  <2>8. ASSUME NEW j \in DOMAIN os, j # i
        PROVE  /\ rs[j].group = os[j].group /\ rs[j].parent = os[j].parent
               /\ rs[j].status = "FILLED" => os[j].status = "FILLED"
               /\ isOpen(rs[j]) => rs[j] = os[j] /\ (os[i].group # Nobody => os[j].group # os[i].group)
    <3>1. os1[j] = os[j] /\ os[j] \in Order
      BY <1>1, <2>3, <2>8
    <3>2. CASE j \notin Siblings(os1, i)
      <4>1. rs[j] = os[j]
        BY <2>4, <3>1, <3>2 DEF LeftOver
      <4>2. isOpen(os[j]) /\ os[i].group # Nobody => os[j].group # os[i].group
        BY <2>2, <2>7, <2>8, <3>1, <3>2 DEF Siblings, OpenIn
      <4>. QED BY <4>1, <4>2
    <3>3. CASE j \in Siblings(os1, i)
      <4>1. isOpen(os[j]) /\ os[i].group # Nobody /\ os[j].group = os[i].group
        BY <2>2, <2>7, <3>1, <3>3 DEF Siblings, OpenIn
      <4>2. os[j].qty = q /\ os[j].filled = 0
        BY <2>0, <2>5, <2>8, <4>1 DEF OcoInv, LegsAgree, WorksWhole
      <4>3. os1[j].qty - q <= os1[j].filled
        BY <3>1, <4>2
      <4>4. rs[j] = Canceled(os[j])
        BY <2>4, <3>1, <3>3, <4>3, Zenon DEF LeftOver
      <4>. QED BY <3>1, <4>4, CanceledIs DEF SameOrder
    <3>. QED BY <3>2, <3>3
  <2>9. rs[i] = p
    BY <2>3, <2>4 DEF LeftOver, Siblings
  <2>10. WorksWhole(rs)
    BY <2>4, <2>6, <2>8, <2>9 DEF OcoInv, WorksWhole
  <2>11. GroupsAreBrackets(rs)
    BY <2>4, <2>6, <2>8, <2>9 DEF OcoInv, GroupsAreBrackets
  <2>12. LegsAgree(rs)
    <3>. SUFFICES ASSUME NEW j \in DOMAIN os, NEW k \in DOMAIN os, j # k,
                         rs[j].group # Nobody, rs[k].group = rs[j].group
                  PROVE  /\ rs[k].parent = rs[j].parent
                         /\ isOpen(rs[j]) /\ isOpen(rs[k]) => rs[j].qty = rs[k].qty
                         /\ rs[j].status = "FILLED" => ~isOpen(rs[k])
      BY <2>4 DEF LegsAgree
    <3>1. CASE j = i
      BY <2>6, <2>8, <2>9, <3>1 DEF OcoInv, LegsAgree
    <3>2. CASE k = i
      BY <2>6, <2>8, <2>9, <3>2 DEF OcoInv, LegsAgree
    <3>3. CASE j # i /\ k # i
      BY <2>8, <3>3 DEF OcoInv, LegsAgree
    <3>. QED BY <3>1, <3>2, <3>3
  <2>. QED BY <2>1, <2>10, <2>11, <2>12 DEF OcoInv, rs, os1
<1>. QED BY <1>2, <1>3

LEMMA MatchAgrees ==
  ASSUME FillCap = Nobody, NEW m \in Observation, NEW os \in Seq(Order), NEW p \in Int, OcoInv(os)
  PROVE  OcoInv(matchOrders(m, os, p).orders)
<1>. DEFINE S == {s \in State : DOMAIN s.orders = DOMAIN os /\ OcoInv(s.orders)}
            s0 == [orders |-> os, pos |-> p]
            s1 == MatchThose(m, os, s0, TRUE)
<1>1. s0 \in S
  BY DEF State
<1>2. \A acc \in S, i \in DOMAIN os : MatchOne(m, acc, i) \in S
  BY MatchOneMatches, MatchOneAgrees DEF Matches
<1>. HIDE DEF S
<1>3. s1 \in S
  BY <1>1, <1>2, MatchThoseStays
<1>4. matchOrders(m, os, p) \in S
  BY <1>2, <1>3, MatchThoseStays DEF matchOrders
<1>. QED BY <1>4 DEF S

LEMMA EntryAgrees ==
  ASSUME NEW p \in Int, NEW sole, NEW os \in Seq(Order), NEW e \in DOMAIN os, OcoInv(os),
         os[e].filled > 0
  PROVE  OcoInv(SyncEntry(p, sole, os, e))
<1>. DEFINE r == SyncEntry(p, sole, os, e)
<1>1. CASE Children(os, e) # {}
  <2>1. /\ r \in Seq(Order) /\ DOMAIN r = DOMAIN os /\ Len(r) = Len(os)
        /\ \A i \in DOMAIN os : r[i] = Settled(p, sole, os, e, i)
    <3>1. r \in Seq(Order)
      BY <1>1, EntrySettles
    <3>3. Len(r) = Len(os)
      BY <1>1, EntrySettles
    <3>4. \A i \in DOMAIN os : r[i] = Settled(p, sole, os, e, i)
      BY <1>1, EntrySettles
    <3>. HIDE DEF r
    <3>2. DOMAIN r = DOMAIN os
      BY <3>1, <3>3
    <3>. QED BY <3>1, <3>2, <3>3, <3>4
  <2>. HIDE DEF r
  <2>2. \A i \in DOMAIN os : os[i] \in Order
    OBVIOUS
  <2>3. PICK T \in Int : \A i \in DOMAIN os : isOpen(os[i]) => SyncTarget(p, sole, os, e, i) = T
    <3>. DEFINE protect == IF Sign(p) = os[e].side THEN Magnitude(p) ELSE 0
                T == IF sole THEN protect ELSE Smaller(os[e].filled, protect)
    <3>1. protect \in Int /\ os[e].filled \in Int
      BY <2>2, OrderFields DEF Magnitude
    <3>2. \A i \in DOMAIN os : SyncTarget(p, sole, os, e, i)
            = IF sole THEN os[i].filled + protect ELSE Smaller(os[e].filled, os[i].filled + protect)
      BY Zenon DEF SyncTarget
    <3>. HIDE DEF protect
    <3>3. Smaller(os[e].filled, protect) \in Int
      BY <3>1 DEF Smaller
    <3>4. T \in Int
      BY <3>1, <3>3, Zenon
    <3>5. \A i \in DOMAIN os : isOpen(os[i]) => os[i].filled + protect = protect
      BY <3>1 DEF OcoInv, WorksWhole
    <3>6. \A i \in DOMAIN os : isOpen(os[i]) => SyncTarget(p, sole, os, e, i) = T
      BY <3>2, <3>5, Zenon
    <3>. HIDE DEF T
    <3>. QED BY <3>4, <3>6
  <2>4. ASSUME NEW i \in DOMAIN os
        PROVE  /\ r[i].group = os[i].group /\ r[i].parent = os[i].parent
               /\ r[i].status = "FILLED" => os[i].status = "FILLED"
               /\ isOpen(r[i]) => /\ isOpen(os[i]) /\ r[i].filled = 0
                                  /\ os[i].parent = e => r[i].qty = T /\ T > 0
                                  /\ os[i].parent # e => r[i] = os[i]
    <3>1. /\ SameOrder(os[i], r[i]) /\ r[i].filled = os[i].filled
          /\ isOpen(r[i]) => isOpen(os[i])
          /\ r[i].status \in {os[i].status, "CANCELED"}
      <4>1. r[i] = Settled(p, sole, os, e, i)
        BY <2>1
      <4>. QED BY <4>1, SettledIs
    <3>2. ASSUME isOpen(r[i]) PROVE /\ r[i].filled = 0
                                    /\ os[i].parent = e => r[i].qty = T /\ T > 0
                                    /\ os[i].parent # e => r[i] = os[i]
      <4>1. isOpen(os[i]) /\ r[i].filled = 0 /\ os[i].filled = 0
        BY <3>1, <3>2 DEF OcoInv, WorksWhole
      <4>2. CASE os[i].parent = e
        <5>1. r[i] = Resized(os[i], T)
          BY <2>1, <2>3, <4>1, <4>2 DEF Settled, Children
        <5>2. isOpen(Resized(os[i], T)) => T > os[i].filled /\ Resized(os[i], T).qty = T
          BY <2>2, ResizedIs
        <5>. QED BY <3>2, <4>1, <4>2, <5>1, <5>2
      <4>3. CASE os[i].parent # e
        <5>1. r[i] = Canceled(os[i]) \/ r[i] = os[i]
          BY <2>1, <4>3, Zenon DEF Settled, Children
        <5>. QED BY <2>2, <3>2, <4>1, <4>3, <5>1, CanceledIs
      <4>. QED BY <4>1, <4>2, <4>3
    <3>. QED BY <3>1, <3>2 DEF SameOrder
  <2>5. WorksWhole(r)
    BY <2>1, <2>4 DEF OcoInv, WorksWhole
  <2>6. GroupsAreBrackets(r)
    BY <2>1, <2>4 DEF OcoInv, GroupsAreBrackets
  <2>7. LegsAgree(r)
    <3>. SUFFICES ASSUME NEW j \in DOMAIN os, NEW k \in DOMAIN os, j # k,
                         r[j].group # Nobody, r[k].group = r[j].group
                  PROVE  /\ r[k].parent = r[j].parent
                         /\ isOpen(r[j]) /\ isOpen(r[k]) => r[j].qty = r[k].qty
                         /\ r[j].status = "FILLED" => ~isOpen(r[k])
      BY <2>1 DEF LegsAgree
    <3>1. /\ os[k].parent = os[j].parent
          /\ isOpen(os[j]) /\ isOpen(os[k]) => os[j].qty = os[k].qty
          /\ os[j].status = "FILLED" => ~isOpen(os[k])
      BY <2>4 DEF OcoInv, LegsAgree
    <3>. QED BY <2>4, <3>1
  <2>. QED BY <2>5, <2>6, <2>7 DEF OcoInv, r
<1>2. CASE Children(os, e) = {} /\ p = 0
  <2>1. r = os
    BY <1>2 DEF SyncEntry
  <2>. QED BY <2>1
<1>3. CASE Children(os, e) = {} /\ p # 0
  <2>1. r = createBracketLegs(os, e)
    BY <1>3 DEF SyncEntry
  <2>. HIDE DEF r
  <2>. DEFINE N == {Len(os) + 1, Len(os) + 2}
  <2>2. /\ r \in Seq(Order) /\ Len(r) = Len(os) + 2
        /\ \A j \in DOMAIN os : r[j] = os[j]
        /\ \A j \in N : /\ r[j].filled = 0 /\ r[j].status = "WORKING" /\ r[j].qty = os[e].filled
                        /\ r[j].parent = e /\ r[j].group = Len(os) + 1
    BY <2>1, LegsAreCreated
  <2>3. DOMAIN r = DOMAIN os \cup N /\ Len(os) \in Nat /\ e # Nobody /\ Len(os) + 1 # Nobody
    BY <2>2, NobodyAssumption
  <2>4. \A i \in DOMAIN os : os[i].group # Nobody => os[i].group # Len(os) + 1 /\ os[i].group <= Len(r)
    <3>. TAKE i \in DOMAIN os
    <3>1. os[i] \in Order
      OBVIOUS
    <3>2. os[i].group \in Nat \cup {Nobody}
      BY <3>1, OrderFields
    <3>. QED BY <2>2, <3>2 DEF OcoInv, GroupsAreBrackets
  <2>5. WorksWhole(r)
    <3>1. \A i \in DOMAIN os : isOpen(r[i]) => r[i].filled = 0 /\ r[i].qty > 0
      BY <2>2 DEF OcoInv, WorksWhole
    <3>2. \A i \in N : r[i].filled = 0 /\ r[i].qty > 0
      BY <2>2
    <3>. HIDE DEF N
    <3>. QED BY <2>3, <3>1, <3>2 DEF WorksWhole
  <2>6. GroupsAreBrackets(r)
    <3>1. \A i \in DOMAIN os : r[i].group # Nobody => r[i].group <= Len(r) /\ r[i].parent # Nobody
      BY <2>2, <2>4 DEF OcoInv, GroupsAreBrackets
    <3>2. \A i \in N : r[i].group <= Len(r) /\ r[i].parent # Nobody
      BY <2>2, <2>3
    <3>. HIDE DEF N
    <3>. QED BY <2>3, <3>1, <3>2 DEF GroupsAreBrackets
  <2>7. LegsAgree(r)
    <3>. SUFFICES ASSUME NEW j \in DOMAIN r, NEW k \in DOMAIN r, j # k,
                         r[j].group # Nobody, r[k].group = r[j].group
                  PROVE  /\ r[k].parent = r[j].parent
                         /\ isOpen(r[j]) /\ isOpen(r[k]) => r[j].qty = r[k].qty
                         /\ r[j].status = "FILLED" => ~isOpen(r[k])
      BY DEF LegsAgree
    <3>. HIDE DEF N
    <3>1. CASE j \in DOMAIN os /\ k \in DOMAIN os
      BY <2>2, <3>1 DEF OcoInv, LegsAgree
    <3>2. CASE j \in DOMAIN os /\ k \in N
      BY <2>2, <2>4, <3>2
    <3>3. CASE j \in N /\ k \in DOMAIN os
      BY <2>2, <2>3, <2>4, <3>3
    <3>4. CASE j \in N /\ k \in N
      BY <2>2, <3>4
    <3>. QED BY <2>3, <3>1, <3>2, <3>3, <3>4
  <2>. QED BY <2>5, <2>6, <2>7 DEF OcoInv, r
<1>. QED BY <1>1, <1>2, <1>3

LEMMA BracketsAgree ==
  ASSUME NEW os \in Seq(Order), NEW p \in Int, OcoInv(os)
  PROVE  OcoInv(syncBrackets(os, p))
<1>. DEFINE S == {r \in Seq(Order) : Later(os, r) /\ OcoInv(r)}
            R == (SUBSET DOMAIN os) \X S
<1>1. os \in S
  BY DEF Later, SameOrder
<1>2. \A acc \in S, e \in DOMAIN os : SyncStep(p, os, e, acc) \in S
  <2>. TAKE acc \in S, e \in DOMAIN os
  <2>1. CASE e \notin FilledEntries(os)
    BY <2>1 DEF SyncStep
  <2>2. CASE e \in FilledEntries(os)
    <3>. DEFINE t == SyncStep(p, os, e, acc)
                sole == FilledEntries(os) = {e}
    <3>1. t = SyncEntry(p, sole, acc, e)
      BY <2>2 DEF SyncStep
    <3>2. e \in DOMAIN acc /\ acc[e].filled > 0
      BY <2>2 DEF Later, FilledEntries
    <3>. HIDE DEF t, sole
    <3>3. t \in Seq(Order) /\ Later(acc, t) /\ OcoInv(t)
      BY <3>1, <3>2, EntrySyncs, EntryAgrees
    <3>4. Later(os, t)
      BY <3>3, LaterTwice
    <3>. QED BY <3>3, <3>4 DEF t
  <2>. QED BY <2>1, <2>2
<1>3. <<{}, os>> \in R
  BY <1>1
<1>4. \A U \in SUBSET DOMAIN os, acc \in S :
        U # {} /\ <<U \ {Max(U)}, acc>> \in R => <<U, SyncStep(p, os, Max(U), acc)>> \in R
  <2>. TAKE U \in SUBSET DOMAIN os, acc \in S
  <2>. HAVE U # {} /\ <<U \ {Max(U)}, acc>> \in R
  <2>1. Max(U) \in DOMAIN os
    <3>1. DOMAIN os = 1..Len(os) /\ Len(os) \in Nat
      OBVIOUS
    <3>. QED BY <3>1, MaxIsIn
  <2>2. SyncStep(p, os, Max(U), acc) \in S
    BY <1>2, <2>1
  <2>. QED BY <2>2
<1>. HIDE DEF S, R
<1>5. syncBrackets(os, p) \in S
  BY <1>1, <1>2, <1>3, <1>4, SyncStays
<1>. QED BY <1>5 DEF S

\* Protection of a position belongs to no group here, and is left to be.
LEMMA ProtectionAgrees ==
  ASSUME NEW os \in Seq(Order), NEW p \in Int, OcoInv(os)
  PROVE  OcoInv(syncProtection(os, p))
<1>. DEFINE r == syncProtection(os, p)
<1>1. /\ r \in Seq(Order) /\ Len(r) = Len(os) /\ Later(os, r)
      /\ \A i \in DOMAIN os : r[i] = Covering(os, p, i)
  BY ProtectionSyncs
<1>. HIDE DEF r
<1>2. DOMAIN r = DOMAIN os
  BY <1>1
<1>3. ASSUME NEW i \in DOMAIN os
      PROVE  /\ os[i].group # Nobody => r[i] = os[i]
             /\ r[i].group = os[i].group
             /\ isOpen(r[i]) => r[i].filled = 0 /\ r[i].qty > 0
  <2>1. os[i] \in Order /\ r[i] = Covering(os, p, i)
    BY <1>1
  <2>2. os[i].group # Nobody => os[i].parent # Nobody
    BY DEF OcoInv, GroupsAreBrackets
  <2>3. CASE Protective(os[i]) /\ os[i].parent = Nobody /\ isOpen(os[i])
    <3>1. PICK T \in Int : r[i] = Resized(os[i], T)
      <4>1. os[i].filled \in Int
        BY <2>1, OrderFields
      <4>2. (IF Sign(p) = -os[i].side THEN os[i].filled + Magnitude(p) ELSE os[i].filled) \in Int
        BY <4>1 DEF Magnitude
      <4>. QED BY <2>1, <2>3, <4>2 DEF Covering
    <3>2. os[i].filled = 0
      BY <2>3 DEF OcoInv, WorksWhole
    <3>3. /\ SameOrder(os[i], r[i]) /\ r[i].filled = os[i].filled
          /\ isOpen(r[i]) => T > os[i].filled /\ r[i].qty = T
      BY <2>1, <3>1, ResizedIs
    <3>. QED BY <2>2, <2>3, <3>2, <3>3 DEF SameOrder
  <2>4. CASE ~(Protective(os[i]) /\ os[i].parent = Nobody /\ isOpen(os[i]))
    <3>1. r[i] = os[i]
      BY <2>1, <2>4 DEF Covering
    <3>. QED BY <3>1 DEF OcoInv, WorksWhole
  <2>. QED BY <2>3, <2>4
<1>4. WorksWhole(r)
  BY <1>2, <1>3 DEF WorksWhole
<1>5. GroupsAreBrackets(r)
  BY <1>1, <1>2, <1>3 DEF OcoInv, GroupsAreBrackets
<1>6. LegsAgree(r)
  BY <1>2, <1>3 DEF OcoInv, LegsAgree
<1>. QED BY <1>4, <1>5, <1>6 DEF OcoInv, r

LEMMA SyncedAgrees ==
  ASSUME NEW s \in State, OcoInv(s.orders)
  PROVE  OcoInv(Synced(s).orders)
<1>. DEFINE b == syncBrackets(s.orders, s.pos)
            r == syncProtection(b, s.pos)
<1>1. s.orders \in Seq(Order) /\ s.pos \in Int
  BY DEF State
<1>2. b \in Seq(Order) /\ OcoInv(b)
  BY <1>1, BracketsSync, BracketsAgree
<1>3. OcoInv(r)
  <2>. HIDE DEF b
  <2>. QED BY <1>1, <1>2, ProtectionAgrees
<1>4. Synced(s).orders = r
  BY DEF Synced, State
<1>. QED BY <1>3, <1>4

LEMMA CancelsAgree ==
  ASSUME NEW os \in Seq(Order), OcoInv(os)
  PROVE  cancelAll(os) \in Seq(Order) /\ OcoInv(cancelAll(os))
<1>. DEFINE f == [i \in DOMAIN os |-> IF isOpen(os[i]) THEN Canceled(os[i]) ELSE os[i]]
            r == cancelAll(os)
<1>1. r = <<>> \o f
  BY DEF cancelAll, Every
<1>. HIDE DEF r
<1>2. \A i \in DOMAIN os : /\ f[i] \in Order /\ SameOrder(os[i], f[i]) /\ ~isOpen(f[i])
                           /\ f[i].status = "FILLED" => os[i].status = "FILLED"
  <2>. TAKE i \in DOMAIN os
  <2>1. os[i] \in Order
    OBVIOUS
  <2>2. CASE isOpen(os[i])
    BY <2>1, <2>2, CanceledIs
  <2>3. CASE ~isOpen(os[i])
    BY <2>1, <2>3 DEF SameOrder
  <2>. QED BY <2>2, <2>3
<1>3. f \in [DOMAIN os -> Order]
  BY <1>2
<1>4. /\ <<>> \o f = f /\ f \in Seq(Order) /\ Len(f) = Len(os) /\ DOMAIN f = DOMAIN os
  BY <1>3, EveryOfThem
<1>. HIDE DEF f
<1>5. Thinned(os, f)
  BY <1>2, <1>4 DEF Thinned, SameOrder
<1>6. r = f /\ OcoInv(f)
  BY <1>1, <1>4, <1>5, ThinnedAgrees
<1>. QED BY <1>4, <1>6 DEF r

LEMMA LiquidationAgrees ==
  ASSUME NEW s \in State, OcoInv(s.orders)
  PROVE  LiquidationOrders(s) \in Seq(Order) /\ OcoInv(LiquidationOrders(s))
<1>. DEFINE c == cancelAll(s.orders)
            qty == Magnitude(s.pos)
            o == closingOrder("liquidate", s.pos, qty)
<1>1. s.orders \in Seq(Order) /\ s.pos \in Int
  BY DEF State
<1>2. c \in Seq(Order) /\ OcoInv(c)
  BY <1>1, CancelsAgree
<1>3. CASE s.pos = 0
  BY <1>2, <1>3 DEF LiquidationOrders
<1>4. CASE s.pos # 0
  <2>1. LiquidationOrders(s) = Append(c, o)
    BY <1>4 DEF LiquidationOrders
  <2>2. qty \in Int /\ qty > 0 /\ "liquidate" \in Tags
    BY <1>1, <1>4 DEF Magnitude, Tags
  <2>. HIDE DEF qty
  <2>3. Working(o, "STANDALONE", "liquidate", -Sign(s.pos), "MARKET", 0, qty, Nobody, Nobody)
    BY <1>1, <1>4, <2>2, ClosingOrderIs
  <2>4. o \in Order /\ o.group = Nobody /\ o.filled = 0 /\ o.qty > 0
    BY <2>2, <2>3 DEF Working
  <2>. HIDE DEF c, o
  <2>. QED BY <1>2, <2>1, <2>4, AppendAgrees
<1>. QED BY <1>3, <1>4

LEMMA EnforceAgrees ==
  ASSUME FillCap = Nobody, NEW s \in State, NEW price \in Int, NEW st, OcoInv(s.orders),
         NEW r, r = enforce(s, st, price)
  PROVE  r \in State /\ OcoInv(r.orders)
<1>1. CASE st = "ACTIVE" \/ ~hasExposure(s)
  <2>1. r = s
    BY <1>1 DEF enforce
  <2>. QED BY <2>1
<1>2. CASE ~(st = "ACTIVE" \/ ~hasExposure(s))
  <2>. DEFINE L == LiquidationOrders(s)
              M == matchOrders(Quote(price), L, s.pos)
  <2>1. r = Synced(M)
    BY <1>2 DEF enforce
  <2>2. L \in Seq(Order) /\ OcoInv(L) /\ s.pos \in Int
    BY LiquidationAgrees DEF State
  <2>. HIDE DEF L
  <2>3. M \in State /\ OcoInv(M.orders)
    BY <2>2, QuoteIsObservation, OrdersMatch, MatchAgrees
  <2>. HIDE DEF M
  <2>. QED BY <2>1, <2>3, SyncedIs, SyncedAgrees
<1>. QED BY <1>1, <1>2

LEMMA CommitAgrees ==
  ASSUME NEW m \in Observation, NEW s \in State, NEW st, OcoInv(s.orders), Commit(m, s, st)
  PROVE  /\ orders' \in Seq(Order) /\ pos' \in Int /\ status' = st
         /\ OcoInv(orders')
<1>1. s.orders \in Seq(Order) /\ s.pos \in Int
  BY DEF State
<1>2. /\ orders' \in Seq(Order) /\ Len(orders') = Len(s.orders)
      /\ pos' = s.pos /\ status' = st
      /\ Later(s.orders, orders')
      /\ \A i \in DOMAIN s.orders : /\ orders'[i].qty = s.orders[i].qty
                                    /\ orders'[i].status = s.orders[i].status
  BY CommitIs
<1>3. Thinned(s.orders, orders')
  BY <1>2 DEF Thinned, Later, SameOrder
<1>. QED BY <1>1, <1>2, <1>3, ThinnedAgrees

LEMMA MatchedAgrees ==
  ASSUME FillCap = Nobody, NEW m \in Observation, NEW os \in Seq(Order), pos \in Int, OcoInv(os)
  PROVE  /\ Matched(m, os) \in State /\ OcoInv(Matched(m, os).orders)
         /\ Reconciled(os, Matched(m, os)) \in State
         /\ OcoInv(Reconciled(os, Matched(m, os)).orders)
<1>. DEFINE M == Matched(m, os)
<1>1. M \in State /\ OcoInv(M.orders)
  <2>1. CASE OpenIn(os) = {}
    BY <2>1, MatchedIs
  <2>2. CASE OpenIn(os) # {}
    BY <2>2, MatchedIs, MatchAgrees DEF Matched
  <2>. QED BY <2>1, <2>2
<1>. HIDE DEF M
<1>2. Reconciled(os, M) = M \/ Reconciled(os, M) = Synced(M)
  BY DEF Reconciled
<1>3. Synced(M) \in State /\ OcoInv(Synced(M).orders)
  BY <1>1, SyncedIs, SyncedAgrees
<1>. QED BY <1>1, <1>2, <1>3 DEF M

(* A pass that runs through, and one that a crash stops on its way.        *)
LEMMA PassAgrees ==
  ASSUME FillCap = Nobody, NEW m \in Observation, NEW os \in Seq(Order), pos \in Int,
         status \in Statuses, OcoInv(os), matchLocked(m, os) \/ stoppedMatch(m, os)
  PROVE  orders' \in Seq(Order) /\ pos' \in Int /\ status' \in Statuses /\ OcoInv(orders')
<1>. DEFINE M == Matched(m, os)
            c == Reconciled(os, M)
<1>1. M \in State /\ OcoInv(M.orders) /\ c \in State /\ OcoInv(c.orders)
  BY MatchedAgrees
<1>2. CASE matchLocked(m, os)
  <2>1. PICK st \in IF MayBreach(M.pos) THEN {status, "FAILED"} ELSE {status} :
          Commit(m, IF OpenIn(os) = {} /\ pos = 0 THEN M ELSE enforce(c, st, m.last), st)
    BY <1>2, Zenon DEF matchLocked
  <2>2. st \in Statuses
    BY <2>1 DEF Statuses
  <2>. DEFINE s == IF OpenIn(os) = {} /\ pos = 0 THEN M ELSE enforce(c, st, m.last)
  <2>. HIDE DEF M, c
  <2>3. m.last \in Int
    BY DEF Observation
  <2>4. s \in State /\ OcoInv(s.orders)
    <3>1. enforce(c, st, m.last) \in State /\ OcoInv(enforce(c, st, m.last).orders)
      BY <1>1, <2>3, EnforceAgrees
    <3>. QED BY <1>1, <3>1
  <2>. HIDE DEF s
  <2>5. Commit(m, s, st)
    BY <2>1 DEF s
  <2>. QED BY <2>2, <2>4, <2>5, CommitAgrees
<1>3. CASE stoppedMatch(m, os)
  <2>. DEFINE k == [c EXCEPT !.orders = cancelAll(@)]
  <2>1. Commit(m, M, status) \/ Commit(m, c, "FAILED") \/ Commit(m, k, "FAILED")
    BY <1>3, Zenon DEF stoppedMatch
  <2>. HIDE DEF M, c
  <2>2. k \in State /\ OcoInv(k.orders)
    <3>1. c.orders \in Seq(Order) /\ c.pos \in Int
      BY <1>1 DEF State
    <3>2. cancelAll(c.orders) \in Seq(Order) /\ OcoInv(cancelAll(c.orders))
      BY <1>1, <3>1, CancelsAgree
    <3>3. k = [orders |-> cancelAll(c.orders), pos |-> c.pos]
      BY <1>1 DEF State
    <3>. QED BY <3>1, <3>2, <3>3 DEF State
  <2>. HIDE DEF k
  <2>. QED BY <1>1, <2>1, <2>2, CommitAgrees DEF Statuses
<1>. QED BY <1>2, <1>3

-------------------------------------------------------------------------------
(* Every step of them *)

OcoIInv == EngineTypes /\ OcoInv(orders)

LEMMA PassIsWhole ==
  ASSUME FillCap = Nobody, OcoIInv, NEW m \in Observation, NEW os \in Seq(Order), OcoInv(os),
         matchLocked(m, os) \/ stoppedMatch(m, os), last' \in Levels
  PROVE  OcoIInv'
<1>1. orders' \in Seq(Order) /\ pos' \in Int /\ status' \in Statuses /\ OcoInv(orders')
  BY PassAgrees DEF OcoIInv, EngineTypes
<1>. QED BY <1>1 DEF OcoIInv, EngineTypes, OcoInv, WorksWhole, GroupsAreBrackets, LegsAgree

LEMMA ThinningIsWhole ==
  ASSUME OcoIInv, orders' \in Seq(Order), Thinned(orders, orders'), UNCHANGED <<pos, last, status>>
  PROVE  OcoIInv'
<1>1. OcoInv(orders')
  BY ThinnedAgrees DEF OcoIInv, EngineTypes
<1>. QED BY <1>1 DEF OcoIInv, EngineTypes, OcoInv, WorksWhole, GroupsAreBrackets, LegsAgree

LEMMA SubmitIsWhole ==
  ASSUME FillCap = Nobody, OcoIInv, NEW t \in Tickets, NEW at \in Levels, submitOrder(t, at)
  PROVE  OcoIInv'
<1>1. /\ orders \in Seq(Order) /\ OcoInv(orders) /\ last \in Levels /\ last' = last
      /\ matchLocked(Quote(last), Append(orders, NewOrder(t, at)))
  BY DEF OcoIInv, EngineTypes, submitOrder, NewOrder
<1>2. PICK role \in Roles : Working(NewOrder(t, at), role, "user", t.side, t.kind, at, t.qty, Nobody, Nobody)
  BY NewOrderIs, LevelsAreInts
<1>3. t.qty > 0
  BY TicketsAssumption
<1>4. /\ NewOrder(t, at) \in Order /\ NewOrder(t, at).filled = 0
      /\ NewOrder(t, at).group = Nobody /\ NewOrder(t, at).qty > 0
  BY <1>2, <1>3 DEF Working
<1>5. Append(orders, NewOrder(t, at)) \in Seq(Order) /\ OcoInv(Append(orders, NewOrder(t, at)))
  BY <1>1, <1>4, AppendAgrees
<1>6. Quote(last) \in Observation
  BY <1>1, LevelsAreInts, QuoteIsObservation
<1>. QED BY <1>1, <1>5, <1>6, PassIsWhole

LEMMA CloseIsWhole ==
  ASSUME FillCap = Nobody, OcoIInv, NEW tag \in {"flatten", "reverse"}, NEW qty \in Int, qty > 0,
         Close(tag, qty)
  PROVE  OcoIInv'
<1>. DEFINE bare == cancelProtective(orders)
            o == closingOrder(tag, pos, qty)
<1>1. /\ orders \in Seq(Order) /\ OcoInv(orders) /\ pos \in Int /\ pos # 0
      /\ last \in Levels /\ last' = last
  BY DEF OcoIInv, EngineTypes, Close
<1>2. /\ bare \in Seq(Order) /\ Len(bare) = Len(orders)
      /\ \A i \in DOMAIN orders : bare[i] \in {orders[i], Canceled(orders[i])}
  BY <1>1, ProtectiveAreCanceled
<1>3. matchLocked(Quote(last), Append(bare, o)) \/ (orders' = bare /\ UNCHANGED <<pos, status>>)
  BY DEF Close
<1>. HIDE DEF bare
<1>4. Thinned(orders, bare)
  <2>1. \A i \in DOMAIN orders : orders[i] \in Order
    BY <1>1
  <2>. QED BY <1>2, <2>1, CanceledIs DEF Thinned, SameOrder
<1>5. OcoInv(bare)
  BY <1>1, <1>2, <1>4, ThinnedAgrees
<1>6. CASE matchLocked(Quote(last), Append(bare, o))
  <2>1. Working(o, "STANDALONE", tag, -Sign(pos), "MARKET", 0, qty, Nobody, Nobody)
    BY <1>1, ClosingOrderIs DEF Tags
  <2>2. o \in Order /\ o.filled = 0 /\ o.group = Nobody /\ o.qty > 0
    BY <2>1 DEF Working
  <2>. HIDE DEF o
  <2>3. Append(bare, o) \in Seq(Order) /\ OcoInv(Append(bare, o))
    BY <1>2, <1>5, <2>2, AppendAgrees
  <2>4. Quote(last) \in Observation
    BY <1>1, LevelsAreInts, QuoteIsObservation
  <2>. QED BY <1>1, <1>6, <2>3, <2>4, PassIsWhole
<1>7. CASE orders' = bare /\ UNCHANGED <<pos, status>>
  BY <1>1, <1>2, <1>4, <1>7, ThinningIsWhole
<1>. QED BY <1>3, <1>6, <1>7

LEMMA CancelIsWhole ==
  ASSUME OcoIInv, NEW i \in DOMAIN orders, cancelOrder(i)
  PROVE  OcoIInv'
<1>1. /\ orders \in Seq(Order) /\ orders[i] \in Order
      /\ orders' = [orders EXCEPT ![i] = Canceled(orders[i])]
      /\ UNCHANGED <<pos, last, status>>
  BY DEF OcoIInv, EngineTypes, cancelOrder
<1>2. /\ Canceled(orders[i]) \in Order /\ SameOrder(orders[i], Canceled(orders[i]))
      /\ ~isOpen(Canceled(orders[i])) /\ Canceled(orders[i]).status = "CANCELED"
  BY <1>1, CanceledIs
<1>3. /\ orders' \in Seq(Order) /\ Len(orders') = Len(orders)
      /\ \A j \in DOMAIN orders : orders'[j] = IF j = i THEN Canceled(orders[i]) ELSE orders[j]
  BY <1>1, <1>2
<1>4. Thinned(orders, orders')
  BY <1>2, <1>3 DEF Thinned, SameOrder
<1>. QED BY <1>1, <1>3, <1>4, ThinningIsWhole

LEMMA ModifyIsWhole ==
  ASSUME FillCap = Nobody, "resize" \notin Abilities, OcoIInv,
         NEW i \in DOMAIN orders, NEW at \in Levels, NEW qty \in Nat, modifyOrder(i, at, qty)
  PROVE  OcoIInv'
<1>. DEFINE os == [orders EXCEPT ![i].at = at, ![i].qty = qty, ![i].rested = FALSE,
                     ![i].status = IF orders[i].filled >= qty THEN "FILLED" ELSE @]
<1>1. /\ orders \in Seq(Order) /\ OcoInv(orders) /\ last \in Levels /\ last' = last
      /\ isOpen(orders[i]) /\ qty = orders[i].qty /\ matchLocked(Quote(last), os)
  BY DEF OcoIInv, EngineTypes, modifyOrder
<1>1a. at \in Int /\ qty \in Int /\ os = ModifiedTable(i, at, qty)
  BY LevelsAreInts DEF ModifiedTable
<1>. HIDE DEF os
<1>2. /\ os \in Seq(Order) /\ DOMAIN os = DOMAIN orders /\ Len(os) = Len(orders)
      /\ \A j \in DOMAIN orders : os[j] = IF j = i THEN Modified(i, at, qty) ELSE orders[j]
      /\ SameOrder(orders[i], Modified(i, at, qty))
      /\ Modified(i, at, qty).filled = orders[i].filled
      /\ Modified(i, at, qty).qty = qty
      /\ Modified(i, at, qty).status = IF orders[i].filled >= qty THEN "FILLED" ELSE orders[i].status
  BY <1>1, <1>1a, ModifiedIs
<1>3. Modified(i, at, qty).status = orders[i].status
  <2>1. orders[i].filled = 0 /\ qty > 0
    BY <1>1 DEF OcoInv, WorksWhole
  <2>. QED BY <1>2, <2>1
<1>4. Thinned(orders, os)
  BY <1>1, <1>2, <1>3 DEF Thinned, SameOrder, isOpen
<1>5. OcoInv(os)
  BY <1>1, <1>2, <1>4, ThinnedAgrees
<1>6. Quote(last) \in Observation
  BY <1>1, LevelsAreInts, QuoteIsObservation
<1>. QED BY <1>1, <1>2, <1>5, <1>6, PassIsWhole

LEMMA MarketIsWhole ==
  ASSUME FillCap = Nobody, OcoIInv, NEW m \in Observation, last' \in Levels,
         matchLocked(m, orders) \/ stoppedMatch(m, orders)
  PROVE  OcoIInv'
<1>1. orders \in Seq(Order) /\ OcoInv(orders)
  BY DEF OcoIInv, EngineTypes
<1>. QED BY <1>1, PassIsWhole

LEMMA LatencyIsWhole ==
  ASSUME OcoIInv, LatencyElapses
  PROVE  OcoIInv'
<1>1. PICK i \in DOMAIN orders : /\ orders' = [orders EXCEPT ![i].eligible = TRUE]
                                 /\ UNCHANGED <<pos, last, status>>
  BY DEF LatencyElapses
<1>2. orders \in Seq(Order) /\ orders[i] \in Order
  BY DEF OcoIInv, EngineTypes
<1>. DEFINE o == [orders[i] EXCEPT !.eligible = TRUE]
<1>3. /\ o \in Order /\ o.group = orders[i].group /\ o.parent = orders[i].parent
      /\ o.filled = orders[i].filled /\ o.qty = orders[i].qty /\ o.status = orders[i].status
  BY <1>2 DEF Order
<1>4. orders' = [orders EXCEPT ![i] = o]
  BY <1>1
<1>. HIDE DEF o
<1>5. /\ orders' \in Seq(Order) /\ Len(orders') = Len(orders)
      /\ \A j \in DOMAIN orders : orders'[j] = IF j = i THEN o ELSE orders[j]
  BY <1>2, <1>3, <1>4
<1>6. Thinned(orders, orders')
  BY <1>3, <1>5 DEF Thinned, isOpen
<1>. QED BY <1>1, <1>5, <1>6, ThinningIsWhole

LEMMA StepIsWhole ==
  ASSUME FillCap = Nobody, "protect" \notin Abilities, "resize" \notin Abilities,
         OcoIInv, [Next]_vars
  PROVE  OcoIInv'
<1>1. pos \in Int /\ \A price \in Levels : Quote(price) \in Observation
  BY LevelsAreInts, QuoteIsObservation DEF OcoIInv, EngineTypes
<1>2. CASE Submit
  BY <1>2, SubmitIsWhole DEF Submit
<1>3. CASE Cancel
  BY <1>3, CancelIsWhole DEF Cancel
<1>4. CASE Modify
  <2>1. PICK i \in DOMAIN orders, at \in Levels, qty \in 1..MaxContracts : modifyOrder(i, at, qty)
    BY <1>4 DEF Modify
  <2>2. qty \in Nat
    BY SizesAssumption
  <2>. QED BY <2>1, <2>2, ModifyIsWhole
<1>5. CASE flatten \/ reverse
  <2>1. pos # 0
    BY <1>5 DEF flatten, reverse, Close
  <2>2. /\ Magnitude(pos) \in Int /\ Magnitude(pos) > 0
        /\ 2 * Magnitude(pos) \in Int /\ 2 * Magnitude(pos) > 0
    BY <1>1, <2>1 DEF Magnitude
  <2>3. Close("flatten", Magnitude(pos)) \/ Close("reverse", 2 * Magnitude(pos))
    BY <1>5 DEF flatten, reverse
  <2>. QED BY <2>2, <2>3, CloseIsWhole
<1>6. CASE QuoteArrives
  BY <1>1, <1>6, MarketIsWhole DEF QuoteArrives, onMarketEvent, Quote
<1>7. CASE BarCloses
  <2>1. PICK price \in Levels, lo \in Levels, hi \in Levels : onMarketEvent(Bar(price, lo, hi))
    BY <1>7 DEF BarCloses
  <2>2. Bar(price, lo, hi) \in Observation /\ Bar(price, lo, hi).last = price
    BY LevelsAreInts DEF Bar, Observation
  <2>. QED BY <2>1, <2>2, MarketIsWhole DEF onMarketEvent
<1>8. CASE Crash
  BY <1>1, <1>8, MarketIsWhole DEF Crash
<1>9. CASE LatencyElapses
  BY <1>9, LatencyIsWhole
<1>10. CASE UNCHANGED vars
  BY <1>10 DEF vars, OcoIInv, EngineTypes, OcoInv, WorksWhole, GroupsAreBrackets, LegsAgree
<1>11. ~SetProtection
  BY DEF SetProtection, setProtection
<1>. QED BY <1>2, <1>3, <1>4, <1>5, <1>6, <1>7, <1>8, <1>9, <1>10, <1>11 DEF Next

(* Where fills are whole and nobody regroups or resizes a leg, the two     *)
(* legs of a bracket stay the same size for as long as both work, whatever *)
(* is filled, synced, liquidated, modified or cut off by a crash: so the   *)
(* one that fills leaves the other with nothing to do.                     *)
THEOREM LegsStayEqual ==
  ASSUME FillCap = Nobody, "protect" \notin Abilities, "resize" \notin Abilities
  PROVE  Spec => []OcoIInv
<1>1. Init => OcoIInv
  <2>. SUFFICES ASSUME Init PROVE OcoIInv
    OBVIOUS
  <2>1. DOMAIN orders = {} /\ EngineTypes
    BY DEF Init, EngineTypes, Statuses
  <2>. QED BY <2>1 DEF OcoIInv, OcoInv, WorksWhole, GroupsAreBrackets, LegsAgree
<1>2. OcoIInv /\ [Next]_vars => OcoIInv'
  BY StepIsWhole
<1>. QED BY <1>1, <1>2, PTL DEF Spec

(* Once one leg of a bracket has completed the other works no longer, even *)
(* when the process stops right after the commit that filled it.           *)
THEOREM OneLegOnly ==
  ASSUME FillCap = Nobody, "protect" \notin Abilities, "resize" \notin Abilities
  PROVE  Spec => []OcoExclusive
<1>1. OcoIInv => OcoExclusive
  BY DEF OcoIInv, OcoInv, LegsAgree, OcoExclusive
<1>2. Spec => []OcoIInv
  BY LegsStayEqual
<1>. QED BY <1>1, <1>2, PTL

-------------------------------------------------------------------------------
(* Quantities *)

\* Of one order: what works has something left to do, and has done nothing
\* yet where fills are whole; what is complete has nothing left.
Sound(o) ==
  /\ isOpen(o) => 0 <= o.filled /\ o.filled < o.qty /\ (FillCap = Nobody => o.filled = 0)
  /\ o.status = "FILLED" => o.filled = o.qty
  /\ o.filled <= o.qty

AllSound(os) == \A i \in DOMAIN os : Sound(os[i])

LEMMA CanceledIsSound ==
  ASSUME NEW o \in Order, Sound(o)
  PROVE  Sound(Canceled(o))
<1>1. Canceled(o).qty = o.qty
  BY DEF Canceled, Order
<1>. QED BY <1>1, CanceledIs DEF Sound

LEMMA ResizedIsSound ==
  ASSUME NEW o \in Order, NEW target \in Int, Sound(o), isOpen(o)
  PROVE  Sound(Resized(o, target))
<1>1. o.filled \in Int
  BY OrderFields
<1>2. CASE target <= o.filled
  BY <1>2, CanceledIsSound DEF Resized
<1>3. CASE ~(target <= o.filled)
  <2>1. Resized(o, target) = [o EXCEPT !.qty = target]
    BY <1>3 DEF Resized
  <2>2. Resized(o, target).filled = o.filled /\ Resized(o, target).qty = target
        /\ Resized(o, target).status = o.status
    BY <2>1, RequantifiedIs
  <2>. QED BY <1>1, <1>3, <2>2 DEF Sound, isOpen
<1>. QED BY <1>2, <1>3

LEMMA AppendIsSound ==
  ASSUME NEW os \in Seq(Order), NEW o \in Order, AllSound(os),
         o.filled = 0, o.qty > 0, o.status = "WORKING", NEW r, r = Append(os, o)
  PROVE  r \in Seq(Order) /\ AllSound(r)
<1>1. Sound(o)
  BY OrderFields DEF Sound
<1>2. /\ r \in Seq(Order) /\ DOMAIN r = DOMAIN os \cup {Len(os) + 1}
      /\ \A j \in DOMAIN os : r[j] = os[j]
      /\ r[Len(os) + 1] = o
  BY Appended
<1>. QED BY <1>1, <1>2 DEF AllSound

LEMMA MatchOneIsSound ==
  ASSUME NEW m \in Observation, NEW s \in State, NEW i \in DOMAIN s.orders, AllSound(s.orders)
  PROVE  AllSound(MatchOne(m, s, i).orders)
<1>. DEFINE os == s.orders
            r == MatchOne(m, s, i)
<1>1. os \in Seq(Order) /\ \A j \in DOMAIN os : os[j] \in Order
  BY DEF State
<1>2. CASE r = s
  BY <1>2
<1>3. CASE r # s
  <2>0. isOpen(os[i])
    BY <1>3, MatchOneIs
  <2>1. PICK q \in Nat \ {0}, p \in Order :
          /\ q <= remainingQty(os[i])
          /\ FillCap = Nobody => q = remainingQty(os[i])
          /\ Executed(os[i], p, q)
          /\ r = [orders |-> ReduceSiblings([os EXCEPT ![i] = p], i, q),
                  pos |-> s.pos + os[i].side * q]
    BY <1>3, MatchOneIs
  <2>. DEFINE os1 == [os EXCEPT ![i] = p]
              rs == ReduceSiblings(os1, i, q)
  <2>2. os1 \in Seq(Order) /\ DOMAIN os1 = DOMAIN os /\ i \in DOMAIN os1
    BY <1>1
  <2>3. \A j \in DOMAIN os : os1[j] = IF j = i THEN p ELSE os[j]
    BY <1>1
  <2>. HIDE DEF os1
  <2>4. DOMAIN rs = DOMAIN os /\ \A j \in DOMAIN os : rs[j] = LeftOver(os1, i, q, j)
    <3>1. q \in Int
      OBVIOUS
    <3>2. DOMAIN rs = DOMAIN os1
      BY <2>2, <3>1, SiblingsReduced
    <3>3. \A j \in DOMAIN os1 : rs[j] = LeftOver(os1, i, q, j)
      BY <2>2, <3>1, SiblingsReduced
    <3>. HIDE DEF rs
    <3>. QED BY <2>2, <3>2, <3>3, Zenon
  <2>. HIDE DEF rs
  <2>5. Sound(p)
    <3>1. os[i].filled \in Int /\ os[i].qty \in Int /\ Sound(os[i])
      BY <1>1, OrderFields DEF AllSound
    <3>2. p.filled = os[i].filled + q /\ p.qty = os[i].qty /\ q <= os[i].qty - os[i].filled
          /\ (FillCap = Nobody => q = os[i].qty - os[i].filled)
          /\ p.status = IF p.filled >= p.qty THEN "FILLED" ELSE "PARTIALLY_FILLED"
      BY <2>1 DEF Executed, remainingQty
    <3>. QED BY <2>0, <3>1, <3>2 DEF Sound, isOpen
  <2>6. ASSUME NEW j \in DOMAIN os PROVE Sound(rs[j])
    <3>1. os1[j] \in Order /\ Sound(os1[j]) /\ os1[j].qty - q \in Int /\ os1[j].filled \in Int
      <4>1. os1[j] \in Order /\ Sound(os1[j])
        BY <1>1, <2>3, <2>5 DEF AllSound
      <4>. QED BY <4>1, OrderFields
    <3>2. rs[j] = LeftOver(os1, i, q, j)
      BY <2>4
    <3>3. CASE j \notin Siblings(os1, i)
      BY <3>1, <3>2, <3>3 DEF LeftOver
    <3>4. CASE j \in Siblings(os1, i)
      <4>1. isOpen(os1[j])
        BY <3>4 DEF Siblings, OpenIn
      <4>2. rs[j] = Resized(os1[j], os1[j].qty - q)
        BY <3>2, <3>4, Zenon DEF LeftOver, Resized
      <4>. QED BY <3>1, <4>1, <4>2, ResizedIsSound
    <3>. QED BY <3>3, <3>4
  <2>. QED BY <2>1, <2>4, <2>6 DEF AllSound, rs, os1
<1>. QED BY <1>2, <1>3

LEMMA MatchIsSound ==
  ASSUME NEW m \in Observation, NEW os \in Seq(Order), NEW p \in Int, AllSound(os)
  PROVE  AllSound(matchOrders(m, os, p).orders)
<1>. DEFINE S == {s \in State : DOMAIN s.orders = DOMAIN os /\ AllSound(s.orders)}
            s0 == [orders |-> os, pos |-> p]
            s1 == MatchThose(m, os, s0, TRUE)
<1>1. s0 \in S
  BY DEF State
<1>2. \A acc \in S, i \in DOMAIN os : MatchOne(m, acc, i) \in S
  BY MatchOneMatches, MatchOneIsSound DEF Matches
<1>. HIDE DEF S
<1>3. s1 \in S
  BY <1>1, <1>2, MatchThoseStays
<1>4. matchOrders(m, os, p) \in S
  BY <1>2, <1>3, MatchThoseStays DEF matchOrders
<1>. QED BY <1>4 DEF S

LEMMA EntryIsSound ==
  ASSUME NEW p \in Int, NEW sole, NEW os \in Seq(Order), NEW e \in DOMAIN os, AllSound(os),
         os[e].filled > 0
  PROVE  AllSound(SyncEntry(p, sole, os, e))
<1>. DEFINE r == SyncEntry(p, sole, os, e)
<1>1. CASE Children(os, e) # {}
  <2>1. DOMAIN r = DOMAIN os /\ \A i \in DOMAIN os : r[i] = Settled(p, sole, os, e, i)
    <3>1. r \in Seq(Order) /\ Len(r) = Len(os)
      BY <1>1, EntrySettles
    <3>2. \A i \in DOMAIN os : r[i] = Settled(p, sole, os, e, i)
      BY <1>1, EntrySettles
    <3>. HIDE DEF r
    <3>. QED BY <3>1, <3>2
  <2>2. ASSUME NEW i \in DOMAIN os PROVE Sound(Settled(p, sole, os, e, i))
    <3>1. os[i] \in Order /\ Sound(os[i]) /\ SyncTarget(p, sole, os, e, i) \in Int
      BY SyncTargetIsInt DEF AllSound
    <3>2. \/ isOpen(os[i]) /\ Settled(p, sole, os, e, i) = Resized(os[i], SyncTarget(p, sole, os, e, i))
          \/ Settled(p, sole, os, e, i) = Canceled(os[i])
          \/ Settled(p, sole, os, e, i) = os[i]
      BY Zenon DEF Settled
    <3>. QED BY <3>1, <3>2, ResizedIsSound, CanceledIsSound
  <2>. QED BY <2>1, <2>2, Zenon DEF AllSound
<1>2. CASE Children(os, e) = {} /\ p = 0
  BY <1>2 DEF SyncEntry
<1>3. CASE Children(os, e) = {} /\ p # 0
  <2>1. r = createBracketLegs(os, e)
    BY <1>3 DEF SyncEntry
  <2>. HIDE DEF r
  <2>. DEFINE N == {Len(os) + 1, Len(os) + 2}
  <2>2. /\ r \in Seq(Order) /\ Len(r) = Len(os) + 2
        /\ \A j \in DOMAIN os : r[j] = os[j]
        /\ \A j \in N : r[j].filled = 0 /\ r[j].status = "WORKING" /\ r[j].qty = os[e].filled
    BY <2>1, LegsAreCreated
  <2>3. DOMAIN r = DOMAIN os \cup N
    BY <2>2
  <2>4. \A j \in N : Sound(r[j])
    <3>1. os[e] \in Order
      OBVIOUS
    <3>2. os[e].filled \in Int
      BY <3>1, OrderFields
    <3>. QED BY <2>2, <3>2 DEF Sound
  <2>. HIDE DEF N
  <2>. QED BY <2>2, <2>3, <2>4 DEF AllSound, r
<1>. QED BY <1>1, <1>2, <1>3

LEMMA SyncedIsSound ==
  ASSUME NEW s \in State, AllSound(s.orders)
  PROVE  AllSound(Synced(s).orders)
<1>. DEFINE os == s.orders
            p == s.pos
            b == syncBrackets(os, p)
            t == syncProtection(b, p)
            S == {r \in Seq(Order) : Later(os, r) /\ AllSound(r)}
            R == (SUBSET DOMAIN os) \X S
<1>0. os \in Seq(Order) /\ p \in Int
  BY DEF State
<1>1. os \in S
  BY <1>0 DEF Later, SameOrder
<1>2. \A acc \in S, e \in DOMAIN os : SyncStep(p, os, e, acc) \in S
  <2>. TAKE acc \in S, e \in DOMAIN os
  <2>1. CASE e \notin FilledEntries(os)
    BY <2>1 DEF SyncStep
  <2>2. CASE e \in FilledEntries(os)
    <3>. DEFINE u == SyncStep(p, os, e, acc)
                sole == FilledEntries(os) = {e}
    <3>1. u = SyncEntry(p, sole, acc, e)
      BY <2>2 DEF SyncStep
    <3>2. e \in DOMAIN acc /\ acc[e].filled > 0
      BY <1>0, <2>2 DEF Later, FilledEntries
    <3>. HIDE DEF u, sole, p, os
    <3>3. u \in Seq(Order) /\ Later(acc, u) /\ AllSound(u)
      BY <1>0, <3>1, <3>2, EntrySyncs, EntryIsSound
    <3>4. Later(os, u)
      BY <1>0, <3>3, LaterTwice
    <3>. QED BY <3>3, <3>4 DEF u
  <2>. QED BY <2>1, <2>2
<1>3. <<{}, os>> \in R
  BY <1>1
<1>4. \A U \in SUBSET DOMAIN os, acc \in S :
        U # {} /\ <<U \ {Max(U)}, acc>> \in R => <<U, SyncStep(p, os, Max(U), acc)>> \in R
  <2>. TAKE U \in SUBSET DOMAIN os, acc \in S
  <2>. HAVE U # {} /\ <<U \ {Max(U)}, acc>> \in R
  <2>1. Max(U) \in DOMAIN os
    <3>1. DOMAIN os = 1..Len(os) /\ Len(os) \in Nat
      BY <1>0
    <3>. QED BY <3>1, MaxIsIn
  <2>2. SyncStep(p, os, Max(U), acc) \in S
    BY <1>2, <2>1
  <2>. QED BY <2>2
<1>5. b \in S
  <2>. HIDE DEF S, R, p, os
  <2>. QED BY <1>0, <1>1, <1>2, <1>3, <1>4, SyncStays
<1>. HIDE DEF b, p, os
<1>6. DOMAIN t = DOMAIN b /\ \A i \in DOMAIN b : t[i] = Covering(b, p, i)
  <2>1. t \in Seq(Order) /\ Len(t) = Len(b) /\ \A i \in DOMAIN b : t[i] = Covering(b, p, i)
    BY <1>0, <1>5, ProtectionSyncs
  <2>. HIDE DEF t
  <2>. QED BY <1>5, <2>1
<1>7. ASSUME NEW i \in DOMAIN b PROVE Sound(t[i])
  <2>1. b[i] \in Order /\ Sound(b[i]) /\ b[i].filled \in Int
    <3>1. b[i] \in Order /\ Sound(b[i])
      BY <1>5 DEF AllSound
    <3>. QED BY <3>1, OrderFields
  <2>2. (IF Sign(p) = -b[i].side THEN b[i].filled + Magnitude(p) ELSE b[i].filled) \in Int
    BY <1>0, <2>1 DEF Magnitude
  <2>3. t[i] = b[i] \/ \E T \in Int : isOpen(b[i]) /\ t[i] = Resized(b[i], T)
    BY <1>6, <2>2, Zenon DEF Covering
  <2>. QED BY <2>1, <2>3, ResizedIsSound
<1>8. AllSound(t)
  BY <1>6, <1>7 DEF AllSound
<1>9. Synced(s).orders = t
  BY DEF Synced, State, b, p, os
<1>. QED BY <1>8, <1>9

LEMMA CancelsAreSound ==
  ASSUME NEW os \in Seq(Order), AllSound(os)
  PROVE  cancelAll(os) \in Seq(Order) /\ AllSound(cancelAll(os))
<1>. DEFINE f == [i \in DOMAIN os |-> IF isOpen(os[i]) THEN Canceled(os[i]) ELSE os[i]]
<1>1. cancelAll(os) = <<>> \o f
  BY DEF cancelAll, Every
<1>2. \A i \in DOMAIN os : f[i] \in Order /\ Sound(f[i])
  <2>. TAKE i \in DOMAIN os
  <2>1. os[i] \in Order /\ Sound(os[i])
    BY DEF AllSound
  <2>2. CASE isOpen(os[i])
    BY <2>1, <2>2, CanceledIs, CanceledIsSound
  <2>3. CASE ~isOpen(os[i])
    BY <2>1, <2>3
  <2>. QED BY <2>2, <2>3
<1>3. f \in [DOMAIN os -> Order]
  BY <1>2
<1>4. /\ <<>> \o f = f /\ f \in Seq(Order) /\ DOMAIN f = DOMAIN os
  BY <1>3, EveryOfThem
<1>. HIDE DEF f
<1>. QED BY <1>1, <1>2, <1>4 DEF AllSound

LEMMA EnforceIsSound ==
  ASSUME NEW s \in State, NEW price \in Int, NEW st, AllSound(s.orders),
         NEW r, r = enforce(s, st, price)
  PROVE  r \in State /\ AllSound(r.orders)
<1>1. CASE st = "ACTIVE" \/ ~hasExposure(s)
  <2>1. r = s
    BY <1>1 DEF enforce
  <2>. QED BY <2>1
<1>2. CASE ~(st = "ACTIVE" \/ ~hasExposure(s))
  <2>. DEFINE c == cancelAll(s.orders)
              qty == Magnitude(s.pos)
              o == closingOrder("liquidate", s.pos, qty)
              L == LiquidationOrders(s)
              M == matchOrders(Quote(price), L, s.pos)
  <2>1. r = Synced(M)
    BY <1>2 DEF enforce
  <2>2. s.orders \in Seq(Order) /\ s.pos \in Int
    BY DEF State
  <2>3. c \in Seq(Order) /\ AllSound(c)
    BY <2>2, CancelsAreSound
  <2>4. L \in Seq(Order) /\ AllSound(L)
    <3>1. CASE s.pos = 0
      BY <2>3, <3>1 DEF LiquidationOrders
    <3>2. CASE s.pos # 0
      <4>1. L = Append(c, o)
        BY <3>2 DEF LiquidationOrders
      <4>2. qty \in Int /\ qty > 0 /\ "liquidate" \in Tags
        BY <2>2, <3>2 DEF Magnitude, Tags
      <4>. HIDE DEF qty
      <4>3. Working(o, "STANDALONE", "liquidate", -Sign(s.pos), "MARKET", 0, qty, Nobody, Nobody)
        BY <2>2, <3>2, <4>2, ClosingOrderIs
      <4>4. o \in Order /\ o.filled = 0 /\ o.qty > 0 /\ o.status = "WORKING"
        BY <4>2, <4>3 DEF Working
      <4>. HIDE DEF c, o, L
      <4>. QED BY <2>3, <4>1, <4>4, AppendIsSound
    <3>. QED BY <3>1, <3>2
  <2>. HIDE DEF L
  <2>5. M \in State /\ AllSound(M.orders)
    BY <2>2, <2>4, QuoteIsObservation, OrdersMatch, MatchIsSound
  <2>. HIDE DEF M
  <2>. QED BY <2>1, <2>5, SyncedIs, SyncedIsSound
<1>. QED BY <1>1, <1>2

LEMMA CommitIsSound ==
  ASSUME NEW m \in Observation, NEW s \in State, NEW st, AllSound(s.orders), Commit(m, s, st)
  PROVE  /\ orders' \in Seq(Order) /\ pos' \in Int /\ status' = st
         /\ AllSound(orders')
<1>1. s.orders \in Seq(Order) /\ s.pos \in Int
  BY DEF State
<1>2. /\ orders' \in Seq(Order) /\ Len(orders') = Len(s.orders)
      /\ pos' = s.pos /\ status' = st
      /\ Later(s.orders, orders')
      /\ \A i \in DOMAIN s.orders : /\ orders'[i].qty = s.orders[i].qty
                                    /\ orders'[i].status = s.orders[i].status
  BY CommitIs
<1>3. \A i \in DOMAIN s.orders : Sound(orders'[i])
  BY <1>2 DEF Later, AllSound, Sound, isOpen
<1>4. DOMAIN orders' = DOMAIN s.orders
  BY <1>1, <1>2
<1>. QED BY <1>1, <1>2, <1>3, <1>4 DEF AllSound

LEMMA PassIsSound ==
  ASSUME NEW m \in Observation, NEW os \in Seq(Order), pos \in Int,
         status \in Statuses, AllSound(os), matchLocked(m, os) \/ stoppedMatch(m, os)
  PROVE  orders' \in Seq(Order) /\ pos' \in Int /\ status' \in Statuses /\ AllSound(orders')
<1>. DEFINE M == Matched(m, os)
            c == Reconciled(os, M)
<1>1. M \in State /\ AllSound(M.orders)
  <2>1. CASE OpenIn(os) = {}
    BY <2>1, MatchedIs
  <2>2. CASE OpenIn(os) # {}
    BY <2>2, MatchedIs, MatchIsSound DEF Matched
  <2>. QED BY <2>1, <2>2
<1>. HIDE DEF M
<1>2. c \in State /\ AllSound(c.orders)
  <2>1. c = M \/ c = Synced(M)
    BY DEF Reconciled
  <2>. QED BY <1>1, <2>1, SyncedIs, SyncedIsSound
<1>3. CASE matchLocked(m, os)
  <2>1. PICK st \in IF MayBreach(M.pos) THEN {status, "FAILED"} ELSE {status} :
          Commit(m, IF OpenIn(os) = {} /\ pos = 0 THEN M ELSE enforce(c, st, m.last), st)
    BY <1>3, Zenon DEF matchLocked, M
  <2>2. st \in Statuses
    BY <2>1 DEF Statuses
  <2>. DEFINE s == IF OpenIn(os) = {} /\ pos = 0 THEN M ELSE enforce(c, st, m.last)
  <2>. HIDE DEF c
  <2>3. m.last \in Int
    BY DEF Observation
  <2>4. s \in State /\ AllSound(s.orders)
    <3>1. enforce(c, st, m.last) \in State /\ AllSound(enforce(c, st, m.last).orders)
      BY <1>2, <2>3, EnforceIsSound
    <3>. QED BY <1>1, <3>1
  <2>. HIDE DEF s
  <2>5. Commit(m, s, st)
    BY <2>1 DEF s
  <2>. QED BY <2>2, <2>4, <2>5, CommitIsSound
<1>4. CASE stoppedMatch(m, os)
  <2>. DEFINE k == [c EXCEPT !.orders = cancelAll(@)]
  <2>1. Commit(m, M, status) \/ Commit(m, c, "FAILED") \/ Commit(m, k, "FAILED")
    BY <1>4, Zenon DEF stoppedMatch, M
  <2>. HIDE DEF c
  <2>2. k \in State /\ AllSound(k.orders)
    <3>1. c.orders \in Seq(Order) /\ c.pos \in Int
      BY <1>2 DEF State
    <3>2. cancelAll(c.orders) \in Seq(Order) /\ AllSound(cancelAll(c.orders))
      BY <1>2, <3>1, CancelsAreSound
    <3>3. k = [orders |-> cancelAll(c.orders), pos |-> c.pos]
      BY <1>2 DEF State
    <3>. QED BY <3>1, <3>2, <3>3 DEF State
  <2>. HIDE DEF k
  <2>. QED BY <1>1, <1>2, <2>1, <2>2, CommitIsSound DEF Statuses
<1>. QED BY <1>3, <1>4

QuantitiesInv == EngineTypes /\ AllSound(orders)

LEMMA SoundPassKeeps ==
  ASSUME QuantitiesInv, NEW m \in Observation, NEW os \in Seq(Order), AllSound(os),
         matchLocked(m, os) \/ stoppedMatch(m, os), last' \in Levels
  PROVE  QuantitiesInv'
<1>1. orders' \in Seq(Order) /\ pos' \in Int /\ status' \in Statuses /\ AllSound(orders')
  BY PassIsSound DEF QuantitiesInv, EngineTypes
<1>. QED BY <1>1 DEF QuantitiesInv, EngineTypes, AllSound

LEMMA SubmitIsSound ==
  ASSUME QuantitiesInv, NEW t \in Tickets, NEW at \in Levels, submitOrder(t, at)
  PROVE  QuantitiesInv'
<1>1. /\ orders \in Seq(Order) /\ AllSound(orders) /\ last \in Levels /\ last' = last
      /\ matchLocked(Quote(last), Append(orders, NewOrder(t, at)))
  BY DEF QuantitiesInv, EngineTypes, submitOrder, NewOrder
<1>2. PICK role \in Roles : Working(NewOrder(t, at), role, "user", t.side, t.kind, at, t.qty, Nobody, Nobody)
  BY NewOrderIs, LevelsAreInts
<1>3. t.qty > 0
  BY TicketsAssumption
<1>4. /\ NewOrder(t, at) \in Order /\ NewOrder(t, at).filled = 0
      /\ NewOrder(t, at).qty > 0 /\ NewOrder(t, at).status = "WORKING"
  BY <1>2, <1>3 DEF Working
<1>5. Append(orders, NewOrder(t, at)) \in Seq(Order) /\ AllSound(Append(orders, NewOrder(t, at)))
  BY <1>1, <1>4, AppendIsSound
<1>6. Quote(last) \in Observation
  BY <1>1, LevelsAreInts, QuoteIsObservation
<1>. QED BY <1>1, <1>5, <1>6, SoundPassKeeps

LEMMA CloseIsSound ==
  ASSUME QuantitiesInv, NEW tag \in {"flatten", "reverse"}, NEW qty \in Int, qty > 0, Close(tag, qty)
  PROVE  QuantitiesInv'
<1>. DEFINE bare == cancelProtective(orders)
            o == closingOrder(tag, pos, qty)
<1>1. /\ orders \in Seq(Order) /\ AllSound(orders) /\ pos \in Int /\ pos # 0
      /\ last \in Levels /\ last' = last /\ status \in Statuses
  BY DEF QuantitiesInv, EngineTypes, Close
<1>2. /\ bare \in Seq(Order) /\ Len(bare) = Len(orders)
      /\ \A i \in DOMAIN orders : bare[i] \in {orders[i], Canceled(orders[i])}
  BY <1>1, ProtectiveAreCanceled
<1>3. matchLocked(Quote(last), Append(bare, o)) \/ (orders' = bare /\ UNCHANGED <<pos, status>>)
  BY DEF Close
<1>. HIDE DEF bare
<1>4. AllSound(bare)
  <2>1. \A i \in DOMAIN orders : orders[i] \in Order /\ Sound(orders[i])
    BY <1>1 DEF AllSound
  <2>2. DOMAIN bare = DOMAIN orders
    BY <1>1, <1>2
  <2>. QED BY <1>2, <2>1, <2>2, CanceledIsSound DEF AllSound
<1>5. CASE matchLocked(Quote(last), Append(bare, o))
  <2>1. Working(o, "STANDALONE", tag, -Sign(pos), "MARKET", 0, qty, Nobody, Nobody)
    BY <1>1, ClosingOrderIs DEF Tags
  <2>2. o \in Order /\ o.filled = 0 /\ o.qty > 0 /\ o.status = "WORKING"
    BY <2>1 DEF Working
  <2>. HIDE DEF o
  <2>3. Append(bare, o) \in Seq(Order) /\ AllSound(Append(bare, o))
    BY <1>2, <1>4, <2>2, AppendIsSound
  <2>4. Quote(last) \in Observation
    BY <1>1, LevelsAreInts, QuoteIsObservation
  <2>. QED BY <1>1, <1>5, <2>3, <2>4, SoundPassKeeps
<1>6. CASE orders' = bare /\ UNCHANGED <<pos, status>>
  BY <1>1, <1>2, <1>4, <1>6 DEF QuantitiesInv, EngineTypes, AllSound
<1>. QED BY <1>3, <1>5, <1>6

\* A step that changes one order of the table, which stays sound.
LEMMA OneChangeIsSound ==
  ASSUME QuantitiesInv, NEW i \in DOMAIN orders, NEW o \in Order, Sound(o),
         orders' = [orders EXCEPT ![i] = o], UNCHANGED <<pos, last, status>>
  PROVE  QuantitiesInv'
<1>1. orders \in Seq(Order) /\ AllSound(orders)
  BY DEF QuantitiesInv, EngineTypes
<1>2. /\ orders' \in Seq(Order) /\ DOMAIN orders' = DOMAIN orders
      /\ \A j \in DOMAIN orders : orders'[j] = IF j = i THEN o ELSE orders[j]
  BY <1>1
<1>3. AllSound(orders')
  BY <1>1, <1>2 DEF AllSound
<1>. QED BY <1>2, <1>3 DEF QuantitiesInv, EngineTypes, AllSound

LEMMA CancelIsSound ==
  ASSUME QuantitiesInv, NEW i \in DOMAIN orders, cancelOrder(i)
  PROVE  QuantitiesInv'
<1>1. /\ orders[i] \in Order /\ Sound(orders[i])
      /\ orders' = [orders EXCEPT ![i] = Canceled(orders[i])]
      /\ UNCHANGED <<pos, last, status>>
  BY DEF QuantitiesInv, EngineTypes, AllSound, cancelOrder
<1>2. Canceled(orders[i]) \in Order /\ Sound(Canceled(orders[i]))
  BY <1>1, CanceledIs, CanceledIsSound
<1>. QED BY <1>1, <1>2, OneChangeIsSound

LEMMA ModifyIsSound ==
  ASSUME QuantitiesInv, NEW i \in DOMAIN orders, NEW at \in Levels, NEW qty \in Nat, modifyOrder(i, at, qty)
  PROVE  QuantitiesInv'
<1>. DEFINE os == [orders EXCEPT ![i].at = at, ![i].qty = qty, ![i].rested = FALSE,
                     ![i].status = IF orders[i].filled >= qty THEN "FILLED" ELSE @]
<1>1. /\ orders \in Seq(Order) /\ AllSound(orders) /\ last \in Levels /\ last' = last
      /\ isOpen(orders[i]) /\ qty >= orders[i].filled /\ matchLocked(Quote(last), os)
  BY DEF QuantitiesInv, EngineTypes, modifyOrder
<1>1a. at \in Int /\ qty \in Int /\ os = ModifiedTable(i, at, qty)
  BY LevelsAreInts DEF ModifiedTable
<1>. HIDE DEF os
<1>2. /\ os \in Seq(Order) /\ DOMAIN os = DOMAIN orders /\ Len(os) = Len(orders)
      /\ \A j \in DOMAIN orders : os[j] = IF j = i THEN Modified(i, at, qty) ELSE orders[j]
      /\ SameOrder(orders[i], Modified(i, at, qty))
      /\ Modified(i, at, qty).filled = orders[i].filled
      /\ Modified(i, at, qty).qty = qty
      /\ Modified(i, at, qty).status = IF orders[i].filled >= qty THEN "FILLED" ELSE orders[i].status
  BY <1>1, <1>1a, ModifiedIs
<1>3. Sound(Modified(i, at, qty))
  <2>1. orders[i] \in Order /\ Sound(orders[i])
    BY <1>1 DEF AllSound
  <2>2. orders[i].filled \in Int
    BY <2>1, OrderFields
  <2>3. CASE orders[i].filled >= qty
    <3>1. Modified(i, at, qty).status = "FILLED" /\ Modified(i, at, qty).filled = qty
      BY <1>1, <1>2, <2>2, <2>3
    <3>. QED BY <1>2, <3>1 DEF Sound, isOpen
  <2>4. CASE ~(orders[i].filled >= qty)
    BY <1>1, <1>2, <2>1, <2>2, <2>4 DEF Sound, isOpen
  <2>. QED BY <2>3, <2>4
<1>4. AllSound(os)
  BY <1>1, <1>2, <1>3 DEF AllSound
<1>5. Quote(last) \in Observation
  BY <1>1, LevelsAreInts, QuoteIsObservation
<1>. QED BY <1>1, <1>2, <1>4, <1>5, SoundPassKeeps

LEMMA ProtectionIsSound ==
  ASSUME QuantitiesInv, FillCap = Nobody, NEW stop \in Requests, NEW target \in Requests,
         setProtection(stop, target)
  PROVE  QuantitiesInv'
<1>1. EngineTypes /\ orders \in Seq(Order) /\ pos \in Int /\ last \in Levels /\ last' = last /\ pos # 0
  BY DEF QuantitiesInv, EngineTypes, setProtection
<1>2. PICK os \in Seq(Order) :
        /\ matchLocked(Quote(last), os)
        /\ Grown(orders, os)
        /\ \A i \in DOMAIN orders :
             \/ os[i] = orders[i]
             \/ Protective(orders[i]) /\ isOpen(orders[i]) /\ Changed(orders[i], os[i])
        /\ \A i \in DOMAIN os \ DOMAIN orders : Asked(os[i])
  BY <1>1, ProtectionTable
<1>3. ASSUME NEW i \in DOMAIN os PROVE Sound(os[i])
  <2>0. os[i] \in Order /\ os[i].qty \in Int
    <3>1. os[i] \in Order
      OBVIOUS
    <3>. QED BY <3>1, OrderFields
  <2>1. CASE i \notin DOMAIN orders
    BY <1>2, <2>0, <2>1 DEF Asked, Sound
  <2>2. CASE i \in DOMAIN orders
    <3>1. Sound(orders[i])
      BY <2>2 DEF QuantitiesInv, AllSound
    <3>2. CASE os[i] = orders[i]
      BY <3>1, <3>2
    <3>3. CASE isOpen(orders[i]) /\ Changed(orders[i], os[i])
      <4>1. orders[i].filled = 0 /\ orders[i].qty > 0
        BY <3>1, <3>3 DEF Sound
      <4>2. Magnitude(pos) > 0
        BY <1>1 DEF Magnitude
      <4>. QED BY <2>0, <3>3, <4>1, <4>2 DEF Changed, Sound, isOpen
    <3>. QED BY <1>2, <2>2, <3>2, <3>3
  <2>. QED BY <2>1, <2>2
<1>4. Quote(last) \in Observation
  BY <1>1, LevelsAreInts, QuoteIsObservation
<1>. QED BY <1>1, <1>2, <1>3, <1>4, SoundPassKeeps DEF AllSound

LEMMA MarketIsSound ==
  ASSUME QuantitiesInv, NEW m \in Observation, last' \in Levels,
         matchLocked(m, orders) \/ stoppedMatch(m, orders)
  PROVE  QuantitiesInv'
<1>1. orders \in Seq(Order) /\ AllSound(orders)
  BY DEF QuantitiesInv, EngineTypes
<1>. QED BY <1>1, SoundPassKeeps

LEMMA LatencyIsSound ==
  ASSUME QuantitiesInv, LatencyElapses
  PROVE  QuantitiesInv'
<1>1. PICK i \in DOMAIN orders : /\ orders' = [orders EXCEPT ![i].eligible = TRUE]
                                 /\ UNCHANGED <<pos, last, status>>
  BY DEF LatencyElapses
<1>2. orders[i] \in Order /\ Sound(orders[i])
  BY DEF QuantitiesInv, EngineTypes, AllSound
<1>. DEFINE o == [orders[i] EXCEPT !.eligible = TRUE]
<1>3. o \in Order /\ o.filled = orders[i].filled /\ o.qty = orders[i].qty /\ o.status = orders[i].status
  BY <1>2 DEF Order
<1>4. orders' = [orders EXCEPT ![i] = o]
  BY <1>1
<1>. HIDE DEF o
<1>5. Sound(o)
  BY <1>2, <1>3 DEF Sound, isOpen
<1>. QED BY <1>1, <1>3, <1>4, <1>5, OneChangeIsSound

LEMMA StepIsSound ==
  ASSUME "protect" \in Abilities => FillCap = Nobody, QuantitiesInv, [Next]_vars
  PROVE  QuantitiesInv'
<1>1. pos \in Int /\ \A price \in Levels : Quote(price) \in Observation
  BY LevelsAreInts, QuoteIsObservation DEF QuantitiesInv, EngineTypes
<1>2. CASE Submit
  BY <1>2, SubmitIsSound DEF Submit
<1>3. CASE Cancel
  BY <1>3, CancelIsSound DEF Cancel
<1>4. CASE Modify
  <2>1. PICK i \in DOMAIN orders, at \in Levels, qty \in 1..MaxContracts : modifyOrder(i, at, qty)
    BY <1>4 DEF Modify
  <2>2. qty \in Nat
    BY SizesAssumption
  <2>. QED BY <2>1, <2>2, ModifyIsSound
<1>5. CASE flatten \/ reverse
  <2>1. pos # 0
    BY <1>5 DEF flatten, reverse, Close
  <2>2. /\ Magnitude(pos) \in Int /\ Magnitude(pos) > 0
        /\ 2 * Magnitude(pos) \in Int /\ 2 * Magnitude(pos) > 0
    BY <1>1, <2>1 DEF Magnitude
  <2>3. Close("flatten", Magnitude(pos)) \/ Close("reverse", 2 * Magnitude(pos))
    BY <1>5 DEF flatten, reverse
  <2>. QED BY <2>2, <2>3, CloseIsSound
<1>6. CASE SetProtection
  <2>1. PICK stop \in Requests, target \in Requests : setProtection(stop, target)
    BY <1>6 DEF SetProtection
  <2>2. "protect" \in Abilities
    BY <2>1 DEF setProtection
  <2>. QED BY <2>1, <2>2, ProtectionIsSound
<1>7. CASE QuoteArrives
  BY <1>1, <1>7, MarketIsSound DEF QuoteArrives, onMarketEvent, Quote
<1>8. CASE BarCloses
  <2>1. PICK price \in Levels, lo \in Levels, hi \in Levels : onMarketEvent(Bar(price, lo, hi))
    BY <1>8 DEF BarCloses
  <2>2. Bar(price, lo, hi) \in Observation /\ Bar(price, lo, hi).last = price
    BY LevelsAreInts DEF Bar, Observation
  <2>. QED BY <2>1, <2>2, MarketIsSound DEF onMarketEvent
<1>9. CASE Crash
  BY <1>1, <1>9, MarketIsSound DEF Crash
<1>10. CASE LatencyElapses
  BY <1>10, LatencyIsSound
<1>11. CASE UNCHANGED vars
  BY <1>11 DEF vars, QuantitiesInv, EngineTypes, AllSound
<1>. QED BY <1>2, <1>3, <1>4, <1>5, <1>6, <1>7, <1>8, <1>9, <1>10, <1>11 DEF Next

(* No order ever fills for more than its quantity, and none works on with  *)
(* nothing left to do: across partial fills, OCO reductions, brackets that *)
(* follow the position, modifications and crashes.  Protection that is     *)
(* moved onto a leg part of which has filled is the exception, so fills    *)
(* have to be whole where positions are protected.                         *)
THEOREM QuantitiesHold ==
  ASSUME "protect" \in Abilities => FillCap = Nobody
  PROVE  Spec => [](TypeOK /\ FilledWithinQty)
<1>1. Init => QuantitiesInv
  <2>. SUFFICES ASSUME Init PROVE QuantitiesInv
    OBVIOUS
  <2>1. DOMAIN orders = {} /\ EngineTypes
    BY DEF Init, EngineTypes, Statuses
  <2>. QED BY <2>1 DEF QuantitiesInv, AllSound
<1>2. QuantitiesInv /\ [Next]_vars => QuantitiesInv'
  BY StepIsSound
<1>3. QuantitiesInv => TypeOK /\ FilledWithinQty
  <2>. SUFFICES ASSUME QuantitiesInv PROVE TypeOK /\ FilledWithinQty
    OBVIOUS
  <2>1. \A o \in Range(orders) : Sound(o)
    BY DEF QuantitiesInv, AllSound, Range
  <2>. QED BY <2>1 DEF QuantitiesInv, EngineTypes, Statuses, TypeOK, FilledWithinQty, Sound
<1>. QED BY <1>1, <1>2, <1>3, PTL DEF Spec

-------------------------------------------------------------------------------
(* The stop of the only bracket *)

(* One fill: what it adds to the order, to the position, and what it takes *)
(* off the siblings.                                                       *)
Reduced(o, p, q) ==
  /\ p.filled = o.filled
  /\ p = o \/ (isOpen(o) /\ (isOpen(p) => p.qty = o.qty - q /\ p.qty > p.filled))

LEMMA MatchOneFills ==
  ASSUME NEW m \in Observation, NEW s \in State, NEW i \in DOMAIN s.orders,
         NEW r, r = MatchOne(m, s, i), r # s
  PROVE  \E q \in Nat \ {0} :
           /\ isOpen(s.orders[i]) /\ s.orders[i].eligible
           /\ q <= remainingQty(s.orders[i])
           /\ FillCap = Nobody => q = remainingQty(s.orders[i])
           /\ r \in State /\ DOMAIN r.orders = DOMAIN s.orders
           /\ r.pos = s.pos + s.orders[i].side * q
           /\ Executed(s.orders[i], r.orders[i], q)
           /\ \A j \in DOMAIN s.orders : SameOrder(s.orders[j], r.orders[j])
           /\ \A j \in DOMAIN s.orders \ {i} :
                /\ Reduced(s.orders[j], r.orders[j], q)
                /\ s.orders[j].group = s.orders[i].group /\ s.orders[i].group # Nobody
                     /\ isOpen(s.orders[j]) /\ isOpen(r.orders[j])
                   => r.orders[j].qty = s.orders[j].qty - q
<1>. DEFINE os == s.orders
<1>1. os \in Seq(Order) /\ s.pos \in Int /\ \A j \in DOMAIN os : os[j] \in Order
  BY DEF State
<1>2. isOpen(os[i]) /\ os[i].eligible
  BY MatchOneIs
<1>3. PICK q \in Nat \ {0}, p \in Order :
        /\ q <= remainingQty(os[i])
        /\ FillCap = Nobody => q = remainingQty(os[i])
        /\ Executed(os[i], p, q)
        /\ r = [orders |-> ReduceSiblings([os EXCEPT ![i] = p], i, q),
                pos |-> s.pos + os[i].side * q]
  <2>1. MatchOne(m, s, i) # s
    OBVIOUS
  <2>2. PICK q \in Nat \ {0}, p \in Order :
          /\ q <= remainingQty(os[i])
          /\ FillCap = Nobody => q = remainingQty(os[i])
          /\ Executed(os[i], p, q)
          /\ MatchOne(m, s, i) = [orders |-> ReduceSiblings([os EXCEPT ![i] = p], i, q),
                                  pos |-> s.pos + os[i].side * q]
    BY <2>1, MatchOneIs
  <2>. QED BY <2>2
<1>. DEFINE os1 == [os EXCEPT ![i] = p]
            rs == ReduceSiblings(os1, i, q)
<1>4. /\ os1 \in Seq(Order) /\ DOMAIN os1 = DOMAIN os /\ i \in DOMAIN os1
      /\ \A j \in DOMAIN os : os1[j] = IF j = i THEN p ELSE os[j]
  BY <1>1
<1>. HIDE DEF os1
<1>5. /\ rs \in Seq(Order) /\ DOMAIN rs = DOMAIN os
      /\ \A j \in DOMAIN os : rs[j] = LeftOver(os1, i, q, j)
  <2>1. q \in Int
    OBVIOUS
  <2>2. rs \in Seq(Order) /\ DOMAIN rs = DOMAIN os1
    BY <1>4, <2>1, SiblingsReduced
  <2>3. \A j \in DOMAIN os1 : rs[j] = LeftOver(os1, i, q, j)
    BY <1>4, <2>1, SiblingsReduced
  <2>. HIDE DEF rs
  <2>. QED BY <1>4, <2>2, <2>3, Zenon
<1>6. r.orders = rs /\ r.pos = s.pos + os[i].side * q
  BY <1>3 DEF rs, os1
<1>. HIDE DEF rs
<1>7. rs[i] = p
  BY <1>4, <1>5 DEF LeftOver, Siblings
<1>8. ASSUME NEW j \in DOMAIN os \ {i}
      PROVE  /\ SameOrder(os[j], rs[j]) /\ Reduced(os[j], rs[j], q)
             /\ os[j].group = os[i].group /\ os[i].group # Nobody /\ isOpen(os[j]) /\ isOpen(rs[j])
                => rs[j].qty = os[j].qty - q
  <2>0. os1[j] = os[j] /\ os[j] \in Order /\ os[j].qty - q \in Int
    BY <1>1, <1>4, OrderFields
  <2>1. CASE j \notin Siblings(os1, i)
    <3>1. rs[j] = os[j]
      BY <1>5, <2>0, <2>1 DEF LeftOver
    <3>2. os1[i].group = os[i].group
      BY <1>3, <1>4 DEF Executed, SameOrder
    <3>3. ~(os[j].group = os[i].group /\ os[i].group # Nobody /\ isOpen(os[j]))
      BY <1>4, <2>0, <2>1, <3>2 DEF Siblings, OpenIn
    <3>. QED BY <3>1, <3>3 DEF SameOrder, Reduced
  <2>2. CASE j \in Siblings(os1, i) /\ os[j].qty - q <= os[j].filled
    <3>1. rs[j] = Canceled(os[j]) /\ isOpen(os[j])
      BY <1>5, <2>0, <2>2 DEF LeftOver, Siblings, OpenIn
    <3>. QED BY <2>0, <3>1, CanceledIs DEF Reduced
  <2>3. CASE j \in Siblings(os1, i) /\ ~(os[j].qty - q <= os[j].filled)
    <3>1. rs[j] = [os[j] EXCEPT !.qty = os[j].qty - q] /\ isOpen(os[j])
      BY <1>5, <2>0, <2>3 DEF LeftOver, Siblings, OpenIn
    <3>2. SameOrder(os[j], rs[j]) /\ rs[j].filled = os[j].filled /\ rs[j].qty = os[j].qty - q
      BY <2>0, <3>1, RequantifiedIs
    <3>3. os[j].filled \in Int
      BY <2>0, OrderFields
    <3>. QED BY <2>0, <2>3, <3>1, <3>2, <3>3 DEF Reduced
  <2>. QED BY <2>0, <2>1, <2>2, <2>3
<1>9. SameOrder(os[i], rs[i]) /\ Executed(os[i], rs[i], q)
  BY <1>3, <1>7 DEF Executed
<1>10. r \in State
  BY <1>1, <1>2, MatchOneMatches
<1>. QED BY <1>2, <1>3, <1>5, <1>6, <1>8, <1>9, <1>10

\* Only bracketed entries were ever sent, and none has filled.
Unopened(os) == \A i \in DOMAIN os : os[i].role = "ENTRY" /\ os[i].filled = 0

\* The entry e has its bracket, and what works of it covers the position.
Covered(os, p, e) ==
  /\ Children(os, e) # {}
  /\ \A i \in Children(os, e) : isOpen(os[i]) => remainingQty(os[i]) = Magnitude(p)

CoversPosition(os, p) ==
  /\ FilledEntries(os) = {} => p = 0 /\ Unopened(os)
  /\ \A e \in FilledEntries(os) : FilledEntries(os) = {e} => Covered(os, p, e)

\* The first fills of a table that had none are the position.
Opens(s) ==
  /\ FilledEntries(s.orders) = {} => s.pos = 0
  /\ \A e \in FilledEntries(s.orders) :
       FilledEntries(s.orders) = {e} => s.pos = s.orders[e].side * s.orders[e].filled

LEMMA MatchOpens ==
  ASSUME NEW m \in Observation, NEW os \in Seq(Order), Unopened(os),
         NEW M, M = matchOrders(m, os, 0)
  PROVE  Opens(M) /\ \A j \in DOMAIN os : M.orders[j].filled >= 0
<1>. DEFINE S == {s \in State : /\ DOMAIN s.orders = DOMAIN os
                                /\ \A j \in DOMAIN os : /\ s.orders[j].role = "ENTRY"
                                                        /\ s.orders[j].filled >= 0
                                /\ Opens(s)}
            s0 == [orders |-> os, pos |-> 0]
            s1 == MatchThose(m, os, s0, TRUE)
<1>1. s0 \in S
  <2>1. s0 \in State /\ s0.orders = os /\ s0.pos = 0
    BY DEF State
  <2>2. FilledEntries(os) = {}
    BY DEF FilledEntries, Unopened
  <2>3. Opens(s0)
    BY <2>1, <2>2 DEF Opens
  <2>. QED BY <2>1, <2>3 DEF Unopened
<1>2. \A s \in S, i \in DOMAIN os : MatchOne(m, s, i) \in S
  <2>. TAKE s \in S, i \in DOMAIN os
  <2>. DEFINE r == MatchOne(m, s, i)
              t == s.orders
  <2>0. s \in State /\ i \in DOMAIN s.orders
    OBVIOUS
  <2>1. CASE r = s
    BY <2>1
  <2>2. CASE r # s
    <3>1. PICK q \in Nat \ {0} :
            /\ r \in State /\ DOMAIN r.orders = DOMAIN t /\ r.pos = s.pos + t[i].side * q
            /\ Executed(t[i], r.orders[i], q)
            /\ \A j \in DOMAIN t : SameOrder(t[j], r.orders[j])
            /\ \A j \in DOMAIN t \ {i} : Reduced(t[j], r.orders[j], q)
      <4>. HIDE DEF r, S
      <4>. QED BY <2>0, <2>2, MatchOneFills DEF r
    <3>. HIDE DEF r
    <3>2. \A j \in DOMAIN t : t[j] \in Order /\ t[j].filled \in Int
      BY <2>0, OrderFields DEF State
    <3>3. \A j \in DOMAIN t : /\ r.orders[j].role = "ENTRY"
                              /\ r.orders[j].side = t[j].side
                              /\ r.orders[j].filled = IF j = i THEN t[j].filled + q ELSE t[j].filled
      BY <3>1 DEF Executed, SameOrder, Reduced
    <3>4. FilledEntries(r.orders) = FilledEntries(t) \cup {i}
      BY <2>0, <3>1, <3>2, <3>3 DEF FilledEntries
    <3>5. t[i].side \in {1, -1} /\ s.pos \in Int /\ t[i].filled \in Int
      BY <2>0, <3>2, OrderFields DEF Sides, State
    <3>6. Opens(r)
      <4>1. CASE FilledEntries(t) = {}
        <5>1. s.pos = 0 /\ t[i].filled = 0
          BY <2>0, <4>1, <3>5 DEF Opens, FilledEntries
        <5>2. r.orders[i].filled = q /\ r.orders[i].side = t[i].side /\ r.pos = t[i].side * q
          BY <2>0, <3>1, <3>3, <3>5, <5>1
        <5>. QED BY <3>4, <4>1, <5>2 DEF Opens
      <4>2. CASE FilledEntries(t) = {i}
        <5>1. s.pos = t[i].side * t[i].filled
          BY <4>2 DEF Opens
        <5>2. r.orders[i].filled = t[i].filled + q /\ r.orders[i].side = t[i].side
          BY <2>0, <3>3
        <5>3. r.pos = t[i].side * t[i].filled + t[i].side * q
          BY <3>1, <5>1
        <5>4. t[i].side * t[i].filled + t[i].side * q = t[i].side * (t[i].filled + q)
          BY <3>5
        <5>5. r.pos = r.orders[i].side * r.orders[i].filled
          BY <5>2, <5>3, <5>4
        <5>. QED BY <3>4, <4>2, <5>5 DEF Opens
      <4>3. CASE FilledEntries(t) # {} /\ FilledEntries(t) # {i}
        <5>1. \A e : FilledEntries(r.orders) # {e}
          BY <3>4, <4>3
        <5>. QED BY <3>4, <5>1 DEF Opens
      <4>. QED BY <4>1, <4>2, <4>3
    <3>7. \A j \in DOMAIN os : r.orders[j].filled >= 0
      BY <3>2, <3>3
    <3>. QED BY <3>1, <3>3, <3>6, <3>7 DEF r
  <2>. QED BY <2>1, <2>2
<1>. HIDE DEF S
<1>3. s1 \in S
  BY <1>1, <1>2, MatchThoseStays
<1>4. M \in S
  BY <1>2, <1>3, MatchThoseStays DEF matchOrders
<1>. QED BY <1>4 DEF S

\* Reconciling creates and resizes; which entries have filled it leaves.
LEMMA FilledEntriesStay ==
  ASSUME NEW os \in Seq(Order), NEW r \in Seq(Order), Later(os, r)
  PROVE  FilledEntries(r) = FilledEntries(os)
<1>1. DOMAIN os \subseteq DOMAIN r
  BY DEF Later
<1>. QED BY <1>1 DEF FilledEntries, Later, SameOrder

LEMMA SameLength ==
  ASSUME NEW os \in Seq(Order), NEW r \in Seq(Order), Len(r) = Len(os)
  PROVE  DOMAIN r = DOMAIN os
OBVIOUS

LEMMA TwoMore ==
  ASSUME NEW os \in Seq(Order), NEW r \in Seq(Order), Len(r) = Len(os) + 2
  PROVE  DOMAIN r = DOMAIN os \cup {Len(os) + 1, Len(os) + 2}
<1>1. DOMAIN r = 1..(Len(os) + 2) /\ DOMAIN os = 1..Len(os) /\ Len(os) \in Nat
  OBVIOUS
<1>. QED BY <1>1

LEMMA EntryCovers ==
  ASSUME NEW p \in Int, NEW sole, sole = TRUE, NEW os \in Seq(Order), NEW e \in DOMAIN os,
         Children(os, e) # {} \/ (p # 0 /\ Magnitude(p) = os[e].filled),
         NEW r, r = SyncEntry(p, sole, os, e)
  PROVE  Covered(r, p, e)
<1>1. CASE Children(os, e) # {}
  <2>1. \A i \in DOMAIN os : r[i] = Settled(p, sole, os, e, i)
    <3>1. \A i \in DOMAIN os : SyncEntry(p, sole, os, e)[i] = Settled(p, sole, os, e, i)
      BY <1>1, EntrySettles
    <3>. QED BY <3>1, Zenon
  <2>2. DOMAIN r = DOMAIN os
    <3>1. SyncEntry(p, sole, os, e) \in Seq(Order)
      BY <1>1, EntrySettles
    <3>2. Len(SyncEntry(p, sole, os, e)) = Len(os)
      BY <1>1, EntrySettles
    <3>. QED BY <3>1, <3>2, SameLength, Zenon
  <2>2a. \A i \in DOMAIN os : /\ r[i].parent = os[i].parent /\ r[i].filled = os[i].filled
                              /\ isOpen(r[i]) => isOpen(os[i])
    <3>. TAKE i \in DOMAIN os
    <3>1. /\ SameOrder(os[i], Settled(p, sole, os, e, i))
          /\ Settled(p, sole, os, e, i).filled = os[i].filled
          /\ isOpen(Settled(p, sole, os, e, i)) => isOpen(os[i])
      BY SettledIs
    <3>2. r[i] = Settled(p, sole, os, e, i)
      BY <2>1
    <3>. QED BY <3>1, <3>2, Zenon DEF SameOrder
  <2>3. Children(r, e) = Children(os, e)
    BY <2>2, <2>2a, Zenon DEF Children
  <2>4. ASSUME NEW i \in Children(os, e), isOpen(r[i]) PROVE remainingQty(r[i]) = Magnitude(p)
    <3>. DEFINE protect == IF Sign(p) = os[e].side THEN Magnitude(p) ELSE 0
    <3>1. i \in DOMAIN os /\ os[i] \in Order /\ os[i].filled \in Int
      BY OrderFields DEF Children
    <3>2. isOpen(os[i])
      BY <2>2a, <2>4, <3>1, Zenon
    <3>3. r[i] = Resized(os[i], SyncTarget(p, sole, os, e, i))
      BY <2>1, <3>1, <3>2 DEF Settled
    <3>4. SyncTarget(p, sole, os, e, i) = os[i].filled + protect
      BY Zenon DEF SyncTarget
    <3>5. protect \in Int
      BY DEF Magnitude
    <3>6. os[i].filled + protect \in Int
      BY <3>1, <3>5
    <3>7. /\ r[i].filled = os[i].filled /\ os[i].filled + protect > os[i].filled
          /\ r[i].qty = os[i].filled + protect
      <4>. DEFINE t == os[i].filled + protect
      <4>1. r[i] = Resized(os[i], t)
        BY <3>3, <3>4, Zenon
      <4>2. t \in Int
        BY <3>6
      <4>. HIDE DEF t
      <4>3. r[i].filled = os[i].filled /\ t > os[i].filled /\ r[i].qty = t
        BY <2>4, <3>1, <4>1, <4>2, ResizedIs
      <4>. QED BY <4>3 DEF t
    <3>8. protect # 0 => protect = Magnitude(p)
      OBVIOUS
    <3>. HIDE DEF protect
    <3>9. protect # 0 /\ r[i].qty - r[i].filled = protect
      BY <3>1, <3>5, <3>7
    <3>. QED BY <3>8, <3>9 DEF remainingQty
  <2>. QED BY <1>1, <2>3, <2>4 DEF Covered
<1>2. CASE Children(os, e) = {}
  <2>1. r = createBracketLegs(os, e) /\ Magnitude(p) = os[e].filled
    BY <1>2 DEF SyncEntry
  <2>2. /\ r \in Seq(Order) /\ Len(r) = Len(os) + 2
        /\ \A j \in DOMAIN os : r[j] = os[j]
        /\ \A j \in {Len(os) + 1, Len(os) + 2} :
              r[j].filled = 0 /\ r[j].qty = os[e].filled /\ r[j].parent = e
    BY <2>1, LegsAreCreated
  <2>3. DOMAIN r = DOMAIN os \cup {Len(os) + 1, Len(os) + 2}
    <3>1. r \in Seq(Order) /\ Len(r) = Len(os) + 2
      BY <2>2
    <3>. QED BY <3>1, TwoMore, Zenon
  <2>4. Children(r, e) = {Len(os) + 1, Len(os) + 2}
    BY <1>2, <2>2, <2>3 DEF Children
  <2>5. os[e].filled \in Int
    <3>1. os[e] \in Order
      OBVIOUS
    <3>. QED BY <3>1, OrderFields
  <2>. QED BY <2>1, <2>2, <2>4, <2>5 DEF Covered, remainingQty
<1>. QED BY <1>1, <1>2

LEMMA SyncedCovers ==
  ASSUME NEW s \in State, NEW e, FilledEntries(s.orders) = {e},
         Children(s.orders, e) # {} \/ (s.pos # 0 /\ Magnitude(s.pos) = s.orders[e].filled)
  PROVE  Covered(Synced(s).orders, s.pos, e)
<1>. DEFINE os == s.orders
            p == s.pos
            S == {r \in Seq(Order) : Later(os, r) /\ (r = os \/ Covered(r, p, e))}
            R == {x \in (SUBSET DOMAIN os) \X S : e \in x[1] => Covered(x[2], p, e)}
            b == syncBrackets(os, p)
            r == syncProtection(b, p)
<1>1. os \in Seq(Order) /\ p \in Int /\ e \in DOMAIN os
  BY DEF State, FilledEntries
<1>. HIDE DEF os, p
<1>2. FilledEntries(os) = {e} /\ (Children(os, e) # {} \/ (p # 0 /\ Magnitude(p) = os[e].filled))
  BY DEF os, p
<1>3. os \in S
  BY <1>1 DEF Later, SameOrder
<1>4. \A acc \in S, d \in DOMAIN os : /\ SyncStep(p, os, d, acc) \in S
                                      /\ d # e => SyncStep(p, os, d, acc) = acc
                                      /\ d = e => Covered(SyncStep(p, os, d, acc), p, e)
  <2>. TAKE acc \in S, d \in DOMAIN os
  <2>1. CASE d # e
    <3>1. d \notin FilledEntries(os)
      BY <1>2, <2>1
    <3>. QED BY <2>1, <3>1 DEF SyncStep
  <2>2. CASE d = e
    <3>. DEFINE t == SyncStep(p, os, d, acc)
                sole == FilledEntries(os) = {e}
    <3>0. acc \in Seq(Order) /\ Later(os, acc) /\ (acc = os \/ Covered(acc, p, e))
      OBVIOUS
    <3>1. t = SyncEntry(p, sole, acc, e)
      BY <1>2, <2>2 DEF SyncStep
    <3>2. sole = TRUE /\ e \in DOMAIN acc
      BY <1>1, <1>2, <3>0 DEF Later
    <3>. HIDE DEF t, sole, S
    <3>3. Children(acc, e) # {} \/ (p # 0 /\ Magnitude(p) = acc[e].filled)
      BY <1>2, <3>0 DEF Covered
    <3>4. Covered(t, p, e)
      BY <1>1, <3>0, <3>1, <3>2, <3>3, EntryCovers
    <3>5. t \in Seq(Order) /\ Later(acc, t)
      BY <1>1, <3>0, <3>1, <3>2, EntrySyncs
    <3>6. Later(os, t)
      BY <1>1, <3>0, <3>5, LaterTwice
    <3>7. t \in S
      BY <3>4, <3>5, <3>6 DEF S
    <3>. QED BY <2>2, <3>4, <3>7 DEF t
  <2>. QED BY <2>1, <2>2
<1>5. <<{}, os>> \in R
  BY <1>3
<1>6. \A U \in SUBSET DOMAIN os, acc \in S :
        U # {} /\ <<U \ {Max(U)}, acc>> \in R => <<U, SyncStep(p, os, Max(U), acc)>> \in R
  <2>. TAKE U \in SUBSET DOMAIN os, acc \in S
  <2>. HAVE U # {} /\ <<U \ {Max(U)}, acc>> \in R
  <2>1. Max(U) \in U
    <3>1. DOMAIN os = 1..Len(os) /\ Len(os) \in Nat
      BY <1>1
    <3>. QED BY <3>1, MaxIsIn
  <2>. DEFINE t == SyncStep(p, os, Max(U), acc)
  <2>2. /\ t \in S /\ (Max(U) # e => t = acc) /\ (Max(U) = e => Covered(t, p, e))
    BY <1>4, <2>1
  <2>3. e \in U \ {Max(U)} => Covered(acc, p, e)
    OBVIOUS
  <2>. HIDE DEF t, S
  <2>4. e \in U => Covered(t, p, e)
    BY <2>2, <2>3
  <2>. QED BY <2>2, <2>4 DEF t
<1>7. b \in S /\ <<DOMAIN os, b>> \in R
  <2>. HIDE DEF S, R
  <2>. QED BY <1>1, <1>3, <1>4, <1>5, <1>6, SyncStays
<1>. HIDE DEF b
<1>8. b \in Seq(Order) /\ Covered(b, p, e)
  BY <1>1, <1>7
<1>9. /\ r \in Seq(Order) /\ Len(r) = Len(b) /\ Later(b, r)
      /\ \A i \in DOMAIN b : r[i] = Covering(b, p, i)
  BY <1>1, <1>8, ProtectionSyncs
<1>. HIDE DEF r
<1>10. Covered(r, p, e)
  <2>1. DOMAIN r = DOMAIN b
    BY <1>8, <1>9
  <2>2. Children(r, e) = Children(b, e)
    BY <1>9, <2>1 DEF Children, Later, SameOrder
  <2>3. \A i \in Children(b, e) : r[i] = b[i]
    <3>1. e # Nobody
      BY <1>1, NobodyAssumption
    <3>. QED BY <1>9, <3>1 DEF Covering, Children
  <2>. QED BY <1>8, <2>2, <2>3 DEF Covered
<1>11. Synced(s).orders = r
  BY DEF Synced, State, r, b, os, p
<1>. QED BY <1>10, <1>11 DEF p

\* Where nothing has filled there is nothing to create a bracket for.
LEMMA SyncedUnopened ==
  ASSUME NEW s \in State, FilledEntries(s.orders) = {}
  PROVE  Len(Synced(s).orders) = Len(s.orders)
<1>. DEFINE os == s.orders
            p == s.pos
            b == syncBrackets(os, p)
            S == {os}
            R == (SUBSET DOMAIN os) \X {os}
<1>1. os \in Seq(Order) /\ p \in Int
  BY DEF State
<1>2. \A acc \in S, d \in DOMAIN os : SyncStep(p, os, d, acc) \in S
  BY DEF SyncStep
<1>3. b \in S
  <2>1. os \in S /\ <<{}, os>> \in R
    OBVIOUS
  <2>2. \A U \in SUBSET DOMAIN os, acc \in S :
          U # {} /\ <<U \ {Max(U)}, acc>> \in R => <<U, SyncStep(p, os, Max(U), acc)>> \in R
    BY DEF SyncStep
  <2>. HIDE DEF S, R, os, p
  <2>. QED BY <1>1, <1>2, <2>1, <2>2, SyncStays
<1>4. b = os
  BY <1>3
<1>. HIDE DEF b
<1>5. Len(syncProtection(b, p)) = Len(os)
  BY <1>1, <1>4, ProtectionSyncs
<1>6. Synced(s).orders = syncProtection(b, p)
  BY DEF Synced, State, b
<1>. QED BY <1>5, <1>6

LEMMA MatchAdds ==
  ASSUME NEW m \in Observation, NEW os \in Seq(Order), NEW p \in Int
  PROVE  \A j \in DOMAIN os : matchOrders(m, os, p).orders[j].filled >= os[j].filled
<1>. DEFINE S == {s \in State : /\ DOMAIN s.orders = DOMAIN os
                                /\ \A j \in DOMAIN os : s.orders[j].filled >= os[j].filled}
            s0 == [orders |-> os, pos |-> p]
            s1 == MatchThose(m, os, s0, TRUE)
<1>0. \A j \in DOMAIN os : os[j].filled \in Int
  BY OrderFields
<1>1. s0 \in S
  BY <1>0 DEF State
<1>2. \A s \in S, i \in DOMAIN os : MatchOne(m, s, i) \in S
  <2>. TAKE s \in S, i \in DOMAIN os
  <2>. DEFINE r == MatchOne(m, s, i)
              t == s.orders
  <2>0. s \in State /\ i \in DOMAIN s.orders
    OBVIOUS
  <2>1. CASE r = s
    BY <2>1
  <2>2. CASE r # s
    <3>1. PICK q \in Nat \ {0} :
            /\ r \in State /\ DOMAIN r.orders = DOMAIN t
            /\ Executed(t[i], r.orders[i], q)
            /\ \A j \in DOMAIN t \ {i} : Reduced(t[j], r.orders[j], q)
      <4>. HIDE DEF r, S
      <4>. QED BY <2>0, <2>2, MatchOneFills DEF r
    <3>. HIDE DEF r
    <3>2. \A j \in DOMAIN t : t[j] \in Order /\ t[j].filled \in Int
      BY <2>0, OrderFields DEF State
    <3>3. \A j \in DOMAIN t : r.orders[j].filled = IF j = i THEN t[j].filled + q ELSE t[j].filled
      BY <3>1 DEF Executed, Reduced
    <3>4. ASSUME NEW j \in DOMAIN os PROVE r.orders[j].filled >= os[j].filled
      <4>1. j \in DOMAIN t /\ t[j].filled >= os[j].filled /\ os[j].filled \in Int
        BY <1>0
      <4>2. t[j].filled \in Int /\ r.orders[j].filled \in {t[j].filled, t[j].filled + q}
        BY <3>2, <3>3, <4>1
      <4>. HIDE DEF S
      <4>. QED BY <4>1, <4>2
    <3>. QED BY <3>1, <3>4 DEF r
  <2>. QED BY <2>1, <2>2
<1>. HIDE DEF S
<1>3. s1 \in S
  BY <1>1, <1>2, MatchThoseStays
<1>4. matchOrders(m, os, p) \in S
  BY <1>2, <1>3, MatchThoseStays DEF matchOrders
<1>. QED BY <1>4 DEF S

\* Orders canceled, or marked, leave the promise as it is.
LEMMA CoversStays ==
  ASSUME NEW os \in Seq(Order), NEW r \in Seq(Order), NEW p, CoversPosition(os, p),
         Len(r) = Len(os),
         \A j \in DOMAIN os :
           /\ r[j].role = os[j].role /\ r[j].parent = os[j].parent
           /\ r[j].filled = os[j].filled /\ r[j].qty = os[j].qty
           /\ isOpen(r[j]) => isOpen(os[j])
  PROVE  CoversPosition(r, p)
<1>1. DOMAIN r = DOMAIN os
  BY SameLength
<1>2. FilledEntries(r) = FilledEntries(os)
  BY <1>1 DEF FilledEntries
<1>3. \A e : Children(r, e) = Children(os, e)
  BY <1>1 DEF Children
<1>4. ASSUME NEW e, Covered(os, p, e) PROVE Covered(r, p, e)
  <2>1. \A i \in Children(os, e) : i \in DOMAIN os
    BY DEF Children
  <2>. QED BY <1>3, <1>4, <2>1 DEF Covered, remainingQty
<1>5. Unopened(os) => Unopened(r)
  BY <1>1 DEF Unopened
<1>. QED BY <1>2, <1>4, <1>5 DEF CoversPosition

(* What reconciling makes of a table whose sole filled entry has a         *)
(* bracket, or is the whole position.                                      *)
LEMMA SyncedKeepsCover ==
  ASSUME NEW s \in State,
         FilledEntries(s.orders) = {} => s.pos = 0 /\ Unopened(s.orders),
         \A e \in FilledEntries(s.orders) : FilledEntries(s.orders) = {e} =>
           \/ Children(s.orders, e) # {}
           \/ s.pos # 0 /\ Magnitude(s.pos) = s.orders[e].filled
  PROVE  CoversPosition(Synced(s).orders, s.pos)
<1>. DEFINE r == Synced(s).orders
<1>1. s.orders \in Seq(Order) /\ r \in Seq(Order) /\ Later(s.orders, r)
  BY SyncedIs DEF State
<1>2. FilledEntries(s.orders) = {} => Len(r) = Len(s.orders)
  BY SyncedUnopened
<1>3. \A e \in FilledEntries(s.orders) : FilledEntries(s.orders) = {e} => Covered(r, s.pos, e)
  BY SyncedCovers
<1>. HIDE DEF r
<1>4. FilledEntries(r) = FilledEntries(s.orders)
  BY <1>1, FilledEntriesStay
<1>5. FilledEntries(s.orders) = {} => Unopened(r)
  <2>. HAVE FilledEntries(s.orders) = {}
  <2>1. DOMAIN r = DOMAIN s.orders
    BY <1>1, <1>2, SameLength
  <2>. QED BY <1>1, <2>1 DEF Unopened, Later, SameOrder
<1>6. CoversPosition(r, s.pos)
  BY <1>3, <1>4, <1>5 DEF CoversPosition
<1>. QED BY <1>6 DEF r

LEMMA EnforceCovers ==
  ASSUME NEW s \in State, CoversPosition(s.orders, s.pos), NEW price \in Int,
         NEW r, r = enforce(s, "FAILED", price)
  PROVE  r \in State /\ CoversPosition(r.orders, r.pos)
<1>1. CASE ~hasExposure(s)
  BY <1>1 DEF enforce
<1>2. CASE hasExposure(s)
  <2>. DEFINE L == LiquidationOrders(s)
              M == matchOrders(Quote(price), L, s.pos)
  <2>1. r = Synced(M)
    BY <1>2 DEF enforce
  <2>2. s.orders \in Seq(Order) /\ s.pos \in Int
    BY DEF State
  <2>3. L \in Seq(Order) /\ Len(L) >= Len(s.orders) /\ (s.pos = 0 => Len(L) = Len(s.orders))
    BY LiquidationTable
  <2>4. \A i \in DOMAIN s.orders : /\ SameOrder(s.orders[i], L[i])
                                   /\ L[i].filled = s.orders[i].filled
                                   /\ ~isOpen(L[i])
    BY LiquidationTable
  <2>5. \A i \in DOMAIN L \ DOMAIN s.orders : L[i].role = "STANDALONE"
    BY LiquidationTable
  <2>. HIDE DEF L
  <2>6. M \in State /\ Matches(L, M.orders) /\ (OpenIn(L) = {} => M.pos = s.pos)
    BY <2>2, <2>3, QuoteIsObservation, OrdersMatch
  <2>. HIDE DEF M
  <2>7. DOMAIN s.orders \subseteq DOMAIN L
    BY <2>2, <2>3
  <2>8. FilledEntries(M.orders) = FilledEntries(s.orders)
    <3>1. \A j \in DOMAIN s.orders : /\ M.orders[j].role = s.orders[j].role
                                     /\ M.orders[j].filled = s.orders[j].filled
      BY <2>4, <2>6, <2>7 DEF Matches, SameOrder
    <3>2. \A j \in DOMAIN M.orders \ DOMAIN s.orders : M.orders[j].role # "ENTRY"
      BY <2>5, <2>6 DEF Matches, SameOrder
    <3>. QED BY <2>6, <2>7, <3>1, <3>2 DEF FilledEntries, Matches
  <2>9. FilledEntries(M.orders) = {} => M.pos = 0 /\ Unopened(M.orders)
    <3>. HAVE FilledEntries(M.orders) = {}
    <3>1. s.pos = 0 /\ Unopened(s.orders)
      BY <2>8 DEF CoversPosition
    <3>2. DOMAIN L = DOMAIN s.orders
      BY <2>2, <2>3, <3>1
    <3>3. OpenIn(L) = {}
      BY <2>4, <3>2 DEF OpenIn
    <3>4. Unopened(M.orders)
      BY <2>4, <2>6, <3>1, <3>2 DEF Unopened, Matches, SameOrder
    <3>. QED BY <2>6, <3>1, <3>3, <3>4
  <2>10. \A e \in FilledEntries(M.orders) : FilledEntries(M.orders) = {e} => Children(M.orders, e) # {}
    <3>. TAKE e \in FilledEntries(M.orders)
    <3>. HAVE FilledEntries(M.orders) = {e}
    <3>1. PICK c \in DOMAIN s.orders : s.orders[c].parent = e
      BY <2>8 DEF CoversPosition, Covered, Children
    <3>2. c \in DOMAIN M.orders /\ M.orders[c].parent = e
      BY <2>4, <2>6, <2>7, <3>1 DEF Matches, SameOrder
    <3>. QED BY <3>2 DEF Children
  <2>11. CoversPosition(Synced(M).orders, M.pos)
    BY <2>6, <2>9, <2>10, SyncedKeepsCover
  <2>12. Synced(M) \in State /\ Synced(M).pos = M.pos
    BY <2>6, SyncedIs
  <2>. QED BY <2>1, <2>11, <2>12
<1>. QED BY <1>1, <1>2

LEMMA MatchedCovers ==
  ASSUME NEW m \in Observation, NEW os \in Seq(Order), pos \in Int,
         FilledEntries(os) = {} => pos = 0 /\ Unopened(os),
         \A e \in FilledEntries(os) : FilledEntries(os) = {e} => Children(os, e) # {},
         NEW c, c = Reconciled(os, Matched(m, os))
  PROVE  CoversPosition(c.orders, c.pos)
<1>. DEFINE M == Matched(m, os)
<1>1. CASE OpenIn(os) = {}
  <2>1. c = [orders |-> os, pos |-> pos]
    BY <1>1 DEF Reconciled, Matched
  <2>2. c.orders = os /\ c.pos = pos
    BY <2>1
  <2>3. \A e : \A i \in Children(os, e) : ~isOpen(os[i])
    BY <1>1 DEF OpenIn, Children
  <2>. QED BY <2>2, <2>3 DEF CoversPosition, Covered
<1>2. CASE OpenIn(os) # {}
  <2>1. c = Synced(M) /\ M = matchOrders(m, os, pos)
    BY <1>2 DEF Reconciled, Matched
  <2>2. M \in State /\ Matches(os, M.orders)
    BY MatchedIs
  <2>3. \A j \in DOMAIN os : M.orders[j].filled >= os[j].filled
    BY <2>1, MatchAdds
  <2>4. Unopened(os) /\ pos = 0 => Opens(M)
    BY <2>1, MatchOpens
  <2>. HIDE DEF M
  <2>5. \A j \in DOMAIN os : os[j].filled \in Int /\ M.orders[j].filled \in Int
                             /\ M.orders[j].side \in {1, -1}
    BY <2>2, OrderFields DEF State, Matches, Sides
  <2>6. FilledEntries(os) \subseteq FilledEntries(M.orders)
    BY <2>2, <2>3, <2>5 DEF FilledEntries, Matches, SameOrder
  <2>7. FilledEntries(M.orders) = {} => M.pos = 0 /\ Unopened(M.orders)
    <3>. HAVE FilledEntries(M.orders) = {}
    <3>1. pos = 0 /\ Unopened(os)
      BY <2>6
    <3>2. M.pos = 0
      BY <2>4, <3>1 DEF Opens
    <3>3. \A j \in DOMAIN os : M.orders[j].role = "ENTRY" /\ os[j].filled = 0
      BY <2>2, <3>1 DEF Unopened, Matches, SameOrder
    <3>4. \A j \in DOMAIN os : ~(M.orders[j].filled > 0)
      BY <2>2, <3>3 DEF FilledEntries, Matches
    <3>5. \A j \in DOMAIN os : M.orders[j].filled = 0
      BY <2>3, <2>5, <3>3, <3>4
    <3>. QED BY <2>2, <3>2, <3>3, <3>5 DEF Unopened, Matches
  <2>8. ASSUME NEW e \in FilledEntries(M.orders), FilledEntries(M.orders) = {e}
        PROVE  Children(M.orders, e) # {} \/ (M.pos # 0 /\ Magnitude(M.pos) = M.orders[e].filled)
    <3>1. CASE FilledEntries(os) = {}
      <4>1. M.pos = M.orders[e].side * M.orders[e].filled
        BY <2>4, <2>8, <3>1 DEF Opens
      <4>2. e \in DOMAIN os /\ M.orders[e].filled > 0
        BY <2>2 DEF FilledEntries, Matches
      <4>. QED BY <2>5, <4>1, <4>2 DEF Magnitude
    <3>2. CASE FilledEntries(os) = {e}
      <4>1. PICK k \in DOMAIN os : os[k].parent = e
        BY <3>2 DEF Children
      <4>2. k \in DOMAIN M.orders /\ M.orders[k].parent = e
        BY <2>2, <4>1 DEF Matches, SameOrder
      <4>. QED BY <4>2 DEF Children
    <3>. QED BY <2>6, <2>8, <3>1, <3>2
  <2>9. CoversPosition(Synced(M).orders, M.pos)
    BY <2>2, <2>7, <2>8, SyncedKeepsCover
  <2>10. Synced(M).pos = M.pos
    BY <2>2, SyncedIs
  <2>. QED BY <2>1, <2>9, <2>10 DEF M
<1>. QED BY <1>1, <1>2

LEMMA CommitCovers ==
  ASSUME NEW m \in Observation, NEW s \in State, NEW st, Commit(m, s, st),
         CoversPosition(s.orders, s.pos)
  PROVE  CoversPosition(orders', pos')
<1>1. s.orders \in Seq(Order)
  BY DEF State
<1>2. /\ orders' \in Seq(Order) /\ Len(orders') = Len(s.orders) /\ pos' = s.pos
      /\ Later(s.orders, orders')
      /\ \A i \in DOMAIN s.orders : /\ orders'[i].qty = s.orders[i].qty
                                    /\ orders'[i].status = s.orders[i].status
  BY CommitIs
<1>3. \A j \in DOMAIN s.orders :
        /\ orders'[j].role = s.orders[j].role /\ orders'[j].parent = s.orders[j].parent
        /\ orders'[j].filled = s.orders[j].filled /\ orders'[j].qty = s.orders[j].qty
        /\ isOpen(orders'[j]) => isOpen(s.orders[j])
  BY <1>2 DEF Later, SameOrder
<1>4. CoversPosition(orders', s.pos)
  BY <1>1, <1>2, <1>3, CoversStays
<1>. QED BY <1>2, <1>4

BracketInv == EngineTypes /\ CoversPosition(orders, pos)

\* A pass over a table to which the trader added what he may.
LEMMA PassCovers ==
  ASSUME BracketInv, NEW m \in Observation, NEW os \in Seq(Order), Grown(orders, os),
         FilledEntries(orders) = {} => Unopened(os),
         matchLocked(m, os), last' \in Levels
  PROVE  BracketInv'
<1>. DEFINE M == Matched(m, os)
            c == Reconciled(os, M)
<1>1. orders \in Seq(Order) /\ pos \in Int /\ status \in Statuses /\ CoversPosition(orders, pos)
  BY DEF BracketInv, EngineTypes
<1>2. DOMAIN orders \subseteq DOMAIN os
  BY <1>1 DEF Grown
<1>3. FilledEntries(os) = FilledEntries(orders)
  BY <1>2 DEF Grown, FilledEntries
<1>4. FilledEntries(os) = {} => pos = 0 /\ Unopened(os)
  BY <1>1, <1>3 DEF CoversPosition
<1>5. ASSUME NEW e \in FilledEntries(os), FilledEntries(os) = {e} PROVE Children(os, e) # {}
  <2>1. PICK k \in DOMAIN orders : orders[k].parent = e
    BY <1>1, <1>3, <1>5 DEF CoversPosition, Covered, Children
  <2>2. k \in DOMAIN os /\ os[k].parent = e
    BY <1>2, <2>1 DEF Grown
  <2>. QED BY <2>2 DEF Children
<1>6. c \in State /\ CoversPosition(c.orders, c.pos)
  BY <1>1, <1>4, <1>5, MatchedCovers, ReconciledIs
<1>6a. PICK st \in Statuses :
         Commit(m, IF OpenIn(os) = {} /\ pos = 0 THEN M ELSE enforce(c, st, m.last), st)
  <2>1. PICK st \in IF MayBreach(M.pos) THEN {status, "FAILED"} ELSE {status} :
          Commit(m, IF OpenIn(os) = {} /\ pos = 0 THEN M ELSE enforce(c, st, m.last), st)
    BY Zenon DEF matchLocked
  <2>2. st \in {status, "FAILED"}
    BY <2>1
  <2>. HIDE DEF M, c
  <2>. QED BY <1>1, <2>1, <2>2 DEF Statuses
<1>7. PICK s : /\ s = IF OpenIn(os) = {} /\ pos = 0 THEN M ELSE enforce(c, st, m.last)
               /\ Commit(m, s, st)
  <2>. HIDE DEF M, c
  <2>. QED BY <1>6a
<1>8. OpenIn(os) = {} => c = M
  BY DEF Reconciled
<1>. HIDE DEF M, c
<1>9. s \in State /\ CoversPosition(s.orders, s.pos)
  <2>1. CASE s = c
    BY <1>6, <2>1
  <2>2. CASE st = "FAILED" /\ s = enforce(c, st, m.last)
    <3>1. m.last \in Int
      BY DEF Observation
    <3>. QED BY <1>6, <2>2, <3>1, EnforceCovers
  <2>3. CASE st = "ACTIVE" /\ s = enforce(c, st, m.last)
    <3>1. s = c
      BY <2>3 DEF enforce
    <3>. QED BY <2>1, <3>1
  <2>. QED BY <1>7, <1>8, <2>1, <2>2, <2>3 DEF Statuses
<1>10. orders' \in Seq(Order) /\ pos' = s.pos /\ status' = st /\ CoversPosition(orders', pos')
  BY <1>7, <1>9, CommitIs, CommitCovers
<1>11. pos' \in Int
  BY <1>9, <1>10 DEF State
<1>. QED BY <1>10, <1>11 DEF BracketInv, EngineTypes, CoversPosition, Covered, Unopened,
                             FilledEntries, Children

\* A step that cancels orders, or marks them, and does nothing else.
LEMMA ThinningCovers ==
  ASSUME BracketInv, orders' \in Seq(Order), Len(orders') = Len(orders),
         \A j \in DOMAIN orders :
           /\ orders'[j].role = orders[j].role /\ orders'[j].parent = orders[j].parent
           /\ orders'[j].filled = orders[j].filled /\ orders'[j].qty = orders[j].qty
           /\ isOpen(orders'[j]) => isOpen(orders[j]),
         UNCHANGED <<pos, last, status>>
  PROVE  BracketInv'
<1>1. orders \in Seq(Order) /\ CoversPosition(orders, pos)
  BY DEF BracketInv, EngineTypes
<1>2. CoversPosition(orders', pos)
  BY <1>1, CoversStays
<1>3. CoversPosition(orders', pos')
  BY <1>2
<1>. QED BY <1>3 DEF BracketInv, EngineTypes, CoversPosition, Covered, Unopened,
                     FilledEntries, Children

LEMMA SubmitCovers ==
  ASSUME "freely" \notin Abilities, BracketInv,
         NEW t \in Tickets, NEW at \in Levels, submitOrder(t, at)
  PROVE  BracketInv'
<1>. DEFINE o == NewOrder(t, at)
            os == Append(orders, o)
<1>1. /\ orders \in Seq(Order) /\ pos \in Int /\ CoversPosition(orders, pos)
      /\ last \in Levels /\ last' = last /\ Sends(t)
      /\ matchLocked(Quote(last), os)
  BY DEF BracketInv, EngineTypes, submitOrder, NewOrder
<1>2. PICK role \in Roles : Working(o, role, "user", t.side, t.kind, at, t.qty, Nobody, Nobody)
  BY NewOrderIs, LevelsAreInts
<1>3. o \in Order /\ o.filled = 0 /\ o.tag # "liquidate"
  BY <1>2 DEF Working
<1>4. FilledEntries(orders) = {} => o.role = "ENTRY"
  <2>. HAVE FilledEntries(orders) = {}
  <2>1. pos = 0
    BY <1>1 DEF CoversPosition
  <2>2. t.qty \in Nat \ {0} /\ t.side \in {1, -1}
    BY TicketsAssumption DEF Sides
  <2>3. ~(pos >= t.qty)
    BY <2>1, <2>2
  <2>4. t.bracket
    BY <1>1, <2>1, <2>3, Zenon DEF Sends
  <2>. QED BY <2>4 DEF NewOrder, createOrder
<1>. HIDE DEF o
<1>5. os \in Seq(Order) /\ Grown(orders, os)
  BY <1>1, <1>3, GrownIsReflexive, AppendIsGrown
<1>6. /\ DOMAIN os = DOMAIN orders \cup {Len(orders) + 1}
      /\ \A j \in DOMAIN orders : os[j] = orders[j]
      /\ os[Len(orders) + 1] = o
  BY <1>1, <1>3, Appended
<1>. HIDE DEF os
<1>7. FilledEntries(orders) = {} => Unopened(os)
  BY <1>1, <1>3, <1>4, <1>6 DEF CoversPosition, Unopened
<1>8. Quote(last) \in Observation
  BY <1>1, LevelsAreInts, QuoteIsObservation
<1>. QED BY <1>1, <1>5, <1>7, <1>8, PassCovers

LEMMA CloseCovers ==
  ASSUME BracketInv, NEW tag \in {"flatten", "reverse"}, NEW qty \in Int, Close(tag, qty)
  PROVE  BracketInv'
<1>. DEFINE bare == cancelProtective(orders)
            o == closingOrder(tag, pos, qty)
<1>1. /\ orders \in Seq(Order) /\ pos \in Int /\ pos # 0 /\ CoversPosition(orders, pos)
      /\ last \in Levels /\ last' = last
  BY DEF BracketInv, EngineTypes, Close
<1>2. /\ bare \in Seq(Order) /\ Len(bare) = Len(orders)
      /\ Later(orders, bare) /\ Grown(orders, bare)
      /\ \A i \in DOMAIN orders : bare[i] \in {orders[i], Canceled(orders[i])}
  BY <1>1, ProtectiveAreCanceled
<1>3. CASE matchLocked(Quote(last), Append(bare, o))
  <2>1. Working(o, "STANDALONE", tag, -Sign(pos), "MARKET", 0, qty, Nobody, Nobody)
    BY <1>1, ClosingOrderIs DEF Tags
  <2>2. o \in Order /\ o.filled = 0 /\ o.tag # "liquidate"
    BY <2>1 DEF Working
  <2>. HIDE DEF o, bare
  <2>3. Append(bare, o) \in Seq(Order) /\ Grown(orders, Append(bare, o))
    BY <1>1, <1>2, <2>2, AppendIsGrown
  <2>4. Quote(last) \in Observation
    BY <1>1, LevelsAreInts, QuoteIsObservation
  <2>5. FilledEntries(orders) # {}
    BY <1>1 DEF CoversPosition
  <2>. QED BY <1>1, <1>3, <2>3, <2>4, <2>5, PassCovers
<1>4. CASE orders' = bare /\ UNCHANGED <<pos, status>>
  <2>. HIDE DEF bare
  <2>1. \A j \in DOMAIN orders : bare[j].qty = orders[j].qty
    <3>1. \A j \in DOMAIN orders : Canceled(orders[j]).qty = orders[j].qty
      BY <1>1 DEF Canceled, Order
    <3>. QED BY <1>2, <3>1
  <2>2. \A j \in DOMAIN orders :
          /\ bare[j].role = orders[j].role /\ bare[j].parent = orders[j].parent
          /\ bare[j].filled = orders[j].filled
          /\ isOpen(bare[j]) => isOpen(orders[j])
    BY <1>2 DEF Later, SameOrder
  <2>3. \A j \in DOMAIN orders :
          /\ orders'[j].role = orders[j].role /\ orders'[j].parent = orders[j].parent
          /\ orders'[j].filled = orders[j].filled /\ orders'[j].qty = orders[j].qty
          /\ isOpen(orders'[j]) => isOpen(orders[j])
    BY <1>4, <2>1, <2>2
  <2>. QED BY <1>1, <1>2, <1>4, <2>3, ThinningCovers
<1>. QED BY <1>3, <1>4 DEF Close

LEMMA CancelCovers ==
  ASSUME BracketInv, NEW i \in DOMAIN orders, cancelOrder(i)
  PROVE  BracketInv'
<1>1. /\ orders \in Seq(Order) /\ orders[i] \in Order
      /\ orders' = [orders EXCEPT ![i] = Canceled(orders[i])]
      /\ UNCHANGED <<pos, last, status>>
  BY DEF BracketInv, EngineTypes, cancelOrder
<1>2. /\ Canceled(orders[i]) \in Order /\ SameOrder(orders[i], Canceled(orders[i]))
      /\ ~isOpen(Canceled(orders[i])) /\ Canceled(orders[i]).filled = orders[i].filled
      /\ Canceled(orders[i]).qty = orders[i].qty
  <2>1. Canceled(orders[i]).qty = orders[i].qty
    BY <1>1 DEF Canceled, Order
  <2>. QED BY <1>1, <2>1, CanceledIs
<1>3. /\ orders' \in Seq(Order) /\ Len(orders') = Len(orders)
      /\ \A j \in DOMAIN orders : orders'[j] = IF j = i THEN Canceled(orders[i]) ELSE orders[j]
  BY <1>1, <1>2
<1>. QED BY <1>1, <1>2, <1>3, ThinningCovers DEF SameOrder

LEMMA ModifyCovers ==
  ASSUME BracketInv, NEW i \in DOMAIN orders, NEW at \in Levels, NEW qty \in Nat, modifyOrder(i, at, qty)
  PROVE  BracketInv'
<1>. DEFINE os == [orders EXCEPT ![i].at = at, ![i].qty = qty, ![i].rested = FALSE,
                     ![i].status = IF orders[i].filled >= qty THEN "FILLED" ELSE @]
<1>1. /\ orders \in Seq(Order) /\ last \in Levels /\ last' = last
      /\ matchLocked(Quote(last), os) /\ CoversPosition(orders, pos)
  BY DEF BracketInv, EngineTypes, modifyOrder
<1>1a. at \in Int /\ qty \in Int /\ os = ModifiedTable(i, at, qty)
  BY LevelsAreInts DEF ModifiedTable
<1>. HIDE DEF os
<1>2. /\ os \in Seq(Order) /\ DOMAIN os = DOMAIN orders /\ Len(os) = Len(orders)
      /\ \A j \in DOMAIN orders : os[j] = IF j = i THEN Modified(i, at, qty) ELSE orders[j]
      /\ SameOrder(orders[i], Modified(i, at, qty))
      /\ Modified(i, at, qty).filled = orders[i].filled
  BY <1>1, <1>1a, ModifiedIs
<1>3. Grown(orders, os)
  BY <1>2 DEF Grown, SameOrder
<1>4. FilledEntries(orders) = {} => Unopened(os)
  BY <1>1, <1>2 DEF CoversPosition, Unopened, SameOrder
<1>5. Quote(last) \in Observation
  BY <1>1, LevelsAreInts, QuoteIsObservation
<1>. QED BY <1>1, <1>2, <1>3, <1>4, <1>5, PassCovers

LEMMA ProtectionCovers ==
  ASSUME BracketInv, NEW stop \in Requests, NEW target \in Requests, setProtection(stop, target)
  PROVE  BracketInv'
<1>1. EngineTypes /\ last \in Levels /\ last' = last /\ pos # 0 /\ CoversPosition(orders, pos)
  BY DEF BracketInv, EngineTypes, setProtection
<1>2. PICK os \in Seq(Order) : matchLocked(Quote(last), os) /\ Grown(orders, os)
  BY <1>1, ProtectionTable
<1>3. FilledEntries(orders) # {}
  BY <1>1 DEF CoversPosition
<1>4. Quote(last) \in Observation
  BY <1>1, LevelsAreInts, QuoteIsObservation
<1>. QED BY <1>1, <1>2, <1>3, <1>4, PassCovers

LEMMA MarketCovers ==
  ASSUME BracketInv, NEW m \in Observation, m.last \in Levels, onMarketEvent(m)
  PROVE  BracketInv'
<1>1. /\ orders \in Seq(Order) /\ matchLocked(m, orders) /\ last' \in Levels
      /\ CoversPosition(orders, pos)
  BY DEF BracketInv, EngineTypes, onMarketEvent
<1>2. FilledEntries(orders) = {} => Unopened(orders)
  BY <1>1 DEF CoversPosition
<1>. QED BY <1>1, <1>2, GrownIsReflexive, PassCovers

LEMMA LatencyCovers ==
  ASSUME BracketInv, LatencyElapses
  PROVE  BracketInv'
<1>1. PICK i \in DOMAIN orders : /\ orders' = [orders EXCEPT ![i].eligible = TRUE]
                                 /\ UNCHANGED <<pos, last, status>>
  BY DEF LatencyElapses
<1>2. orders \in Seq(Order) /\ orders[i] \in Order
  BY DEF BracketInv, EngineTypes
<1>. DEFINE o == [orders[i] EXCEPT !.eligible = TRUE]
<1>3. /\ o \in Order /\ o.role = orders[i].role /\ o.parent = orders[i].parent
      /\ o.filled = orders[i].filled /\ o.qty = orders[i].qty /\ o.status = orders[i].status
  BY <1>2 DEF Order
<1>4. orders' = [orders EXCEPT ![i] = o]
  BY <1>1
<1>. HIDE DEF o
<1>5. /\ orders' \in Seq(Order) /\ Len(orders') = Len(orders)
      /\ \A j \in DOMAIN orders : orders'[j] = IF j = i THEN o ELSE orders[j]
  BY <1>2, <1>3, <1>4
<1>. QED BY <1>1, <1>3, <1>5, ThinningCovers DEF isOpen

LEMMA StepCovers ==
  ASSUME "freely" \notin Abilities, "crash" \notin Abilities, BracketInv, [Next]_vars
  PROVE  BracketInv'
<1>1. pos \in Int
  BY DEF BracketInv, EngineTypes
<1>2. CASE Submit
  BY <1>2, SubmitCovers DEF Submit
<1>3. CASE Cancel
  BY <1>3, CancelCovers DEF Cancel
<1>4. CASE Modify
  <2>1. PICK i \in DOMAIN orders, at \in Levels, qty \in 1..MaxContracts : modifyOrder(i, at, qty)
    BY <1>4 DEF Modify
  <2>2. qty \in Nat
    BY SizesAssumption
  <2>. QED BY <2>1, <2>2, ModifyCovers
<1>5. CASE flatten \/ reverse
  <2>1. Magnitude(pos) \in Int /\ 2 * Magnitude(pos) \in Int
    BY <1>1 DEF Magnitude
  <2>2. Close("flatten", Magnitude(pos)) \/ Close("reverse", 2 * Magnitude(pos))
    BY <1>5 DEF flatten, reverse
  <2>. QED BY <2>1, <2>2, CloseCovers
<1>6. CASE SetProtection
  BY <1>6, ProtectionCovers DEF SetProtection
<1>7. CASE QuoteArrives
  <2>1. PICK price \in Levels : onMarketEvent(Quote(price))
    BY <1>7 DEF QuoteArrives
  <2>2. Quote(price) \in Observation /\ Quote(price).last = price
    BY LevelsAreInts, QuoteIsObservation DEF Quote
  <2>. QED BY <2>1, <2>2, MarketCovers
<1>8. CASE BarCloses
  <2>1. PICK price \in Levels, lo \in Levels, hi \in Levels : onMarketEvent(Bar(price, lo, hi))
    BY <1>8 DEF BarCloses
  <2>2. Bar(price, lo, hi) \in Observation /\ Bar(price, lo, hi).last = price
    BY LevelsAreInts DEF Bar, Observation
  <2>. QED BY <2>1, <2>2, MarketCovers
<1>9. CASE LatencyElapses
  BY <1>9, LatencyCovers
<1>10. CASE UNCHANGED vars
  BY <1>10 DEF vars, BracketInv, EngineTypes, CoversPosition, Covered, Unopened, FilledEntries, Children
<1>11. ~Crash
  BY DEF Crash
<1>. QED BY <1>2, <1>3, <1>4, <1>5, <1>6, <1>7, <1>8, <1>9, <1>10, <1>11 DEF Next

(* Until an entry has filled the account holds nothing, and whatever works *)
(* of the bracket of the only entry that ever filled is for the position:  *)
(* syncBrackets (engine.ts) follows it through partial fills, scaling in,  *)
(* sales by hand, protection, modifications and breaches.  The bracket of  *)
(* an entry that fills into a position is sized at its own fill, so the    *)
(* trader opens with it; and a crash may come before it.                   *)
THEOREM SoleBracketInvariant ==
  ASSUME "freely" \notin Abilities, "crash" \notin Abilities
  PROVE  Spec => []BracketInv
<1>1. Init => BracketInv
  <2>. SUFFICES ASSUME Init PROVE BracketInv
    OBVIOUS
  <2>1. DOMAIN orders = {} /\ EngineTypes /\ pos = 0
    BY DEF Init, EngineTypes, Statuses
  <2>2. FilledEntries(orders) = {}
    BY <2>1 DEF FilledEntries
  <2>. QED BY <2>1, <2>2 DEF BracketInv, CoversPosition, Unopened
<1>2. BracketInv /\ [Next]_vars => BracketInv'
  BY StepCovers
<1>. QED BY <1>1, <1>2, PTL DEF Spec

(* The stop of the only bracketed entry that ever filled is for the whole  *)
(* position, for every fill cap, latency and set of orders.                *)
THEOREM SoleStopCovers ==
  ASSUME "freely" \notin Abilities, "crash" \notin Abilities
  PROVE  Spec => []SoleBracketCovers
<1>1. BracketInv => SoleBracketCovers
  BY DEF BracketInv, CoversPosition, Covered, SoleBracketCovers, StopCovers, StopsOf
<1>. QED BY <1>1, SoleBracketInvariant, PTL

-------------------------------------------------------------------------------
(* Exits only reduce, where they are in order *)

IsExit(o) == Protective(o) \/ o.tag \in {"flatten", "liquidate"}

\* An exit that cannot do more than close the position p.
FitsIn(o, p) == o.side = -Sign(p) /\ remainingQty(o) <= Magnitude(p)

\* Nor can all of them: what one of several fills, its group takes off the others.
ExitsFit(os, p) ==
  \A i \in OpenIn(os) : IsExit(os[i]) =>
    /\ FitsIn(os[i], p)
    /\ \A j \in OpenIn(os) \ {i} : IsExit(os[j]) => os[j].group = os[i].group /\ os[i].group # Nobody

LEMMA ReducedBy ==
  ASSUME NEW p \in Int, NEW side \in Int, side = -Sign(p), NEW q \in Nat, q <= Magnitude(p),
         NEW r, r = p + side * q
  PROVE  /\ r \in Int /\ Magnitude(r) = Magnitude(p) - q /\ Reduces(p, r)
         /\ r # 0 => Sign(r) = Sign(p)
<1>1. CASE p > 0
  <2>1. side = -1
    BY <1>1 DEF Sign
  <2>2. r = p - q /\ q <= p
    BY <1>1, <2>1 DEF Magnitude
  <2>. QED BY <1>1, <2>2 DEF Magnitude, Sign, Reduces
<1>2. CASE p < 0
  <2>1. side = 1
    <3>1. PICK g \in Int : g = Sign(p) /\ g + 1 = 0
      BY <1>2 DEF Sign
    <3>2. side + g = 0
      BY <3>1
    <3>. QED BY <3>1, <3>2
  <2>2. r = p + q /\ q <= -p
    BY <1>2, <2>1 DEF Magnitude
  <2>. QED BY <1>2, <2>2 DEF Magnitude, Sign, Reduces
<1>3. CASE p = 0
  <2>1. side = 0 /\ q = 0 /\ r = 0
    <3>1. Sign(p) = 0
      BY <1>3 DEF Sign
    <3>. QED BY <1>3, <3>1 DEF Magnitude
  <2>. QED BY <1>3, <2>1 DEF Magnitude, Sign, Reduces
<1>. QED BY <1>1, <1>2, <1>3

LEMMA ReducesTwice ==
  ASSUME NEW p \in Int, NEW r \in Int, NEW s \in Int, Reduces(p, r), Reduces(r, s)
  PROVE  Reduces(p, s)
BY DEF Reduces, Magnitude, Sign

LEMMA StillReduces == ASSUME NEW p \in Int PROVE Reduces(p, p)
BY DEF Reduces, Magnitude

\* One fill of an exit leaves the others an exit each of what is left.
LEMMA MatchOneReduces ==
  ASSUME NEW m \in Observation, NEW s \in State, NEW i \in DOMAIN s.orders,
         ExitsFit(s.orders, s.pos), IsExit(s.orders[i])
  PROVE  /\ Reduces(s.pos, MatchOne(m, s, i).pos)
         /\ ExitsFit(MatchOne(m, s, i).orders, MatchOne(m, s, i).pos)
<1>. DEFINE r == MatchOne(m, s, i)
            t == s.orders
<1>0. s.pos \in Int /\ t \in Seq(Order)
  BY DEF State
<1>1. CASE r = s
  BY <1>0, <1>1, StillReduces
<1>2. CASE r # s
  <2>1. PICK q \in Nat \ {0} :
          /\ isOpen(t[i]) /\ q <= remainingQty(t[i])
          /\ r \in State /\ DOMAIN r.orders = DOMAIN t /\ r.pos = s.pos + t[i].side * q
          /\ Executed(t[i], r.orders[i], q)
          /\ \A j \in DOMAIN t : SameOrder(t[j], r.orders[j])
          /\ \A j \in DOMAIN t \ {i} :
               /\ Reduced(t[j], r.orders[j], q)
               /\ t[j].group = t[i].group /\ t[i].group # Nobody /\ isOpen(t[j]) /\ isOpen(r.orders[j])
                    => r.orders[j].qty = t[j].qty - q
    <3>. HIDE DEF r
    <3>. QED BY <1>2, MatchOneFills DEF r
  <2>. HIDE DEF r
  <2>2. \A j \in DOMAIN t : /\ t[j] \in Order /\ t[j].filled \in Int /\ t[j].qty \in Int /\ t[j].side \in Int
                            /\ r.orders[j] \in Order
                            /\ r.orders[j].filled \in Int /\ r.orders[j].qty \in Int
    <3>1. r.orders \in Seq(Order)
      BY <2>1 DEF State
    <3>. QED BY <1>0, <2>1, <3>1, OrderFields DEF Sides
  <2>3. i \in OpenIn(t) /\ FitsIn(t[i], s.pos) /\ q <= Magnitude(s.pos)
    <3>1. i \in OpenIn(t) /\ FitsIn(t[i], s.pos)
      BY <2>1 DEF ExitsFit, OpenIn
    <3>. QED BY <1>0, <2>1, <2>2, <3>1 DEF FitsIn, remainingQty, Magnitude
  <2>4. /\ r.pos \in Int /\ Magnitude(r.pos) = Magnitude(s.pos) - q /\ Reduces(s.pos, r.pos)
        /\ r.pos # 0 => Sign(r.pos) = Sign(s.pos)
    <3>1. t[i].side \in Int /\ t[i].side = -Sign(s.pos) /\ q \in Nat
      BY <2>2, <2>3 DEF FitsIn
    <3>. QED BY <1>0, <2>1, <2>3, <3>1, ReducedBy
  <2>5. \A j \in DOMAIN t : IsExit(r.orders[j]) = IsExit(t[j]) /\ (isOpen(r.orders[j]) => isOpen(t[j]))
    BY <2>1 DEF IsExit, Protective, SameOrder, Reduced
  <2>6. ASSUME NEW j \in OpenIn(r.orders), IsExit(r.orders[j])
        PROVE  /\ j \in OpenIn(t) /\ IsExit(t[j]) /\ FitsIn(t[j], s.pos)
               /\ 0 < remainingQty(r.orders[j]) /\ remainingQty(r.orders[j]) = remainingQty(t[j]) - q
    <3>1. j \in OpenIn(t) /\ IsExit(t[j]) /\ isOpen(r.orders[j])
      BY <2>1, <2>5, <2>6 DEF OpenIn
    <3>2. FitsIn(t[j], s.pos)
      BY <3>1 DEF ExitsFit
    <3>3. CASE j = i
      <4>1. r.orders[i].filled < r.orders[i].qty
        BY <2>1, <2>2, <3>1, <3>3 DEF Executed, isOpen
      <4>. QED BY <2>1, <2>2, <3>1, <3>2, <3>3, <4>1 DEF Executed, remainingQty
    <3>4. CASE j # i
      <4>1. t[j].group = t[i].group /\ t[i].group # Nobody
        BY <2>3, <3>1, <3>4 DEF ExitsFit
      <4>2. j \in DOMAIN t \ {i} /\ isOpen(t[j])
        BY <3>1, <3>4 DEF OpenIn
      <4>3. r.orders[j].qty = t[j].qty - q /\ Reduced(t[j], r.orders[j], q)
        BY <2>1, <3>1, <4>1, <4>2
      <4>4. r.orders[j].filled = t[j].filled /\ r.orders[j] # t[j]
        BY <2>1, <2>2, <4>2, <4>3 DEF Reduced
      <4>5. r.orders[j].qty > r.orders[j].filled
        BY <3>1, <4>3, <4>4 DEF Reduced
      <4>. QED BY <2>2, <3>1, <3>2, <4>2, <4>3, <4>4, <4>5 DEF remainingQty
    <3>. QED BY <3>3, <3>4
  <2>7. ASSUME NEW j \in OpenIn(r.orders), IsExit(r.orders[j])
        PROVE  FitsIn(r.orders[j], r.pos)
    <3>1. /\ j \in DOMAIN t /\ FitsIn(t[j], s.pos)
          /\ 0 < remainingQty(r.orders[j]) /\ remainingQty(r.orders[j]) = remainingQty(t[j]) - q
      BY <2>6, <2>7 DEF OpenIn
    <3>2. remainingQty(t[j]) \in Int /\ remainingQty(r.orders[j]) \in Int /\ Magnitude(s.pos) \in Int
      BY <1>0, <2>2, <3>1 DEF remainingQty, Magnitude
    <3>3. remainingQty(r.orders[j]) <= Magnitude(r.pos) /\ 0 < Magnitude(r.pos)
      BY <2>1, <2>4, <3>1, <3>2 DEF FitsIn
    <3>4. r.pos # 0
      BY <3>3 DEF Magnitude
    <3>. QED BY <2>1, <2>4, <3>1, <3>3, <3>4 DEF FitsIn, SameOrder
  <2>8. ASSUME NEW j \in OpenIn(r.orders), IsExit(r.orders[j]),
               NEW k \in OpenIn(r.orders) \ {j}, IsExit(r.orders[k])
        PROVE  r.orders[k].group = r.orders[j].group /\ r.orders[j].group # Nobody
    <3>1. /\ j \in OpenIn(t) /\ IsExit(t[j]) /\ k \in OpenIn(t) \ {j} /\ IsExit(t[k])
      BY <2>6, <2>8
    <3>2. t[k].group = t[j].group /\ t[j].group # Nobody
      BY <3>1 DEF ExitsFit
    <3>3. j \in DOMAIN t /\ k \in DOMAIN t
      BY <3>1 DEF OpenIn
    <3>. QED BY <2>1, <3>2, <3>3 DEF SameOrder
  <2>9. ExitsFit(r.orders, r.pos)
    BY <2>7, <2>8 DEF ExitsFit
  <2>. QED BY <2>4, <2>9 DEF r
<1>. QED BY <1>1, <1>2

OnlyExits(os, r) == \A j \in DOMAIN os : r[j].filled > os[j].filled => IsExit(os[j])

\* A pass in which only exits fill reduces the position, and leaves exits of it.
LEMMA MatchReduces ==
  ASSUME NEW m \in Observation, NEW os \in Seq(Order), NEW p \in Int, ExitsFit(os, p),
         NEW M, M = matchOrders(m, os, p), OnlyExits(os, M.orders)
  PROVE  Reduces(p, M.pos) /\ ExitsFit(M.orders, M.pos)
<1>. DEFINE S == {s \in State : /\ Matches(os, s.orders)
                                /\ \A j \in DOMAIN os : s.orders[j].filled >= os[j].filled
                                /\ OnlyExits(os, s.orders) => /\ Reduces(p, s.pos)
                                                              /\ ExitsFit(s.orders, s.pos)}
            s0 == [orders |-> os, pos |-> p]
            s1 == MatchThose(m, os, s0, TRUE)
<1>0. \A j \in DOMAIN os : os[j].filled \in Int
  BY OrderFields
<1>1. s0 \in S
  <2>1. s0 \in State /\ s0.orders = os /\ s0.pos = p
    BY DEF State
  <2>2. Matches(os, os) /\ \A j \in DOMAIN os : os[j].filled >= os[j].filled
    BY <1>0 DEF Matches, SameOrder
  <2>. QED BY <2>1, <2>2, StillReduces
<1>2. \A s \in S, i \in DOMAIN os : MatchOne(m, s, i) \in S
  <2>. TAKE s \in S, i \in DOMAIN os
  <2>. DEFINE r == MatchOne(m, s, i)
              t == s.orders
  <2>0. s \in State /\ i \in DOMAIN t /\ Matches(os, t) /\ DOMAIN t = DOMAIN os
    BY DEF Matches
  <2>1. CASE r = s
    BY <2>1
  <2>2. CASE r # s
    <3>1. PICK q \in Nat \ {0} :
            /\ DOMAIN r.orders = DOMAIN t
            /\ Executed(t[i], r.orders[i], q)
            /\ \A j \in DOMAIN t \ {i} : Reduced(t[j], r.orders[j], q)
      <4>. HIDE DEF r, S
      <4>. QED BY <2>0, <2>2, MatchOneFills DEF r
    <3>2. r \in State /\ Matches(t, r.orders)
      <4>. HIDE DEF S
      <4>. QED BY <2>0, MatchOneMatches
    <3>3. OnlyExits(os, t) /\ IsExit(t[i]) => Reduces(s.pos, r.pos) /\ ExitsFit(r.orders, r.pos)
      <4>. HAVE OnlyExits(os, t) /\ IsExit(t[i])
      <4>1. ExitsFit(t, s.pos)
        OBVIOUS
      <4>. HIDE DEF S
      <4>. QED BY <2>0, <4>1, MatchOneReduces
    <3>. HIDE DEF r
    <3>4. \A j \in DOMAIN t : t[j].filled \in Int /\ r.orders[j].filled \in Int
      BY <2>0, <3>1, <3>2, OrderFields DEF State
    <3>5. \A j \in DOMAIN t : r.orders[j].filled = IF j = i THEN t[j].filled + q ELSE t[j].filled
      BY <3>1 DEF Executed, Reduced
    <3>6. \A j \in DOMAIN os : r.orders[j].filled >= os[j].filled
      BY <1>0, <2>0, <3>4, <3>5
    <3>7. ASSUME OnlyExits(os, r.orders) PROVE OnlyExits(os, t) /\ IsExit(t[i])
      <4>1. \A j \in DOMAIN os : t[j].filled > os[j].filled => r.orders[j].filled > os[j].filled
        BY <1>0, <2>0, <3>4, <3>5
      <4>2. r.orders[i].filled > os[i].filled
        BY <1>0, <2>0, <3>4, <3>5
      <4>. QED BY <2>0, <3>7, <4>1, <4>2 DEF OnlyExits, IsExit, Protective, Matches, SameOrder
    <3>8. OnlyExits(os, r.orders) => Reduces(p, r.pos) /\ ExitsFit(r.orders, r.pos)
      <4>. HAVE OnlyExits(os, r.orders)
      <4>1. Reduces(p, s.pos) /\ Reduces(s.pos, r.pos) /\ ExitsFit(r.orders, r.pos)
        BY <3>3, <3>7
      <4>2. s.pos \in Int /\ r.pos \in Int
        BY <2>0, <3>2 DEF State
      <4>. QED BY <4>1, <4>2, ReducesTwice
    <3>9. Matches(os, r.orders)
      BY <2>0, <3>2, MatchesTwice
    <3>. QED BY <3>2, <3>6, <3>8, <3>9 DEF r
  <2>. QED BY <2>1, <2>2
<1>. HIDE DEF S
<1>3. s1 \in S
  BY <1>1, <1>2, MatchThoseStays
<1>4. M \in S
  BY <1>2, <1>3, MatchThoseStays DEF matchOrders
<1>. QED BY <1>4 DEF S

\* Where an entry works alone, the position is what it has filled.
LEMMA MatchOfEntry ==
  ASSUME NEW m \in Observation, NEW os \in Seq(Order), NEW e \in DOMAIN os, OpenIn(os) = {e},
         os[e].filled = 0, NEW M, M = matchOrders(m, os, 0)
  PROVE  M.pos = os[e].side * M.orders[e].filled
<1>. DEFINE S == {s \in State : /\ Matches(os, s.orders)
                                /\ s.pos = os[e].side * s.orders[e].filled}
            s0 == [orders |-> os, pos |-> 0]
            s1 == MatchThose(m, os, s0, TRUE)
<1>0. os[e].side \in {1, -1}
  BY OrderFields DEF Sides
<1>1. s0 \in S
  <2>1. s0 \in State /\ s0.orders = os /\ s0.pos = 0
    BY DEF State
  <2>2. Matches(os, os)
    BY DEF Matches, SameOrder
  <2>3. 0 = os[e].side * os[e].filled
    BY <1>0
  <2>. QED BY <2>1, <2>2, <2>3
<1>2. \A s \in S, i \in DOMAIN os : MatchOne(m, s, i) \in S
  <2>. TAKE s \in S, i \in DOMAIN os
  <2>. DEFINE r == MatchOne(m, s, i)
              t == s.orders
  <2>0. /\ s \in State /\ i \in DOMAIN t /\ Matches(os, t) /\ DOMAIN t = DOMAIN os
        /\ s.pos = os[e].side * t[e].filled
    BY DEF Matches
  <2>1. CASE r = s
    BY <2>1
  <2>2. CASE r # s
    <3>1. PICK q \in Nat \ {0} :
            /\ isOpen(t[i]) /\ r.pos = s.pos + t[i].side * q
            /\ Executed(t[i], r.orders[i], q)
      <4>. HIDE DEF r, S
      <4>. QED BY <2>0, <2>2, MatchOneFills DEF r
    <3>2. r \in State /\ Matches(t, r.orders)
      <4>. HIDE DEF S
      <4>. QED BY <2>0, MatchOneMatches
    <3>. HIDE DEF r
    <3>3. i = e
      BY <2>0, <3>1 DEF Matches, OpenIn
    <3>4. t[e].filled \in Int
      BY <2>0, OrderFields DEF State
    <3>5. t[e].side = os[e].side /\ r.orders[e].filled = t[e].filled + q
      BY <2>0, <3>1, <3>3 DEF Matches, SameOrder, Executed
    <3>6. os[e].side * t[e].filled + os[e].side * q = os[e].side * (t[e].filled + q)
      BY <1>0, <3>4
    <3>7. r.pos = os[e].side * r.orders[e].filled
      BY <2>0, <3>1, <3>3, <3>5, <3>6
    <3>8. Matches(os, r.orders)
      BY <2>0, <3>2, MatchesTwice
    <3>. QED BY <3>2, <3>7, <3>8 DEF r
  <2>. QED BY <2>1, <2>2
<1>. HIDE DEF S
<1>3. s1 \in S
  BY <1>1, <1>2, MatchThoseStays
<1>4. M \in S
  BY <1>2, <1>3, MatchThoseStays DEF matchOrders
<1>. QED BY <1>4 DEF S

\* A market order that may fill is done in one pass, where fills are whole.
LEMMA MatchOneCloses ==
  ASSUME FillCap = Nobody, NEW m \in Observation, NEW s \in State, NEW k \in DOMAIN s.orders,
         s.orders[k].kind = "MARKET", s.orders[k].eligible,
         isOpen(s.orders[k]) => remainingQty(s.orders[k]) > 0
  PROVE  ~isOpen(MatchOne(m, s, k).orders[k])
<1>. DEFINE r == MatchOne(m, s, k)
            o == s.orders[k]
<1>0. o \in Order /\ o.filled \in Int /\ o.qty \in Int /\ o.side \in {1, -1} /\ s.pos \in Int
  BY OrderFields DEF State, Sides
<1>1. CASE r # s
  <2>1. PICK q \in Nat \ {0} :
          q = remainingQty(o) /\ r.orders[k].filled = o.filled + q /\ r.orders[k].qty = o.qty
          /\ r.orders[k].status = IF r.orders[k].filled >= r.orders[k].qty THEN "FILLED" ELSE "PARTIALLY_FILLED"
    <3>. HIDE DEF r
    <3>. QED BY <1>1, MatchOneFills DEF r, Executed
  <2>. HIDE DEF r
  <2>2. r.orders[k].filled >= r.orders[k].qty
    BY <1>0, <2>1 DEF remainingQty
  <2>. QED BY <2>1, <2>2 DEF r, isOpen
<1>2. CASE r = s /\ isOpen(o)
  <2>1. Fills(o, m)
    BY Zenon DEF Fills
  <2>2. ~(~isOpen(o) \/ remainingQty(o) <= 0 \/ ~Fills(o, m))
    BY <1>0, <1>2, <2>1 DEF remainingQty
  <2>3. r.pos = s.pos + o.side * remainingQty(o)
    BY <2>2 DEF MatchOne
  <2>. HIDE DEF r
  <2>4. o.side * remainingQty(o) # 0
    BY <1>0, <1>2 DEF remainingQty
  <2>. QED BY <1>0, <1>2, <2>3, <2>4 DEF remainingQty
<1>3. CASE r = s /\ ~isOpen(o)
  BY <1>3
<1>. QED BY <1>1, <1>2, <1>3

LEMMA MatchCloses ==
  ASSUME FillCap = Nobody, NEW m \in Observation, NEW os \in Seq(Order), NEW p \in Int,
         NEW k \in DOMAIN os, os[k].kind = "MARKET", os[k].role # "STOP_LOSS", os[k].eligible,
         isOpen(os[k]) => remainingQty(os[k]) > 0,
         NEW M, M = matchOrders(m, os, p)
  PROVE  ~isOpen(M.orders[k])
<1>. DEFINE S == {s \in State : /\ Matches(os, s.orders)
                                /\ isOpen(s.orders[k]) => remainingQty(s.orders[k]) > 0}
            R == {x \in (SUBSET DOMAIN os) \X S : k \in x[1] => ~isOpen(x[2].orders[k])}
            s0 == [orders |-> os, pos |-> p]
            s1 == MatchThose(m, os, s0, TRUE)
<1>1. s0 \in S
  <2>1. s0 \in State /\ s0.orders = os
    BY DEF State
  <2>2. Matches(os, os)
    BY DEF Matches, SameOrder
  <2>. QED BY <2>1, <2>2
<1>2. \A s \in S, i \in DOMAIN os : /\ MatchOne(m, s, i) \in S
                                    /\ i = k \/ ~isOpen(s.orders[k]) => ~isOpen(MatchOne(m, s, i).orders[k])
  <2>. TAKE s \in S, i \in DOMAIN os
  <2>. DEFINE r == MatchOne(m, s, i)
              t == s.orders
  <2>0. /\ s \in State /\ i \in DOMAIN t /\ k \in DOMAIN t /\ Matches(os, t)
        /\ isOpen(t[k]) => remainingQty(t[k]) > 0
    BY DEF Matches
  <2>1. r \in State /\ Matches(t, r.orders)
    <3>. HIDE DEF S
    <3>. QED BY <2>0, MatchOneMatches
  <2>2. t[k].kind = "MARKET" /\ t[k].eligible
    BY <2>0 DEF Matches, SameOrder
  <2>3. i = k => ~isOpen(r.orders[k])
    <3>. HIDE DEF S
    <3>. QED BY <2>0, <2>2, MatchOneCloses
  <2>4. i # k /\ r # s => \E q \in Nat : Reduced(t[k], r.orders[k], q)
    <3>. HIDE DEF S
    <3>. QED BY <2>0, MatchOneFills
  <2>. HIDE DEF r
  <2>5. isOpen(r.orders[k]) => remainingQty(r.orders[k]) > 0
    <3>1. CASE r = s
      BY <2>0, <3>1
    <3>2. CASE i # k /\ r # s
      <4>1. r.orders[k] \in Order
        BY <2>0, <2>1 DEF State, Matches
      <4>2. r.orders[k].filled \in Int /\ r.orders[k].qty \in Int
        BY <4>1, OrderFields
      <4>. QED BY <2>0, <2>4, <3>2, <4>2 DEF Reduced, remainingQty
    <3>. QED BY <2>3, <3>1, <3>2
  <2>6. Matches(os, r.orders)
    BY <2>0, <2>1, MatchesTwice
  <2>7. ~isOpen(t[k]) => ~isOpen(r.orders[k])
    BY <2>0, <2>1 DEF Matches
  <2>. QED BY <2>1, <2>3, <2>5, <2>6, <2>7 DEF r
<1>3. \A s \in S, i \in DOMAIN os, stops \in BOOLEAN : MatchStep(m, os, stops, i, s) \in S
  <2>. HIDE DEF S
  <2>. QED BY <1>2 DEF MatchStep
<1>4. s1 \in S
  <2>. HIDE DEF S, s0
  <2>. QED BY <1>1, <1>2, MatchThoseStays
<1>5. <<{}, s1>> \in R
  BY <1>4
<1>6. IsStop(os[k]) = FALSE
  BY Zenon DEF IsStop
<1>7. \A U \in SUBSET DOMAIN os, acc \in S :
        U # {} /\ <<U \ {Max(U)}, acc>> \in R => <<U, MatchStep(m, os, FALSE, Max(U), acc)>> \in R
  <2>. TAKE U \in SUBSET DOMAIN os, acc \in S
  <2>. HAVE U # {} /\ <<U \ {Max(U)}, acc>> \in R
  <2>1. Max(U) \in U
    <3>1. DOMAIN os = 1..Len(os) /\ Len(os) \in Nat
      OBVIOUS
    <3>. QED BY <3>1, MaxIsIn
  <2>. DEFINE t == MatchStep(m, os, FALSE, Max(U), acc)
  <2>2. t \in S
    BY <1>3, <2>1
  <2>3. k \in U => ~isOpen(t.orders[k])
    <3>. HAVE k \in U
    <3>1. CASE Max(U) = k
      <4>1. t = MatchOne(m, acc, k)
        BY <1>6, <3>1 DEF MatchStep
      <4>. HIDE DEF t, S
      <4>. QED BY <1>2, <4>1
    <3>2. CASE Max(U) # k
      <4>1. ~isOpen(acc.orders[k])
        BY <3>2
      <4>2. t = acc \/ t = MatchOne(m, acc, Max(U))
        BY Zenon DEF MatchStep
      <4>. HIDE DEF t, S
      <4>. QED BY <1>2, <2>1, <4>1, <4>2
    <3>. QED BY <3>1, <3>2
  <2>. HIDE DEF t, S
  <2>. QED BY <2>2, <2>3 DEF t
<1>8. <<DOMAIN os, MatchThose(m, os, s1, FALSE)>> \in R
  <2>. HIDE DEF S, R, s1
  <2>. QED BY <1>3, <1>4, <1>5, <1>7, MatchThoseReaches
<1>9. M = MatchThose(m, os, s1, FALSE)
  BY DEF matchOrders
<1>. HIDE DEF S, s1
<1>. QED BY <1>8, <1>9

\* The legs of a bracket close what its entry filled.
Family(os) ==
  \A i \in DOMAIN os : os[i].parent # Nobody =>
    Protective(os[i]) /\ os[i].parent \in FilledEntries(os) /\ os[i].side = -os[os[i].parent].side

OneGroup(os) ==
  \A i \in OpenIn(os), j \in OpenIn(os) :
    i # j /\ Protective(os[i]) /\ Protective(os[j]) => os[j].group = os[i].group /\ os[i].group # Nobody

\* One entry at most waits for its bracket, and then nothing else works.
Childless(os, r, d) == d \in FilledEntries(os) /\ Children(r, d) = {}

OneWaits(os, r) ==
  \A d \in DOMAIN os : Childless(os, r, d) =>
    OpenIn(r) \subseteq {d} /\ \A c \in DOMAIN os : Childless(os, r, c) => c = d

ChildrenFit(r, d, p) == \A i \in Children(r, d) : isOpen(r[i]) => FitsIn(r[i], p)

LEMMA FittedLeg ==
  ASSUME NEW p \in Int, NEW o \in Order, NEW entry \in Order, o.side = -entry.side,
         NEW sole, NEW protect, protect = IF Sign(p) = entry.side THEN Magnitude(p) ELSE 0,
         NEW target, target = IF sole THEN o.filled + protect ELSE Smaller(entry.filled, o.filled + protect),
         isOpen(Resized(o, target))
  PROVE  FitsIn(Resized(o, target), p)
<1>1. o.filled \in Int /\ entry.filled \in Int /\ entry.side \in {1, -1} /\ protect \in Int
  BY OrderFields DEF Sides, Magnitude
<1>2. target \in Int /\ target <= o.filled + protect
  <2>1. o.filled + protect \in Int
    BY <1>1
  <2>2. Smaller(entry.filled, o.filled + protect) \in Int
        /\ Smaller(entry.filled, o.filled + protect) <= o.filled + protect
    BY <1>1, <2>1 DEF Smaller
  <2>3. target = o.filled + protect \/ target = Smaller(entry.filled, o.filled + protect)
    BY Zenon
  <2>. QED BY <1>1, <2>1, <2>2, <2>3
<1>. DEFINE r == Resized(o, target)
<1>3. r.filled = o.filled /\ target > o.filled /\ r.qty = target /\ SameOrder(o, r)
  BY <1>2, ResizedIs
<1>. HIDE DEF r
<1>4. protect > 0 /\ r.qty - r.filled <= protect
  BY <1>1, <1>2, <1>3
<1>5. Sign(p) = entry.side /\ protect = Magnitude(p)
  <2>. HIDE DEF FitsIn
  <2>. QED BY <1>4
<1>6. r.side = -Sign(p)
  BY <1>3, <1>5 DEF SameOrder
<1>7. FitsIn(r, p)
  BY <1>4, <1>5, <1>6 DEF FitsIn, remainingQty
<1>. QED BY <1>7 DEF r

\* One entry reconciled: its legs fit, and it touches nothing else that works.
Touches(os, r, d) ==
  /\ \A i \in DOMAIN os : os[i].parent # d /\ isOpen(r[i]) => r[i] = os[i]
  /\ \A i \in DOMAIN r \ DOMAIN os : r[i].parent = d

\* Existing legs follow the position.
LEMMA LegsFollow ==
  ASSUME NEW p \in Int, NEW sole, NEW os \in Seq(Order), NEW d \in FilledEntries(os),
         Family(os), OneGroup(os), Children(os, d) # {},
         NEW r, r = SyncEntry(p, sole, os, d)
  PROVE  Family(r) /\ OneGroup(r) /\ ChildrenFit(r, d, p) /\ Touches(os, r, d)
<1>0. d \in DOMAIN os /\ d # Nobody /\ os[d] \in Order
  BY NobodyAssumption DEF FilledEntries
<1>1. r \in Seq(Order) /\ DOMAIN r = DOMAIN os
  <2>1. SyncEntry(p, sole, os, d) \in Seq(Order) /\ Len(SyncEntry(p, sole, os, d)) = Len(os)
    BY <1>0, EntrySettles
  <2>. QED BY <2>1, SameLength, Zenon
<1>2. \A i \in DOMAIN os : r[i] = Settled(p, sole, os, d, i)
  <2>1. \A i \in DOMAIN os : SyncEntry(p, sole, os, d)[i] = Settled(p, sole, os, d, i)
    BY <1>0, EntrySettles
  <2>. QED BY <2>1, Zenon
<1>3. \A i \in DOMAIN os : /\ SameOrder(os[i], r[i]) /\ r[i].filled = os[i].filled
                           /\ isOpen(r[i]) => isOpen(os[i])
  <2>. TAKE i \in DOMAIN os
  <2>1. /\ SameOrder(os[i], Settled(p, sole, os, d, i)) /\ Settled(p, sole, os, d, i).filled = os[i].filled
        /\ isOpen(Settled(p, sole, os, d, i)) => isOpen(os[i])
    BY <1>0, SettledIs
  <2>. QED BY <1>2, <2>1, Zenon
<1>. HIDE DEF SyncEntry
<1>4. FilledEntries(r) = FilledEntries(os)
  BY <1>1, <1>3 DEF FilledEntries, SameOrder
<1>5. Family(r)
  <2>. SUFFICES ASSUME NEW i \in DOMAIN r, r[i].parent # Nobody
                PROVE  Protective(r[i]) /\ r[i].parent \in FilledEntries(r) /\ r[i].side = -r[r[i].parent].side
    BY DEF Family
  <2>1. i \in DOMAIN os /\ os[i].parent = r[i].parent /\ os[i].side = r[i].side /\ os[i].role = r[i].role
    BY <1>1, <1>3 DEF SameOrder
  <2>2. Protective(os[i]) /\ os[i].parent \in FilledEntries(os) /\ os[i].side = -os[os[i].parent].side
    BY <2>1 DEF Family
  <2>3. r[r[i].parent].side = os[os[i].parent].side
    BY <1>3, <2>1, <2>2 DEF FilledEntries, SameOrder
  <2>. QED BY <1>4, <2>1, <2>2, <2>3 DEF Protective
<1>6. OneGroup(r)
  BY <1>1, <1>3 DEF OneGroup, OpenIn, Protective, SameOrder
<1>7. Touches(os, r, d)
  <2>1. ASSUME NEW i \in DOMAIN os, os[i].parent # d, isOpen(r[i]) PROVE r[i] = os[i]
    <3>1. i \notin Children(os, d) /\ os[i] \in Order
      BY <2>1 DEF Children
    <3>2. r[i] = Canceled(os[i]) \/ r[i] = os[i]
      BY <1>2, <3>1, Zenon DEF Settled
    <3>. QED BY <2>1, <3>1, <3>2, CanceledIs
  <2>. QED BY <1>1, <2>1 DEF Touches
<1>8. ASSUME NEW i \in Children(r, d), isOpen(r[i]) PROVE FitsIn(r[i], p)
  <2>1. i \in DOMAIN os /\ i \in Children(os, d) /\ isOpen(os[i]) /\ os[i] \in Order
    BY <1>1, <1>3, <1>8 DEF Children, SameOrder
  <2>2. os[i].side = -os[d].side
    BY <1>0, <2>1 DEF Children, Family
  <2>3. r[i] = Resized(os[i], SyncTarget(p, sole, os, d, i))
    BY <1>2, <2>1 DEF Settled
  <2>. DEFINE protect == IF Sign(p) = os[d].side THEN Magnitude(p) ELSE 0
              target == IF sole THEN os[i].filled + protect ELSE Smaller(os[d].filled, os[i].filled + protect)
  <2>4. SyncTarget(p, sole, os, d, i) = target
    BY Zenon DEF SyncTarget
  <2>. HIDE DEF target, FitsIn
  <2>5. r[i] = Resized(os[i], target) /\ isOpen(Resized(os[i], target))
    BY <1>8, <2>3, <2>4
  <2>6. target = IF sole THEN os[i].filled + protect ELSE Smaller(os[d].filled, os[i].filled + protect)
    BY Zenon DEF target
  <2>. HIDE DEF protect
  <2>7. protect = IF Sign(p) = os[d].side THEN Magnitude(p) ELSE 0
    BY DEF protect
  <2>8. FitsIn(Resized(os[i], target), p)
    BY <1>0, <2>1, <2>2, <2>5, <2>6, <2>7, FittedLeg
  <2>. QED BY <2>5, <2>8
<1>. QED BY <1>5, <1>6, <1>7, <1>8 DEF ChildrenFit

\* A new bracket is for the whole position.
LEMMA LegsOpen ==
  ASSUME NEW p \in Int, p # 0, NEW sole, NEW os \in Seq(Order), NEW d \in FilledEntries(os),
         Family(os), Children(os, d) = {}, OpenIn(os) \subseteq {d}, p = os[d].side * os[d].filled,
         NEW r, r = SyncEntry(p, sole, os, d)
  PROVE  Family(r) /\ OneGroup(r) /\ ChildrenFit(r, d, p) /\ Touches(os, r, d)
<1>0. d \in DOMAIN os /\ d # Nobody /\ os[d] \in Order /\ os[d].role = "ENTRY" /\ os[d].filled > 0
  BY NobodyAssumption DEF FilledEntries
<1>1. r = createBracketLegs(os, d)
  BY DEF SyncEntry
<1>. HIDE DEF SyncEntry
<1>. DEFINE new == {Len(os) + 1, Len(os) + 2}
<1>2. /\ r \in Seq(Order) /\ Len(r) = Len(os) + 2
      /\ \A j \in DOMAIN os : r[j] = os[j]
      /\ \A j \in new : /\ r[j].filled = 0 /\ r[j].qty = os[d].filled
                        /\ r[j].parent = d /\ r[j].group = Len(os) + 1
                        /\ Protective(r[j]) /\ r[j].side = -os[d].side
  BY <1>0, <1>1, LegsAreCreated
<1>3. DOMAIN r = DOMAIN os \cup new
  <2>1. r \in Seq(Order) /\ Len(r) = Len(os) + 2
    BY <1>2
  <2>. QED BY <2>1, TwoMore, Zenon
<1>4. Len(os) + 1 # Nobody
  BY NobodyAssumption
<1>. HIDE DEF new
<1>5. FilledEntries(os) \subseteq FilledEntries(r)
  BY <1>2, <1>3 DEF FilledEntries
<1>6. Family(r)
  <2>. SUFFICES ASSUME NEW i \in DOMAIN r, r[i].parent # Nobody
                PROVE  Protective(r[i]) /\ r[i].parent \in FilledEntries(r) /\ r[i].side = -r[r[i].parent].side
    BY DEF Family
  <2>1. CASE i \in DOMAIN os
    <3>1. Protective(os[i]) /\ os[i].parent \in FilledEntries(os) /\ os[i].side = -os[os[i].parent].side
      BY <1>2, <2>1 DEF Family
    <3>2. os[i].parent \in DOMAIN os
      BY <3>1 DEF FilledEntries
    <3>. QED BY <1>2, <1>5, <2>1, <3>1, <3>2
  <2>2. CASE i \in new
    BY <1>0, <1>2, <1>5, <2>2
  <2>. QED BY <1>3, <2>1, <2>2
<1>7. \A i \in OpenIn(r) : i \in new \/ ~Protective(r[i])
  BY <1>0, <1>2, <1>3 DEF OpenIn, Protective
<1>8. OneGroup(r)
  BY <1>2, <1>4, <1>7 DEF OneGroup
<1>9. Touches(os, r, d)
  BY <1>2, <1>3 DEF Touches
<1>10. ASSUME NEW i \in Children(r, d) PROVE FitsIn(r[i], p)
  <2>1. i \in new
    BY <1>2, <1>3 DEF Children
  <2>2. os[d].side \in {1, -1} /\ os[d].filled \in Int
    BY <1>0, OrderFields DEF Sides
  <2>3. Magnitude(p) = os[d].filled /\ Sign(p) = os[d].side
    <3>1. CASE os[d].side = 1
      BY <1>0, <2>2, <3>1 DEF Magnitude, Sign
    <3>2. CASE os[d].side = -1
      <4>1. p = -os[d].filled
        BY <2>2, <3>2
      <4>. QED BY <1>0, <2>2, <3>2, <4>1 DEF Magnitude, Sign
    <3>. QED BY <2>2, <3>1, <3>2
  <2>. QED BY <1>2, <2>1, <2>2, <2>3 DEF FitsIn, remainingQty
<1>. QED BY <1>6, <1>8, <1>9, <1>10 DEF ChildrenFit

\* What holds of a table while its entries are reconciled one by one.
Reconciling(os, r) ==
  /\ Later(os, r) /\ Family(r) /\ OneGroup(r) /\ OneWaits(os, r)
  /\ \A i \in DOMAIN os : ~Protective(os[i]) /\ isOpen(r[i]) => r[i] = os[i]

\* The entry that waits for its bracket is the position.
Opening(os, p) == \A d \in DOMAIN os : Childless(os, os, d) => p = os[d].side * os[d].filled

LEMMA EntryFits ==
  ASSUME NEW p \in Int, NEW sole, NEW os \in Seq(Order), Opening(os, p),
         NEW acc \in Seq(Order), Reconciling(os, acc), NEW d \in FilledEntries(os),
         NEW t, t = SyncEntry(p, sole, acc, d)
  PROVE  /\ t \in Seq(Order) /\ Reconciling(os, t) /\ ChildrenFit(t, d, p)
         /\ \A c \in DOMAIN os \ {d} : ChildrenFit(acc, c, p) => ChildrenFit(t, c, p)
<1>1. /\ Later(os, acc) /\ Family(acc) /\ OneGroup(acc) /\ OneWaits(os, acc)
      /\ \A i \in DOMAIN os : ~Protective(os[i]) /\ isOpen(acc[i]) => acc[i] = os[i]
      /\ d \in DOMAIN os /\ DOMAIN os \subseteq DOMAIN acc
  BY DEF Reconciling, FilledEntries, Later
<1>2. d \in FilledEntries(acc) /\ d \in DOMAIN acc
  BY <1>1, FilledEntriesStay
<1>3. /\ t \in Seq(Order) /\ Later(acc, t) /\ (p # 0 => Children(t, d) # {})
      /\ p = 0 \/ Children(acc, d) # {} => Len(t) = Len(acc)
  BY <1>2, EntrySyncs
<1>4. Later(os, t)
  BY <1>1, <1>3, LaterTwice
<1>5. \A c : Children(acc, c) # {} => Children(t, c) # {}
  BY <1>3, ChildrenStay
<1>6. Children(acc, d) = {} => /\ OpenIn(acc) \subseteq {d} /\ p = acc[d].side * acc[d].filled
                               /\ \A c \in DOMAIN os : Childless(os, acc, c) => c = d
  <2>. HAVE Children(acc, d) = {}
  <2>1. Childless(os, acc, d)
    BY DEF Childless
  <2>2. Children(os, d) = {}
    BY <1>1, ChildrenStay
  <2>3. p = os[d].side * os[d].filled
    BY <1>1, <2>2 DEF Opening, Childless
  <2>4. acc[d].side = os[d].side /\ acc[d].filled = os[d].filled
    BY <1>1 DEF Later, SameOrder
  <2>. QED BY <1>1, <2>1, <2>3, <2>4 DEF OneWaits
<1>7. Family(t) /\ OneGroup(t) /\ ChildrenFit(t, d, p) /\ Touches(acc, t, d)
  <2>1. CASE Children(acc, d) # {}
    BY <1>1, <1>2, <2>1, LegsFollow
  <2>2. CASE Children(acc, d) = {} /\ p # 0
    BY <1>1, <1>2, <1>6, <2>2, LegsOpen
  <2>3. CASE Children(acc, d) = {} /\ p = 0
    <3>1. t = acc
      BY <2>3 DEF SyncEntry
    <3>2. ChildrenFit(acc, d, p) /\ Touches(acc, acc, d)
      BY <2>3 DEF ChildrenFit, Touches
    <3>. QED BY <1>1, <3>1, <3>2
  <2>. QED BY <2>1, <2>2, <2>3
<1>8. \A i \in DOMAIN os : ~Protective(os[i]) /\ isOpen(t[i]) => t[i] = os[i]
  <2>. TAKE i \in DOMAIN os
  <2>. HAVE ~Protective(os[i]) /\ isOpen(t[i])
  <2>1. i \in DOMAIN acc /\ acc[i].role = os[i].role /\ isOpen(acc[i])
    BY <1>1, <1>3 DEF Later, SameOrder
  <2>2. acc[i].parent # d
    <3>1. d # Nobody
      BY <1>1, NobodyAssumption
    <3>. QED BY <1>1, <2>1, <3>1 DEF Family, Protective
  <2>. QED BY <1>1, <1>7, <2>1, <2>2 DEF Touches
<1>9. OneWaits(os, t)
  <2>. SUFFICES ASSUME NEW c \in DOMAIN os, Childless(os, t, c)
                PROVE  OpenIn(t) \subseteq {c} /\ \A b \in DOMAIN os : Childless(os, t, b) => b = c
    BY DEF OneWaits
  <2>1. \A b \in DOMAIN os : Childless(os, t, b) => Childless(os, acc, b)
    BY <1>5 DEF Childless
  <2>2. OpenIn(acc) \subseteq {c} /\ \A b \in DOMAIN os : Childless(os, acc, b) => b = c
    BY <1>1, <2>1 DEF OneWaits
  <2>3. p = 0 \/ Children(acc, d) # {}
    BY <1>3, <1>6, <2>1 DEF Childless
  <2>4. DOMAIN t = DOMAIN acc
    BY <1>3, <2>3, SameLength
  <2>5. OpenIn(t) \subseteq OpenIn(acc)
    BY <1>3, <2>4 DEF OpenIn, Later
  <2>. QED BY <2>1, <2>2, <2>5
<1>10. ASSUME NEW c \in DOMAIN os \ {d}, ChildrenFit(acc, c, p), NEW i \in Children(t, c), isOpen(t[i])
       PROVE  FitsIn(t[i], p)
  <2>1. i \in DOMAIN t /\ t[i].parent = c
    BY <1>10 DEF Children
  <2>2. i \in DOMAIN acc
    BY <1>7, <1>10, <2>1 DEF Touches
  <2>3. acc[i].parent = c
    BY <1>3, <2>1, <2>2 DEF Later, SameOrder
  <2>4. t[i] = acc[i]
    BY <1>7, <1>10, <2>2, <2>3 DEF Touches
  <2>. QED BY <1>10, <2>2, <2>3, <2>4 DEF ChildrenFit, Children
<1>. QED BY <1>3, <1>4, <1>7, <1>8, <1>9, <1>10 DEF Reconciling, ChildrenFit

LEMMA BracketsFit ==
  ASSUME NEW p \in Int, NEW os \in Seq(Order), Opening(os, p), Family(os), OneGroup(os), OneWaits(os, os),
         NEW b, b = syncBrackets(os, p)
  PROVE  /\ b \in Seq(Order) /\ Reconciling(os, b)
         /\ \A d \in FilledEntries(os) : ChildrenFit(b, d, p)
<1>. DEFINE S == {r \in Seq(Order) : Reconciling(os, r)}
            R == {x \in (SUBSET DOMAIN os) \X S :
                    \A d \in x[1] \cap FilledEntries(os) : ChildrenFit(x[2], d, p)}
<1>1. os \in S
  BY DEF Reconciling, Later, SameOrder
<1>2. \A acc \in S, d \in DOMAIN os :
        /\ SyncStep(p, os, d, acc) \in S
        /\ d \in FilledEntries(os) => ChildrenFit(SyncStep(p, os, d, acc), d, p)
        /\ \A c \in DOMAIN os \ {d} : ChildrenFit(acc, c, p) => ChildrenFit(SyncStep(p, os, d, acc), c, p)
  <2>. TAKE acc \in S, d \in DOMAIN os
  <2>1. CASE d \notin FilledEntries(os)
    BY <2>1 DEF SyncStep
  <2>2. CASE d \in FilledEntries(os)
    <3>. DEFINE t == SyncStep(p, os, d, acc)
                sole == FilledEntries(os) = {d}
    <3>1. t = SyncEntry(p, sole, acc, d)
      BY <2>2 DEF SyncStep
    <3>2. acc \in Seq(Order) /\ Reconciling(os, acc)
      OBVIOUS
    <3>. HIDE DEF t, sole
    <3>3. /\ t \in Seq(Order) /\ Reconciling(os, t) /\ ChildrenFit(t, d, p)
          /\ \A c \in DOMAIN os \ {d} : ChildrenFit(acc, c, p) => ChildrenFit(t, c, p)
      BY <2>2, <3>1, <3>2, EntryFits
    <3>. QED BY <3>3 DEF t
  <2>. QED BY <2>1, <2>2
<1>3. <<{}, os>> \in R
  BY <1>1
<1>4. \A U \in SUBSET DOMAIN os, acc \in S :
        U # {} /\ <<U \ {Max(U)}, acc>> \in R => <<U, SyncStep(p, os, Max(U), acc)>> \in R
  <2>. TAKE U \in SUBSET DOMAIN os, acc \in S
  <2>. HAVE U # {} /\ <<U \ {Max(U)}, acc>> \in R
  <2>1. Max(U) \in U /\ Max(U) \in DOMAIN os
    <3>1. DOMAIN os = 1..Len(os) /\ Len(os) \in Nat
      OBVIOUS
    <3>. QED BY <3>1, MaxIsIn
  <2>. DEFINE t == SyncStep(p, os, Max(U), acc)
  <2>2. /\ t \in S
        /\ Max(U) \in FilledEntries(os) => ChildrenFit(t, Max(U), p)
        /\ \A c \in DOMAIN os \ {Max(U)} : ChildrenFit(acc, c, p) => ChildrenFit(t, c, p)
    BY <1>2, <2>1
  <2>3. \A d \in (U \ {Max(U)}) \cap FilledEntries(os) : ChildrenFit(acc, d, p)
    OBVIOUS
  <2>. HIDE DEF t, S
  <2>4. \A d \in U \cap FilledEntries(os) : ChildrenFit(t, d, p)
    BY <2>2, <2>3
  <2>. QED BY <2>2, <2>4 DEF t
<1>5. b \in S /\ <<DOMAIN os, b>> \in R
  <2>. HIDE DEF S, R
  <2>. QED BY <1>1, <1>2, <1>3, <1>4, SyncStays
<1>6. FilledEntries(os) \subseteq DOMAIN os
  BY DEF FilledEntries
<1>. QED BY <1>5, <1>6

(* What reconciling leaves working: legs that fit the position, and what   *)
(* is not protective as it was.                                            *)
LEMMA SyncedFits ==
  ASSUME NEW s \in State, NEW os, os = s.orders, NEW p, p = s.pos,
         Opening(os, p), Family(os), OneGroup(os), OneWaits(os, os),
         NEW r, r = Synced(s).orders
  PROVE  /\ Family(r) /\ OneGroup(r)
         /\ \A i \in OpenIn(r) : Protective(r[i]) => FitsIn(r[i], p)
         /\ \A i \in OpenIn(r) \cap DOMAIN os : ~Protective(os[i]) => r[i] = os[i]
<1>. DEFINE b == syncBrackets(os, p)
            c == syncProtection(b, p)
<1>1. os \in Seq(Order) /\ p \in Int
  BY DEF State
<1>2. r = c
  BY DEF Synced, State
<1>3. b \in Seq(Order) /\ Reconciling(os, b) /\ \A d \in FilledEntries(os) : ChildrenFit(b, d, p)
  BY <1>1, BracketsFit
<1>. HIDE DEF b
<1>4. /\ c \in Seq(Order) /\ Len(c) = Len(b) /\ Later(b, c)
      /\ \A i \in DOMAIN b : c[i] = Covering(b, p, i)
  BY <1>1, <1>3, ProtectionSyncs
<1>. HIDE DEF c
<1>5. /\ Later(os, b) /\ Family(b) /\ OneGroup(b) /\ DOMAIN os \subseteq DOMAIN b /\ DOMAIN c = DOMAIN b
      /\ \A i \in DOMAIN os : ~Protective(os[i]) /\ isOpen(b[i]) => b[i] = os[i]
  BY <1>1, <1>3, <1>4, SameLength DEF Reconciling, Later
<1>6. FilledEntries(c) = FilledEntries(b) /\ FilledEntries(b) = FilledEntries(os)
  BY <1>1, <1>3, <1>4, <1>5, FilledEntriesStay
<1>7. \A i \in DOMAIN b : /\ c[i].role = b[i].role /\ c[i].parent = b[i].parent /\ c[i].side = b[i].side
                          /\ c[i].group = b[i].group /\ (isOpen(c[i]) => isOpen(b[i]))
  BY <1>4 DEF Later, SameOrder
<1>8. Family(c)
  <2>1. \A i \in DOMAIN b : b[i].parent # Nobody =>
          /\ Protective(b[i]) /\ b[i].parent \in FilledEntries(b)
          /\ b[i].parent \in DOMAIN b /\ b[i].side = -b[b[i].parent].side
    BY <1>5 DEF Family, FilledEntries
  <2>. QED BY <1>5, <1>6, <1>7, <2>1 DEF Family, Protective
<1>9. OneGroup(c)
  BY <1>5, <1>7 DEF OneGroup, OpenIn, Protective
<1>10. ASSUME NEW i \in OpenIn(c), Protective(c[i]) PROVE FitsIn(c[i], p)
  <2>1. i \in DOMAIN b /\ isOpen(c[i]) /\ isOpen(b[i]) /\ Protective(b[i]) /\ b[i] \in Order
    BY <1>3, <1>5, <1>7, <1>10 DEF OpenIn, Protective
  <2>2. CASE b[i].parent = Nobody
    <3>. DEFINE target == IF Sign(p) = -b[i].side THEN b[i].filled + Magnitude(p) ELSE b[i].filled
    <3>1. c[i] = Resized(b[i], target)
      BY <1>4, <2>1, <2>2 DEF Covering
    <3>2. b[i].filled \in Int /\ b[i].side \in {1, -1} /\ Magnitude(p) \in Int
      BY <1>1, <2>1, OrderFields DEF Magnitude, Sides
    <3>3. target \in Int
      BY <3>2
    <3>. HIDE DEF target
    <3>4. /\ c[i].filled = b[i].filled /\ target > b[i].filled /\ c[i].qty = target
          /\ c[i].side = b[i].side
      BY <2>1, <3>1, <3>3, ResizedIs DEF SameOrder
    <3>5. Sign(p) = -b[i].side /\ target = b[i].filled + Magnitude(p)
      BY <3>2, <3>4 DEF target
    <3>6. c[i].side = -Sign(p) /\ c[i].qty - c[i].filled = Magnitude(p)
      BY <3>2, <3>4, <3>5
    <3>. QED BY <3>2, <3>6 DEF FitsIn, remainingQty
  <2>3. CASE b[i].parent # Nobody
    <3>1. b[i].parent \in FilledEntries(os) /\ i \in Children(b, b[i].parent)
      BY <1>5, <1>6, <2>1, <2>3 DEF Family, Children
    <3>2. c[i] = b[i]
      BY <1>4, <2>1, <2>3 DEF Covering
    <3>. QED BY <1>3, <2>1, <3>1, <3>2 DEF ChildrenFit
  <2>. QED BY <2>2, <2>3
<1>11. ASSUME NEW i \in OpenIn(c) \cap DOMAIN os, ~Protective(os[i]) PROVE c[i] = os[i]
  <2>1. i \in DOMAIN b /\ isOpen(b[i]) /\ b[i] = os[i]
    BY <1>5, <1>7, <1>11 DEF OpenIn
  <2>. QED BY <1>4, <1>11, <2>1 DEF Covering
<1>. QED BY <1>2, <1>8, <1>9, <1>10, <1>11

\* Every bracketed entry that filled has its legs, and one that has not yet
\* is all there is.
AllBracketed(os) == \A e \in FilledEntries(os) : Children(os, e) # {}
EntryAlone(os, p) ==
  \A e \in OpenIn(os) : os[e].role = "ENTRY" /\ os[e].filled = 0 => p = 0 /\ OpenIn(os) = {e}

Founded(os) == (\A i \in DOMAIN os : os[i].filled >= 0) /\ Family(os) /\ AllBracketed(os)
Tidy(os, p) == Founded(os) /\ EntryAlone(os, p) /\ ExitsFit(os, p)

\* The same orders, which have filled further, and new ones.
FillsOn(os, r) ==
  /\ Len(r) >= Len(os)
  /\ \A j \in DOMAIN os : r[j].role = os[j].role /\ r[j].tag = os[j].tag /\ r[j].filled >= os[j].filled

LEMMA FillsOnTwice ==
  ASSUME NEW os \in Seq(Order), NEW r \in Seq(Order), NEW t \in Seq(Order), FillsOn(os, r), FillsOn(r, t)
  PROVE  FillsOn(os, t)
<1>1. DOMAIN os \subseteq DOMAIN r /\ Len(t) >= Len(os)
  BY DEF FillsOn
<1>2. \A j \in DOMAIN os : os[j].filled \in Int /\ r[j].filled \in Int /\ t[j].filled \in Int
  <2>1. \A j \in DOMAIN os : os[j] \in Order /\ r[j] \in Order /\ t[j] \in Order
    BY <1>1 DEF FillsOn
  <2>. QED BY <2>1, OrderFields
<1>3. \A j \in DOMAIN os : t[j].filled >= os[j].filled
  <2>. TAKE j \in DOMAIN os
  <2>1. t[j].filled >= r[j].filled /\ r[j].filled >= os[j].filled
    BY <1>1 DEF FillsOn
  <2>. QED BY <1>2, <2>1
<1>. QED BY <1>1, <1>3 DEF FillsOn

LEMMA LaterFillsOn ==
  ASSUME NEW os \in Seq(Order), NEW r \in Seq(Order), Later(os, r)
  PROVE  FillsOn(os, r)
<1>1. \A j \in DOMAIN os : os[j].filled \in Int
  BY OrderFields
<1>. QED BY <1>1 DEF Later, FillsOn, SameOrder

LEMMA MatchFillsOn ==
  ASSUME NEW m \in Observation, NEW os \in Seq(Order), NEW p \in Int, NEW M, M = matchOrders(m, os, p)
  PROVE  M.orders \in Seq(Order) /\ DOMAIN M.orders = DOMAIN os /\ FillsOn(os, M.orders)
<1>1. M \in State /\ Matches(os, M.orders) /\ \A j \in DOMAIN os : M.orders[j].filled >= os[j].filled
  BY OrdersMatch, MatchAdds
<1>2. M.orders \in Seq(Order) /\ DOMAIN M.orders = DOMAIN os
  BY <1>1 DEF State, Matches
<1>3. Len(M.orders) = Len(os)
  BY <1>2
<1>. QED BY <1>1, <1>2, <1>3 DEF FillsOn, Matches, SameOrder

\* Fills do not part a family.
LEMMA FamilyFills ==
  ASSUME NEW os \in Seq(Order), NEW r \in Seq(Order), Family(os), DOMAIN r = DOMAIN os,
         \A j \in DOMAIN os : /\ r[j].role = os[j].role /\ r[j].parent = os[j].parent /\ r[j].side = os[j].side
                              /\ r[j].filled >= os[j].filled
  PROVE  Family(r) /\ FilledEntries(os) \subseteq FilledEntries(r)
<1>1. \A j \in DOMAIN os : os[j].filled \in Int /\ r[j].filled \in Int
  BY OrderFields
<1>2. FilledEntries(os) \subseteq FilledEntries(r)
  BY <1>1 DEF FilledEntries
<1>3. \A i \in DOMAIN os : os[i].parent # Nobody =>
        /\ Protective(os[i]) /\ os[i].parent \in FilledEntries(os)
        /\ os[i].parent \in DOMAIN os /\ os[i].side = -os[os[i].parent].side
  BY DEF Family, FilledEntries
<1>. QED BY <1>2, <1>3 DEF Family, Protective

\* Liquidation is an exit among orders that are canceled.
LEMMA LiquidationFits ==
  ASSUME NEW s \in State, Founded(s.orders), NEW L, L = LiquidationOrders(s)
  PROVE  /\ L \in Seq(Order) /\ Founded(L) /\ ExitsFit(L, s.pos) /\ FillsOn(s.orders, L)
         /\ \A i \in OpenIn(L) : L[i].tag = "liquidate" /\ L[i].role = "STANDALONE"
<1>0. s.orders \in Seq(Order) /\ s.pos \in Int
  BY DEF State
<1>1. /\ L \in Seq(Order) /\ Len(L) >= Len(s.orders)
      /\ \A i \in DOMAIN s.orders : /\ SameOrder(s.orders[i], L[i])
                                    /\ L[i].filled = s.orders[i].filled
                                    /\ ~isOpen(L[i])
      /\ \A i \in DOMAIN L \ DOMAIN s.orders :
           /\ L[i].tag = "liquidate" /\ L[i].role = "STANDALONE" /\ L[i].filled = 0
           /\ i = Len(s.orders) + 1 /\ L[i].parent = Nobody
           /\ L[i].side = -Sign(s.pos) /\ L[i].qty = Magnitude(s.pos)
  BY LiquidationTable
<1>2. DOMAIN s.orders \subseteq DOMAIN L
  BY <1>0, <1>1
<1>3. \A i \in OpenIn(L) : i \in DOMAIN L \ DOMAIN s.orders
  BY <1>1 DEF OpenIn
<1>4. ExitsFit(L, s.pos)
  <2>1. \A i \in OpenIn(L) : /\ L[i].side = -Sign(s.pos) /\ L[i].qty - L[i].filled = Magnitude(s.pos)
                             /\ i = Len(s.orders) + 1
    <3>1. Magnitude(s.pos) \in Int
      BY <1>0 DEF Magnitude
    <3>. QED BY <1>1, <1>3, <3>1
  <2>2. \A i \in OpenIn(L) : FitsIn(L[i], s.pos)
    <3>1. Magnitude(s.pos) \in Int
      BY <1>0 DEF Magnitude
    <3>. QED BY <2>1, <3>1 DEF FitsIn, remainingQty
  <2>3. \A i \in OpenIn(L), j \in OpenIn(L) : i = j
    BY <2>1
  <2>. QED BY <2>2, <2>3, Zenon DEF ExitsFit
<1>5. FilledEntries(L) = FilledEntries(s.orders)
  <2>1. \A j \in DOMAIN s.orders : L[j].role = s.orders[j].role /\ L[j].filled = s.orders[j].filled
    BY <1>1 DEF SameOrder
  <2>2. \A j \in DOMAIN L \ DOMAIN s.orders : L[j].role # "ENTRY"
    BY <1>1
  <2>. QED BY <1>2, <2>1, <2>2 DEF FilledEntries
<1>6. Family(L)
  <2>1. \A i \in DOMAIN s.orders : /\ L[i].role = s.orders[i].role /\ L[i].parent = s.orders[i].parent
                                   /\ L[i].side = s.orders[i].side
    BY <1>1 DEF SameOrder
  <2>2. \A i \in DOMAIN s.orders : s.orders[i].parent # Nobody =>
          /\ Protective(s.orders[i]) /\ s.orders[i].parent \in FilledEntries(s.orders)
          /\ s.orders[i].parent \in DOMAIN s.orders
          /\ s.orders[i].side = -s.orders[s.orders[i].parent].side
    BY DEF Founded, Family, FilledEntries
  <2>3. \A i \in DOMAIN L \ DOMAIN s.orders : L[i].parent = Nobody
    BY <1>1
  <2>. QED BY <1>5, <2>1, <2>2, <2>3 DEF Family, Protective
<1>7. AllBracketed(L)
  <2>. SUFFICES ASSUME NEW e \in FilledEntries(L) PROVE Children(L, e) # {}
    BY DEF AllBracketed
  <2>1. PICK k \in DOMAIN s.orders : s.orders[k].parent = e
    BY <1>5 DEF Founded, AllBracketed, Children
  <2>2. k \in DOMAIN L /\ L[k].parent = e
    BY <1>1, <1>2, <2>1 DEF SameOrder
  <2>. QED BY <2>2 DEF Children
<1>8. FillsOn(s.orders, L)
  <2>1. \A j \in DOMAIN s.orders : s.orders[j].filled \in Int
    BY <1>0, OrderFields
  <2>. QED BY <1>1, <2>1 DEF FillsOn, SameOrder
<1>9. \A i \in DOMAIN L : L[i].filled >= 0
  <2>1. \A i \in DOMAIN s.orders : s.orders[i].filled >= 0
    BY DEF Founded
  <2>. QED BY <1>1, <2>1
<1>. QED BY <1>1, <1>3, <1>4, <1>6, <1>7, <1>8, <1>9 DEF Founded

\* Reconciling a table whose brackets are all there keeps them.
LEMMA SyncedStaysFounded ==
  ASSUME NEW s \in State, Founded(s.orders), OneGroup(s.orders), NEW r, r = Synced(s)
  PROVE  /\ r \in State /\ r.pos = s.pos /\ Founded(r.orders) /\ OneGroup(r.orders)
         /\ Len(r.orders) = Len(s.orders) /\ Later(s.orders, r.orders)
         /\ \A i \in OpenIn(r.orders) : Protective(r.orders[i]) => FitsIn(r.orders[i], s.pos)
         /\ \A i \in OpenIn(r.orders) : ~Protective(r.orders[i]) => r.orders[i] = s.orders[i]
<1>. DEFINE os == s.orders
            t == r.orders
<1>1. os \in Seq(Order) /\ s.pos \in Int
  BY DEF State
<1>2. /\ r \in State /\ r.pos = s.pos /\ Later(os, t)
      /\ Bracketed(os, s.pos) => Len(t) = Len(os)
  BY SyncedIs
<1>3. t \in Seq(Order)
  BY <1>2 DEF State
<1>4. AllBracketed(os) /\ Family(os) /\ \A i \in DOMAIN os : os[i].filled >= 0
  BY DEF Founded
<1>. HIDE DEF Founded
<1>5. Len(t) = Len(os) /\ DOMAIN t = DOMAIN os
  <2>1. Len(t) = Len(os)
    BY <1>2, <1>4 DEF Bracketed, AllBracketed
  <2>. QED BY <1>1, <1>3, <2>1, SameLength
<1>6. /\ Family(t) /\ OneGroup(t)
      /\ \A i \in OpenIn(t) : Protective(t[i]) => FitsIn(t[i], s.pos)
      /\ \A i \in OpenIn(t) \cap DOMAIN os : ~Protective(os[i]) => t[i] = os[i]
  <2>1. Opening(os, s.pos) /\ OneWaits(os, os)
    BY <1>4 DEF Opening, OneWaits, Childless, AllBracketed
  <2>. QED BY <1>4, <2>1, SyncedFits
<1>7. AllBracketed(t)
  <2>. SUFFICES ASSUME NEW e \in FilledEntries(t) PROVE Children(t, e) # {}
    BY DEF AllBracketed
  <2>1. Children(os, e) # {}
    BY <1>1, <1>2, <1>3, <1>4, FilledEntriesStay DEF AllBracketed
  <2>. QED BY <1>1, <1>2, <1>3, <2>1, ChildrenStay
<1>8. \A i \in DOMAIN t : t[i].filled >= 0 /\ t[i].role = os[i].role
  BY <1>2, <1>4, <1>5 DEF Later, SameOrder
<1>. QED BY <1>2, <1>5, <1>6, <1>7, <1>8 DEF Founded, OpenIn, Protective

\* A breach closes what is held, and leaves at most what is left of that.
LEMMA EnforceFits ==
  ASSUME NEW s \in State, Founded(s.orders), NEW price \in Int,
         NEW r, r = enforce(s, "FAILED", price)
  PROVE  /\ r \in State /\ Reduces(s.pos, r.pos)
         /\ Tidy(r.orders, r.pos) /\ FillsOn(s.orders, r.orders)
<1>0. s.orders \in Seq(Order) /\ s.pos \in Int /\ \A j \in DOMAIN s.orders : s.orders[j].filled \in Int
  BY OrderFields DEF State
<1>1. CASE ~hasExposure(s)
  <2>1. r = s /\ OpenIn(s.orders) = {}
    BY <1>1 DEF enforce, hasExposure
  <2>2. FillsOn(s.orders, s.orders)
    BY <1>0 DEF FillsOn
  <2>3. EntryAlone(s.orders, s.pos) /\ ExitsFit(s.orders, s.pos)
    BY <2>1, Zenon DEF EntryAlone, ExitsFit
  <2>. QED BY <1>0, <2>1, <2>2, <2>3, StillReduces DEF Tidy
<1>2. CASE hasExposure(s)
  <2>. DEFINE L == LiquidationOrders(s)
              M == matchOrders(Quote(price), L, s.pos)
  <2>1. r = Synced(M)
    BY <1>2 DEF enforce
  <2>2. /\ L \in Seq(Order) /\ Founded(L) /\ ExitsFit(L, s.pos) /\ FillsOn(s.orders, L)
        /\ \A i \in OpenIn(L) : L[i].tag = "liquidate" /\ L[i].role = "STANDALONE"
    BY LiquidationFits
  <2>. HIDE DEF L
  <2>3. Quote(price) \in Observation
    BY QuoteIsObservation
  <2>4. /\ M \in State /\ Matches(L, M.orders) /\ M.orders \in Seq(Order) /\ M.pos \in Int
        /\ DOMAIN M.orders = DOMAIN L /\ FillsOn(L, M.orders)
    <3>1. M \in State /\ Matches(L, M.orders)
      BY <1>0, <2>2, <2>3, OrdersMatch
    <3>2. M.orders \in Seq(Order) /\ DOMAIN M.orders = DOMAIN L /\ FillsOn(L, M.orders)
      BY <1>0, <2>2, <2>3, MatchFillsOn
    <3>. QED BY <3>1, <3>2 DEF State
  <2>5. Reduces(s.pos, M.pos) /\ ExitsFit(M.orders, M.pos)
    <3>1. \A j \in DOMAIN L : L[j].filled \in Int /\ M.orders[j].filled \in Int
      BY <2>2, <2>4, OrderFields
    <3>2. OnlyExits(L, M.orders)
      BY <2>2, <2>4, <3>1 DEF OnlyExits, Matches, IsExit, OpenIn
    <3>. QED BY <1>0, <2>2, <2>3, <3>2, MatchReduces
  <2>. HIDE DEF M
  <2>6. \A i \in OpenIn(M.orders) : M.orders[i].tag = "liquidate" /\ M.orders[i].role = "STANDALONE"
    BY <2>2, <2>4 DEF OpenIn, Matches, SameOrder
  <2>7. FilledEntries(M.orders) = FilledEntries(L)
    <3>1. \A j \in DOMAIN L : L[j].role = "ENTRY" => M.orders[j].filled = L[j].filled
      BY <2>2, <2>4 DEF OpenIn, Matches
    <3>. QED BY <2>4, <3>1 DEF FilledEntries, Matches, SameOrder
  <2>8. Founded(M.orders)
    <3>1. Family(M.orders)
      BY <2>2, <2>4, FamilyFills DEF Founded, FillsOn, Matches, SameOrder
    <3>2. AllBracketed(M.orders)
      <4>. SUFFICES ASSUME NEW e \in FilledEntries(L) PROVE Children(M.orders, e) # {}
        BY <2>7 DEF AllBracketed
      <4>1. PICK k \in DOMAIN L : L[k].parent = e
        BY <2>2 DEF Founded, AllBracketed, Children
      <4>. QED BY <2>4, <4>1 DEF Children, Matches, SameOrder
    <3>3. \A i \in DOMAIN M.orders : M.orders[i].filled >= 0
      <4>. TAKE i \in DOMAIN M.orders
      <4>1. M.orders[i].filled >= L[i].filled /\ L[i].filled >= 0
        BY <2>2, <2>4 DEF FillsOn, Founded
      <4>2. M.orders[i].filled \in Int /\ L[i].filled \in Int
        BY <2>2, <2>4, OrderFields
      <4>. QED BY <4>1, <4>2
    <3>. QED BY <3>1, <3>2, <3>3 DEF Founded
  <2>9. OneGroup(M.orders)
    BY <2>6 DEF OneGroup, Protective
  <2>10. /\ r \in State /\ r.pos = M.pos /\ Founded(r.orders)
         /\ Len(r.orders) = Len(M.orders) /\ Later(M.orders, r.orders)
         /\ \A i \in OpenIn(r.orders) : ~Protective(r.orders[i]) => r.orders[i] = M.orders[i]
    BY <2>1, <2>4, <2>8, <2>9, SyncedStaysFounded
  <2>11. r.orders \in Seq(Order)
    BY <2>10 DEF State
  <2>12. DOMAIN r.orders = DOMAIN M.orders
    BY <2>4, <2>10, <2>11, SameLength
  <2>13. \A i \in OpenIn(r.orders) : i \in OpenIn(M.orders) /\ r.orders[i] = M.orders[i]
    BY <2>6, <2>10, <2>12 DEF OpenIn, Later, SameOrder, Protective
  <2>14. ExitsFit(r.orders, r.pos)
    BY <2>5, <2>10, <2>13 DEF ExitsFit
  <2>15. EntryAlone(r.orders, r.pos)
    BY <2>6, <2>13 DEF EntryAlone
  <2>16. FillsOn(s.orders, r.orders)
    BY <1>0, <2>2, <2>4, <2>10, <2>11, FillsOnTwice, LaterFillsOn
  <2>. QED BY <2>5, <2>10, <2>14, <2>15, <2>16 DEF Tidy
<1>. QED BY <1>1, <1>2

\* The same orders, fewer of them at work.
Thinner(os, r) ==
  /\ Len(r) = Len(os)
  /\ \A j \in DOMAIN os :
       /\ r[j].role = os[j].role /\ r[j].tag = os[j].tag /\ r[j].side = os[j].side
       /\ r[j].parent = os[j].parent /\ r[j].group = os[j].group /\ r[j].filled = os[j].filled
       /\ isOpen(r[j]) => isOpen(os[j]) /\ r[j].qty = os[j].qty

LEMMA ThinnerIsTidy ==
  ASSUME NEW os \in Seq(Order), NEW r \in Seq(Order), NEW p, Thinner(os, r), Tidy(os, p)
  PROVE  Tidy(r, p)
<1>1. DOMAIN r = DOMAIN os
  BY SameLength DEF Thinner
<1>2. \A j \in DOMAIN os :
        /\ r[j].role = os[j].role /\ r[j].tag = os[j].tag /\ r[j].side = os[j].side
        /\ r[j].parent = os[j].parent /\ r[j].group = os[j].group /\ r[j].filled = os[j].filled
        /\ isOpen(r[j]) => isOpen(os[j]) /\ r[j].qty = os[j].qty
  BY DEF Thinner
<1>3. Family(os) /\ AllBracketed(os) /\ EntryAlone(os, p) /\ ExitsFit(os, p)
      /\ \A i \in DOMAIN os : os[i].filled >= 0
  BY DEF Tidy, Founded
<1>. HIDE DEF Tidy
<1>4. FilledEntries(r) = FilledEntries(os)
  BY <1>1, <1>2 DEF FilledEntries
<1>5. Family(r)
  <2>1. \A i \in DOMAIN os : os[i].parent # Nobody =>
          /\ Protective(os[i]) /\ os[i].parent \in FilledEntries(os)
          /\ os[i].parent \in DOMAIN os /\ os[i].side = -os[os[i].parent].side
    BY <1>3 DEF Family, FilledEntries
  <2>. QED BY <1>1, <1>2, <1>4, <2>1 DEF Family, Protective
<1>6. AllBracketed(r)
  BY <1>1, <1>2, <1>3, <1>4 DEF AllBracketed, Children
<1>7. EntryAlone(r, p)
  <2>. SUFFICES ASSUME NEW e \in OpenIn(r), r[e].role = "ENTRY", r[e].filled = 0
                PROVE  p = 0 /\ OpenIn(r) = {e}
    BY DEF EntryAlone
  <2>1. e \in OpenIn(os) /\ os[e].role = "ENTRY" /\ os[e].filled = 0
    BY <1>1, <1>2 DEF OpenIn
  <2>2. p = 0 /\ OpenIn(os) = {e}
    BY <1>3, <2>1 DEF EntryAlone
  <2>3. OpenIn(r) \subseteq OpenIn(os)
    BY <1>1, <1>2 DEF OpenIn
  <2>. QED BY <2>2, <2>3
<1>8. ExitsFit(r, p)
  <2>1. \A i \in OpenIn(r) : /\ i \in OpenIn(os) /\ IsExit(r[i]) = IsExit(os[i])
                             /\ r[i].side = os[i].side /\ r[i].qty = os[i].qty /\ r[i].filled = os[i].filled
                             /\ r[i].group = os[i].group
    BY <1>1, <1>2 DEF OpenIn, IsExit, Protective
  <2>. QED BY <1>3, <2>1 DEF ExitsFit, FitsIn, remainingQty
<1>. QED BY <1>1, <1>2, <1>3, <1>5, <1>6, <1>7, <1>8 DEF Tidy, Founded

\* A pass with something at work: every bracket is there again, its legs fit,
\* and an entry that has not filled is still alone.
LEMMA MatchedIsTidy ==
  ASSUME NEW m \in Observation, NEW os \in Seq(Order), NEW p \in Int, Tidy(os, p),
         NEW M, M = matchOrders(m, os, p), NEW c, c = Synced(M)
  PROVE  /\ M \in State /\ Matches(os, M.orders)
         /\ c \in State /\ c.pos = M.pos /\ Later(M.orders, c.orders)
         /\ Founded(c.orders) /\ EntryAlone(c.orders, c.pos) /\ OneGroup(c.orders)
         /\ \A i \in OpenIn(c.orders) : Protective(c.orders[i]) => FitsIn(c.orders[i], c.pos)
<1>. DEFINE w == M.orders
            t == c.orders
<1>1. Family(os) /\ AllBracketed(os) /\ EntryAlone(os, p) /\ ExitsFit(os, p)
      /\ \A i \in DOMAIN os : os[i].filled >= 0
  BY DEF Tidy, Founded
<1>2. M \in State /\ Matches(os, w)
  BY OrdersMatch
<1>3. w \in Seq(Order) /\ M.pos \in Int /\ DOMAIN w = DOMAIN os
  BY <1>2 DEF State, Matches
<1>4. \A j \in DOMAIN os : w[j].filled >= os[j].filled
  BY MatchAdds
<1>5. /\ c \in State /\ c.pos = M.pos /\ Later(w, t)
      /\ Bracketed(t, c.pos)
      /\ Bracketed(w, M.pos) => Len(t) = Len(w)
  BY <1>2, SyncedIs
<1>6. t \in Seq(Order)
  BY <1>5 DEF State
<1>7. \A j \in DOMAIN os :
        /\ os[j].filled \in Int /\ w[j].filled \in Int /\ os[j] \in Order
        /\ w[j].role = os[j].role /\ w[j].parent = os[j].parent /\ w[j].side = os[j].side
        /\ w[j].group = os[j].group
        /\ isOpen(w[j]) => isOpen(os[j])
        /\ w[j].filled # os[j].filled => isOpen(os[j])
  BY <1>2, <1>3, OrderFields DEF Matches, SameOrder
<1>8. \A j \in DOMAIN os : w[j].filled >= 0
  BY <1>1, <1>4, <1>7
<1>9. Family(w) /\ FilledEntries(os) \subseteq FilledEntries(w)
  BY <1>1, <1>3, <1>4, <1>7, FamilyFills
<1>10. \A e \in FilledEntries(os) : Children(w, e) # {}
  <2>. TAKE e \in FilledEntries(os)
  <2>1. PICK k \in DOMAIN os : os[k].parent = e
    BY <1>1 DEF AllBracketed, Children
  <2>. QED BY <1>3, <1>7, <2>1 DEF Children
<1>11. OneGroup(w)
  <2>1. \A i \in OpenIn(w) : /\ i \in OpenIn(os) /\ Protective(w[i]) = Protective(os[i])
                             /\ w[i].group = os[i].group
    BY <1>3, <1>7 DEF OpenIn, Protective
  <2>2. OneGroup(os)
    BY <1>1 DEF ExitsFit, OneGroup, IsExit
  <2>. QED BY <2>1, <2>2 DEF OneGroup
<1>12. FilledEntries(t) = FilledEntries(w)
  BY <1>3, <1>5, <1>6, FilledEntriesStay
<1>. HIDE DEF w, t
<1>13. CASE \E e \in OpenIn(os) : os[e].role = "ENTRY" /\ os[e].filled = 0
  <2>1. PICK e \in OpenIn(os) : os[e].role = "ENTRY" /\ os[e].filled = 0
    BY <1>13
  <2>2. e \in DOMAIN os /\ p = 0 /\ OpenIn(os) = {e}
    BY <1>1, <2>1 DEF EntryAlone, OpenIn
  <2>3. M.pos = os[e].side * w[e].filled
    BY <2>1, <2>2, MatchOfEntry DEF w
  <2>4. OpenIn(w) \subseteq {e}
    BY <1>3, <1>7, <2>2 DEF OpenIn
  <2>5. \A d \in FilledEntries(w) : Children(w, d) = {} => d = e
    <3>. TAKE d \in FilledEntries(w)
    <3>. HAVE Children(w, d) = {}
    <3>1. d \in DOMAIN os /\ w[d].role = "ENTRY" /\ w[d].filled > 0
      BY <1>3 DEF FilledEntries
    <3>2. d \notin FilledEntries(os)
      BY <1>10
    <3>3. w[d].filled # os[d].filled
      BY <1>7, <3>1, <3>2 DEF FilledEntries
    <3>. QED BY <1>7, <2>2, <3>1, <3>3 DEF OpenIn
  <2>6. Opening(w, M.pos) /\ OneWaits(w, w)
    <3>1. M.pos = w[e].side * w[e].filled
      BY <1>7, <2>2, <2>3
    <3>. QED BY <2>4, <2>5, <3>1 DEF Opening, OneWaits, Childless
  <2>7. /\ Family(t) /\ OneGroup(t)
        /\ \A i \in OpenIn(t) : Protective(t[i]) => FitsIn(t[i], M.pos)
    BY <1>2, <1>9, <1>11, <2>6, SyncedFits DEF w, t
  <2>8. w[e].filled = 0 => M.pos = 0
    <3>1. os[e].side \in Int
      BY <1>7, <2>2, OrderFields DEF Sides
    <3>. QED BY <2>3, <3>1
  <2>9. w[e].filled > 0 => M.pos # 0
    <3>1. os[e].side \in {1, -1}
      BY <1>7, <2>2, OrderFields DEF Sides
    <3>. QED BY <1>7, <2>2, <2>3, <3>1
  <2>10. AllBracketed(t)
    <3>. SUFFICES ASSUME NEW d \in FilledEntries(w) PROVE Children(t, d) # {}
      BY <1>12 DEF AllBracketed
    <3>1. CASE Children(w, d) # {}
      BY <1>3, <1>5, <1>6, <3>1, ChildrenStay
    <3>2. CASE Children(w, d) = {}
      <4>1. d = e /\ w[e].filled > 0
        BY <2>5, <3>2 DEF FilledEntries
      <4>. QED BY <1>5, <1>12, <2>9, <4>1 DEF Bracketed
    <3>. QED BY <3>1, <3>2
  <2>11. EntryAlone(t, c.pos)
    <3>. SUFFICES ASSUME NEW i \in OpenIn(t), t[i].role = "ENTRY", t[i].filled = 0
                  PROVE  c.pos = 0 /\ OpenIn(t) = {i}
      BY DEF EntryAlone
    <3>1. i \in DOMAIN w /\ isOpen(w[i]) /\ w[i].filled = 0
      BY <1>3, <1>5, <1>6 DEF OpenIn, Later, SameOrder
    <3>2. i = e
      BY <2>4, <3>1 DEF OpenIn
    <3>3. M.pos = 0
      BY <2>8, <3>1, <3>2
    <3>4. DOMAIN t = DOMAIN w
      BY <1>3, <1>5, <1>6, <3>3, SameLength DEF Bracketed
    <3>5. OpenIn(t) \subseteq OpenIn(w)
      BY <1>5, <3>4 DEF OpenIn, Later
    <3>. QED BY <1>5, <2>4, <3>2, <3>3, <3>5
  <2>12. \A i \in DOMAIN t : t[i].filled >= 0
    BY <1>3, <1>5, <1>6, <1>8 DEF Later
  <2>. QED BY <1>2, <1>5, <2>7, <2>10, <2>11, <2>12 DEF Founded, w, t
<1>14. CASE ~\E e \in OpenIn(os) : os[e].role = "ENTRY" /\ os[e].filled = 0
  <2>1. FilledEntries(w) = FilledEntries(os)
    <3>. SUFFICES ASSUME NEW d \in FilledEntries(w) PROVE d \in FilledEntries(os)
      BY <1>9
    <3>1. d \in DOMAIN os /\ os[d].role = "ENTRY" /\ w[d].filled > 0
      BY <1>3, <1>7 DEF FilledEntries
    <3>2. CASE os[d].filled = 0
      BY <1>7, <1>14, <3>1, <3>2 DEF OpenIn
    <3>3. CASE os[d].filled # 0
      BY <1>1, <1>7, <3>1, <3>3 DEF FilledEntries
    <3>. QED BY <3>2, <3>3
  <2>2. Founded(w)
    BY <1>3, <1>8, <1>9, <1>10, <2>1 DEF Founded, AllBracketed
  <2>3. /\ Founded(t) /\ OneGroup(t) /\ Len(t) = Len(w)
        /\ \A i \in OpenIn(t) : Protective(t[i]) => FitsIn(t[i], M.pos)
    BY <1>2, <1>11, <2>2, SyncedStaysFounded DEF w, t
  <2>4. EntryAlone(t, c.pos)
    <3>. SUFFICES ASSUME NEW i \in OpenIn(t), t[i].role = "ENTRY", t[i].filled = 0
                  PROVE  FALSE
      BY DEF EntryAlone
    <3>1. i \in DOMAIN os
      BY <1>3, <1>6, <2>3, SameLength DEF OpenIn
    <3>2. isOpen(w[i]) /\ w[i].filled = 0 /\ w[i].role = "ENTRY"
      BY <1>3, <1>5, <3>1 DEF OpenIn, Later, SameOrder
    <3>3. os[i].filled = 0
      BY <1>1, <1>4, <1>7, <3>1, <3>2
    <3>. QED BY <1>7, <1>14, <3>1, <3>2, <3>3 DEF OpenIn
  <2>. QED BY <1>2, <1>5, <2>3, <2>4 DEF w, t
<1>. QED BY <1>13, <1>14

\* In an account that trades no closing order is left at work.
NoneCloses(os) == \A i \in OpenIn(os) : os[i].tag \notin {"flatten", "liquidate"}

\* What a pass finds at work: a flatten that this pass completes, and no
\* liquidation.
Closable(os) ==
  \A i \in OpenIn(os) :
    /\ os[i].tag # "liquidate"
    /\ os[i].tag = "flatten" =>
         /\ FillCap = Nobody /\ os[i].kind = "MARKET" /\ os[i].role # "STOP_LOSS"
         /\ os[i].eligible /\ remainingQty(os[i]) > 0

LEMMA MatchedExits ==
  ASSUME NEW m \in Observation, NEW os \in Seq(Order), NEW p \in Int, Tidy(os, p), Closable(os),
         NEW M, M = matchOrders(m, os, p), NEW c, c = Synced(M)
  PROVE  Tidy(c.orders, c.pos) /\ NoneCloses(c.orders)
<1>. DEFINE t == c.orders
<1>1. /\ M \in State /\ Matches(os, M.orders)
      /\ c \in State /\ c.pos = M.pos /\ Later(M.orders, t)
      /\ Founded(t) /\ EntryAlone(t, c.pos) /\ OneGroup(t)
      /\ \A i \in OpenIn(t) : Protective(t[i]) => FitsIn(t[i], c.pos)
  BY MatchedIsTidy
<1>2. M.orders \in Seq(Order) /\ t \in Seq(Order) /\ DOMAIN M.orders = DOMAIN os
  BY <1>1 DEF State, Matches
<1>3. \A k \in DOMAIN os : os[k].tag = "flatten" => ~isOpen(M.orders[k])
  <2>. TAKE k \in DOMAIN os
  <2>. HAVE os[k].tag = "flatten"
  <2>1. CASE ~isOpen(os[k])
    BY <1>1, <2>1 DEF Matches
  <2>2. CASE isOpen(os[k])
    <3>1. /\ FillCap = Nobody /\ os[k].kind = "MARKET" /\ os[k].role # "STOP_LOSS"
          /\ os[k].eligible /\ remainingQty(os[k]) > 0
      BY <2>2 DEF Closable, OpenIn
    <3>. HIDE DEF Closable, Tidy
    <3>. QED BY <3>1, MatchCloses
  <2>. QED BY <2>1, <2>2
<1>. HIDE DEF t
<1>4. ASSUME NEW i \in OpenIn(t) PROVE t[i].tag \notin {"flatten", "liquidate"}
  <2>1. CASE i \in DOMAIN M.orders
    <3>1. isOpen(M.orders[i]) /\ t[i].tag = M.orders[i].tag
      BY <1>1, <2>1 DEF Later, SameOrder, OpenIn, t
    <3>2. isOpen(os[i]) /\ M.orders[i].tag = os[i].tag /\ i \in DOMAIN os
      BY <1>1, <1>2, <2>1, <3>1 DEF Matches, SameOrder
    <3>3. os[i].tag # "flatten"
      BY <1>3, <3>1, <3>2
    <3>4. os[i].tag # "liquidate"
      BY <3>2 DEF Closable, OpenIn
    <3>. QED BY <3>1, <3>2, <3>3, <3>4
  <2>2. CASE i \notin DOMAIN M.orders
    <3>1. i \in DOMAIN t \ DOMAIN M.orders
      BY <2>2 DEF OpenIn
    <3>2. t[i].tag = "bracket"
      BY <1>1, <3>1 DEF Later, t
    <3>. QED BY <3>2
  <2>. QED BY <2>1, <2>2
<1>5. \A i \in OpenIn(t) : IsExit(t[i]) => Protective(t[i])
  BY <1>4 DEF IsExit
<1>6. ExitsFit(t, c.pos)
  <2>1. \A i \in OpenIn(t) : IsExit(t[i]) => FitsIn(t[i], c.pos)
    BY <1>1, <1>5 DEF t
  <2>2. ASSUME NEW i \in OpenIn(t), IsExit(t[i]), NEW j \in OpenIn(t) \ {i}, IsExit(t[j])
        PROVE  t[j].group = t[i].group /\ t[i].group # Nobody
    <3>1. Protective(t[i]) /\ Protective(t[j]) /\ i # j
      BY <1>5, <2>2
    <3>. QED BY <1>1, <3>1 DEF OneGroup, t
  <2>. QED BY <2>1, <2>2 DEF ExitsFit
<1>. QED BY <1>1, <1>4, <1>6 DEF Tidy, NoneCloses, t

\* A whole pass.
LEMMA PassFits ==
  ASSUME orders \in Seq(Order), pos \in Int, status \in Statuses,
         NEW m \in Observation, NEW os \in Seq(Order), Grown(orders, os), Tidy(os, pos),
         status = "ACTIVE" => Closable(os), matchLocked(m, os)
  PROVE  /\ orders' \in Seq(Order) /\ pos' \in Int /\ FillsOn(os, orders')
         /\ Tidy(orders', pos')
         /\ status' = "ACTIVE" => NoneCloses(orders')
         /\ (\A i \in Traded : Exits(i)) => Reduces(pos, pos')
<1>. DEFINE M == Matched(m, os)
            c == Reconciled(os, M)
<1>0. PICK st \in Statuses :
        /\ status = "FAILED" => st = "FAILED"
        /\ Commit(m, IF OpenIn(os) = {} /\ pos = 0 THEN M ELSE enforce(c, st, m.last), st)
  <2>1. PICK st \in IF MayBreach(M.pos) THEN {status, "FAILED"} ELSE {status} :
          Commit(m, IF OpenIn(os) = {} /\ pos = 0 THEN M ELSE enforce(c, st, m.last), st)
    BY Zenon DEF matchLocked
  <2>2. st \in {status, "FAILED"}
    BY <2>1
  <2>. HIDE DEF M, c
  <2>. QED BY <2>1, <2>2 DEF Statuses
<1>1. PICK s : /\ s = IF OpenIn(os) = {} /\ pos = 0 THEN M ELSE enforce(c, st, m.last)
               /\ Commit(m, s, st)
  <2>. HIDE DEF M, c
  <2>. QED BY <1>0
<1>2. /\ M \in State /\ Matches(os, M.orders)
      /\ OpenIn(os) = {} => M = [orders |-> os, pos |-> pos]
  BY MatchedIs
<1>3. OpenIn(os) = {} => c = M
  BY DEF Reconciled
<1>4. OpenIn(os) # {} => M = matchOrders(m, os, pos) /\ c = Synced(M)
  BY DEF Reconciled, Matched
<1>. HIDE DEF M, c
<1>5. /\ c \in State /\ c.pos = M.pos /\ M.orders \in Seq(Order) /\ M.pos \in Int
      /\ FillsOn(os, M.orders) /\ FillsOn(M.orders, c.orders)
      /\ Founded(c.orders) /\ (status = "ACTIVE" => Tidy(c.orders, c.pos) /\ NoneCloses(c.orders))
      /\ (OpenIn(os) = {} /\ pos = 0 => Tidy(c.orders, c.pos))
      /\ OnlyExits(os, M.orders) => Reduces(pos, M.pos)
  <2>1. M.orders \in Seq(Order) /\ M.pos \in Int
    BY <1>2 DEF State
  <2>2. CASE OpenIn(os) = {}
    <3>1. c = M /\ M.orders = os /\ M.pos = pos
      BY <1>2, <1>3, <2>2
    <3>2. FillsOn(os, os)
      <4>1. \A j \in DOMAIN os : os[j].filled \in Int
        BY OrderFields
      <4>. QED BY <4>1 DEF FillsOn
    <3>3. NoneCloses(os)
      BY <2>2, Zenon DEF NoneCloses
    <3>4. Founded(os) /\ Reduces(pos, pos)
      BY StillReduces DEF Tidy
    <3>. QED BY <1>2, <2>1, <3>1, <3>2, <3>3, <3>4
  <2>3. CASE OpenIn(os) # {}
    <3>1. M = matchOrders(m, os, pos) /\ c = Synced(M)
      BY <1>4, <2>3
    <3>2. FillsOn(os, M.orders)
      BY <3>1, MatchFillsOn
    <3>3. c \in State /\ c.pos = M.pos /\ Later(M.orders, c.orders) /\ Founded(c.orders)
      BY <3>1, MatchedIsTidy
    <3>4. FillsOn(M.orders, c.orders)
      BY <2>1, <3>3, LaterFillsOn DEF State
    <3>5. status = "ACTIVE" => Tidy(c.orders, c.pos) /\ NoneCloses(c.orders)
      BY <3>1, MatchedExits
    <3>6. OnlyExits(os, M.orders) => Reduces(pos, M.pos)
      BY <3>1, MatchReduces DEF Tidy
    <3>. QED BY <2>1, <2>3, <3>2, <3>3, <3>4, <3>5, <3>6
  <2>. QED BY <2>2, <2>3
<1>6. c.orders \in Seq(Order) /\ c.pos \in Int
  BY <1>5 DEF State
<1>7. /\ s \in State /\ Tidy(s.orders, s.pos) /\ FillsOn(c.orders, s.orders) /\ Reduces(c.pos, s.pos)
      /\ st = "ACTIVE" => NoneCloses(s.orders)
  <2>0. FillsOn(c.orders, c.orders)
    <3>1. \A j \in DOMAIN c.orders : c.orders[j].filled \in Int
      BY <1>6, OrderFields
    <3>. QED BY <3>1 DEF FillsOn
  <2>1. CASE OpenIn(os) = {} /\ pos = 0
    <3>1. s = c /\ M.orders = os
      BY <1>1, <1>2, <1>3, <2>1
    <3>2. NoneCloses(s.orders)
      BY <1>3, <2>1, <3>1, Zenon DEF NoneCloses
    <3>. QED BY <1>5, <1>6, <2>0, <2>1, <3>1, <3>2, StillReduces
  <2>2. CASE ~(OpenIn(os) = {} /\ pos = 0) /\ st = "FAILED"
    <3>1. s = enforce(c, "FAILED", m.last)
      BY <1>1, <2>2
    <3>2. m.last \in Int
      BY DEF Observation
    <3>3. s \in State /\ Reduces(c.pos, s.pos) /\ Tidy(s.orders, s.pos) /\ FillsOn(c.orders, s.orders)
      BY <1>5, <3>1, <3>2, EnforceFits
    <3>. QED BY <2>2, <3>3
  <2>3. CASE ~(OpenIn(os) = {} /\ pos = 0) /\ st # "FAILED"
    <3>1. s = c /\ status = "ACTIVE"
      BY <1>0, <1>1, <2>3 DEF enforce, Statuses
    <3>. QED BY <1>5, <1>6, <2>0, <3>1, StillReduces
  <2>. QED BY <2>1, <2>2, <2>3
<1>8. s.orders \in Seq(Order) /\ s.pos \in Int
  BY <1>7 DEF State
<1>9. /\ orders' \in Seq(Order) /\ Len(orders') = Len(s.orders) /\ pos' = s.pos /\ status' = st
      /\ Later(s.orders, orders')
      /\ \A i \in DOMAIN s.orders : /\ orders'[i].qty = s.orders[i].qty
                                    /\ orders'[i].status = s.orders[i].status
  BY <1>1, <1>7, CommitIs
<1>10. FillsOn(s.orders, orders') /\ Thinner(s.orders, orders')
  BY <1>8, <1>9, LaterFillsOn DEF Thinner, Later, SameOrder
<1>11. Tidy(orders', pos')
  BY <1>7, <1>8, <1>9, <1>10, ThinnerIsTidy
<1>12. DOMAIN orders' = DOMAIN s.orders
  BY <1>8, <1>9, SameLength
<1>13. status' = "ACTIVE" => NoneCloses(orders')
  BY <1>7, <1>9, <1>10, <1>12 DEF NoneCloses, Thinner, OpenIn
<1>14. FillsOn(M.orders, orders')
  BY <1>5, <1>6, <1>7, <1>8, <1>9, <1>10, FillsOnTwice
<1>15. FillsOn(os, orders')
  BY <1>5, <1>9, <1>14, FillsOnTwice
<1>16. ASSUME \A i \in Traded : Exits(i) PROVE Reduces(pos, pos')
  <2>1. OnlyExits(os, M.orders)
    <3>. SUFFICES ASSUME NEW j \in DOMAIN os, M.orders[j].filled > os[j].filled PROVE IsExit(os[j])
      BY DEF OnlyExits
    <3>1. /\ j \in DOMAIN M.orders /\ j \in DOMAIN orders'
          /\ orders'[j].filled >= M.orders[j].filled
          /\ orders'[j].role = os[j].role /\ orders'[j].tag = os[j].tag
      <4>1. j \in DOMAIN M.orders /\ j \in DOMAIN orders'
        BY <1>5, <1>9, <1>15 DEF FillsOn
      <4>. QED BY <1>14, <1>15, <4>1 DEF FillsOn
    <3>2. os[j].filled = IF j \in DOMAIN orders THEN orders[j].filled ELSE 0
      BY DEF Grown
    <3>3. os[j].filled \in Int /\ M.orders[j].filled \in Int /\ orders'[j].filled \in Int
      BY <1>5, <1>9, <3>1, OrderFields
    <3>4. orders'[j].filled > os[j].filled
      BY <3>1, <3>3
    <3>5. j \in Traded
      BY <3>1, <3>2, <3>4 DEF Traded
    <3>6. Exits(j)
      BY <1>16, <3>5
    <3>. QED BY <3>1, <3>6 DEF Exits, IsExit, Protective
  <2>2. Reduces(pos, M.pos) /\ Reduces(M.pos, pos')
    BY <1>5, <1>7, <1>9, <2>1
  <2>. QED BY <1>5, <1>8, <1>9, <2>2, ReducesTwice
<1>17. pos' \in Int
  BY <1>8, <1>9
<1>. QED BY <1>9, <1>11, <1>13, <1>15, <1>16, <1>17

(* The exits are in order: each that works is on the other side of what is *)
(* held and for no more than that, all are in one group, every bracket     *)
(* that filled has its legs, an entry that has not filled is all that      *)
(* works, and no closing order is left over.                               *)
ExitsInv == EngineTypes /\ Tidy(orders, pos) /\ (status = "ACTIVE" => NoneCloses(orders))

\* A step leaves them so, and shrinks the position where only exits trade.
Shrinks ==
  /\ Tidy(orders', pos') /\ (status' = "ACTIVE" => NoneCloses(orders'))
  /\ (\A i \in Traded : Exits(i)) => Reduces(pos, pos')

(* What the engine does by itself, with a breach and the liquidation where *)
(* they come, and what the trader does to orders and protection he has;    *)
(* not what adds an order of his or gives one another size.                *)
Steady ==
  \/ QuoteArrives \/ BarCloses \/ LatencyElapses
  \/ Cancel
  \/ \E i \in DOMAIN orders, at \in Levels : modifyOrder(i, at, orders[i].qty)
  \/ status = "ACTIVE" /\ SetProtection

LEMMA PassShrinks ==
  ASSUME ExitsInv, NEW m \in Observation, NEW os \in Seq(Order), Grown(orders, os), Tidy(os, pos),
         status = "ACTIVE" => Closable(os), matchLocked(m, os)
  PROVE  Shrinks
BY PassFits DEF ExitsInv, EngineTypes, Shrinks

LEMMA ThinningShrinks ==
  ASSUME ExitsInv, orders' \in Seq(Order), Thinner(orders, orders'), UNCHANGED <<pos, status>>
  PROVE  Shrinks
<1>1. orders \in Seq(Order) /\ pos \in Int /\ Tidy(orders, pos) /\ (status = "ACTIVE" => NoneCloses(orders))
  BY DEF ExitsInv, EngineTypes
<1>2. Tidy(orders', pos')
  BY <1>1, ThinnerIsTidy
<1>3. DOMAIN orders' = DOMAIN orders
  BY <1>1, SameLength DEF Thinner
<1>4. status' = "ACTIVE" => NoneCloses(orders')
  BY <1>1, <1>3 DEF NoneCloses, Thinner, OpenIn
<1>5. Reduces(pos, pos')
  BY <1>1, StillReduces
<1>. QED BY <1>2, <1>4, <1>5 DEF Shrinks

LEMMA CancelShrinks ==
  ASSUME ExitsInv, NEW i \in DOMAIN orders, cancelOrder(i)
  PROVE  Shrinks
<1>1. /\ orders \in Seq(Order) /\ orders[i] \in Order
      /\ orders' = [orders EXCEPT ![i] = Canceled(orders[i])]
      /\ UNCHANGED <<pos, status>>
  BY DEF ExitsInv, EngineTypes, cancelOrder
<1>2. /\ Canceled(orders[i]) \in Order /\ SameOrder(orders[i], Canceled(orders[i]))
      /\ ~isOpen(Canceled(orders[i])) /\ Canceled(orders[i]).filled = orders[i].filled
  BY <1>1, CanceledIs
<1>3. /\ orders' \in Seq(Order) /\ Len(orders') = Len(orders)
      /\ \A j \in DOMAIN orders : orders'[j] = IF j = i THEN Canceled(orders[i]) ELSE orders[j]
  BY <1>1, <1>2
<1>4. Thinner(orders, orders')
  BY <1>2, <1>3 DEF Thinner, SameOrder
<1>. QED BY <1>1, <1>3, <1>4, ThinningShrinks

LEMMA ModifyShrinks ==
  ASSUME ExitsInv, NEW i \in DOMAIN orders, NEW at \in Levels, NEW qty, qty = orders[i].qty,
         modifyOrder(i, at, qty)
  PROVE  Shrinks
<1>. DEFINE os == [orders EXCEPT ![i].at = at, ![i].qty = qty, ![i].rested = FALSE,
                     ![i].status = IF orders[i].filled >= qty THEN "FILLED" ELSE @]
<1>1. /\ orders \in Seq(Order) /\ pos \in Int /\ last \in Levels /\ qty = orders[i].qty
      /\ Tidy(orders, pos) /\ (status = "ACTIVE" => NoneCloses(orders))
      /\ matchLocked(Quote(last), os)
  BY DEF ExitsInv, EngineTypes, modifyOrder
<1>1a. at \in Int /\ qty \in Int /\ os = ModifiedTable(i, at, qty)
  <2>1. orders[i] \in Order
    BY <1>1
  <2>2. qty \in Int
    BY <1>1, <2>1 DEF Order
  <2>. QED BY <2>2, LevelsAreInts DEF ModifiedTable
<1>. HIDE DEF os
<1>2. /\ os \in Seq(Order) /\ DOMAIN os = DOMAIN orders /\ Len(os) = Len(orders)
      /\ \A j \in DOMAIN orders : os[j] = IF j = i THEN Modified(i, at, qty) ELSE orders[j]
      /\ SameOrder(orders[i], Modified(i, at, qty))
      /\ Modified(i, at, qty).filled = orders[i].filled
      /\ Modified(i, at, qty).qty = qty
      /\ Modified(i, at, qty).status = IF orders[i].filled >= qty THEN "FILLED" ELSE orders[i].status
  BY <1>1, <1>1a, ModifiedIs
<1>3. Grown(orders, os)
  BY <1>2 DEF Grown, SameOrder
<1>4. Thinner(orders, os)
  BY <1>1, <1>2 DEF Thinner, SameOrder, isOpen
<1>5. Tidy(os, pos)
  BY <1>1, <1>2, <1>4, ThinnerIsTidy
<1>6. status = "ACTIVE" => Closable(os)
  BY <1>1, <1>2, <1>4 DEF Closable, NoneCloses, Thinner, OpenIn
<1>7. Quote(last) \in Observation
  BY <1>1, LevelsAreInts, QuoteIsObservation
<1>. QED BY <1>1, <1>2, <1>3, <1>5, <1>6, <1>7, PassShrinks

LEMMA MarketShrinks ==
  ASSUME ExitsInv, NEW m \in Observation, onMarketEvent(m)
  PROVE  Shrinks
<1>1. /\ orders \in Seq(Order) /\ matchLocked(m, orders)
      /\ Tidy(orders, pos) /\ (status = "ACTIVE" => NoneCloses(orders))
  BY DEF ExitsInv, EngineTypes, onMarketEvent
<1>2. status = "ACTIVE" => Closable(orders)
  BY <1>1 DEF Closable, NoneCloses
<1>. QED BY <1>1, <1>2, GrownIsReflexive, PassShrinks

LEMMA LatencyShrinks ==
  ASSUME ExitsInv, LatencyElapses
  PROVE  Shrinks
<1>1. PICK i \in DOMAIN orders : /\ orders' = [orders EXCEPT ![i].eligible = TRUE]
                                 /\ UNCHANGED <<pos, last, status>>
  BY DEF LatencyElapses
<1>2. orders \in Seq(Order) /\ orders[i] \in Order
  BY DEF ExitsInv, EngineTypes
<1>. DEFINE o == [orders[i] EXCEPT !.eligible = TRUE]
<1>3. /\ o \in Order /\ o.role = orders[i].role /\ o.tag = orders[i].tag /\ o.side = orders[i].side
      /\ o.parent = orders[i].parent /\ o.group = orders[i].group
      /\ o.filled = orders[i].filled /\ o.qty = orders[i].qty /\ o.status = orders[i].status
  BY <1>2 DEF Order
<1>4. orders' = [orders EXCEPT ![i] = o]
  BY <1>1
<1>. HIDE DEF o
<1>5. /\ orders' \in Seq(Order) /\ Len(orders') = Len(orders)
      /\ \A j \in DOMAIN orders : orders'[j] = IF j = i THEN o ELSE orders[j]
  BY <1>2, <1>3, <1>4
<1>6. Thinner(orders, orders')
  BY <1>3, <1>5 DEF Thinner, isOpen
<1>. QED BY <1>1, <1>5, <1>6, ThinningShrinks

LEMMA ProtectionShrinks ==
  ASSUME status = "ACTIVE", ExitsInv, NEW stop \in Requests, NEW target \in Requests,
         setProtection(stop, target)
  PROVE  Shrinks
<1>1. /\ EngineTypes /\ orders \in Seq(Order) /\ pos \in Int /\ pos # 0 /\ last \in Levels
      /\ status = "ACTIVE" /\ Tidy(orders, pos) /\ NoneCloses(orders)
  BY DEF ExitsInv, EngineTypes, Statuses, setProtection
<1>2. PICK os \in Seq(Order) :
        /\ matchLocked(Quote(last), os)
        /\ Grown(orders, os)
        /\ \A i \in DOMAIN orders :
             \/ os[i] = orders[i]
             \/ Protective(orders[i]) /\ isOpen(orders[i]) /\ Changed(orders[i], os[i])
        /\ \A i \in DOMAIN os \ DOMAIN orders : Asked(os[i])
        /\ \E g \in Nat : \A i \in OpenIn(os) : Protective(os[i]) => os[i].group = g
  BY <1>1, ProtectionTable
<1>3. PICK g \in Nat : \A i \in OpenIn(os) : Protective(os[i]) => os[i].group = g
  BY <1>2
<1>4. /\ DOMAIN orders \subseteq DOMAIN os
      /\ Family(orders) /\ AllBracketed(orders) /\ EntryAlone(orders, pos) /\ ExitsFit(orders, pos)
      /\ \A i \in DOMAIN orders : orders[i].filled >= 0
  BY <1>1, <1>2 DEF Grown, Tidy, Founded
<1>5. \A i \in DOMAIN orders :
        /\ os[i].role = orders[i].role /\ os[i].tag = orders[i].tag /\ os[i].parent = orders[i].parent
        /\ os[i].filled = orders[i].filled /\ os[i].side = orders[i].side
        /\ isOpen(os[i]) => isOpen(orders[i])
        /\ os[i].qty \in {orders[i].qty, Magnitude(pos)}
  BY <1>2 DEF Changed, isOpen
<1>6. \A i \in DOMAIN os \ DOMAIN orders :
        /\ Protective(os[i]) /\ os[i].parent = Nobody /\ os[i].side = -Sign(pos)
        /\ os[i].qty = Magnitude(pos) /\ os[i].filled = 0 /\ os[i].tag = "protect"
  BY <1>2 DEF Asked
<1>7. FilledEntries(os) = FilledEntries(orders)
  BY <1>4, <1>5, <1>6 DEF FilledEntries, Protective
<1>8. Founded(os)
  <2>1. \A i \in DOMAIN orders : orders[i].parent # Nobody =>
          /\ Protective(orders[i]) /\ orders[i].parent \in FilledEntries(orders)
          /\ orders[i].parent \in DOMAIN orders /\ orders[i].side = -orders[orders[i].parent].side
    BY <1>4 DEF Family, FilledEntries
  <2>2. Family(os)
    BY <1>4, <1>5, <1>6, <1>7, <2>1 DEF Family, Protective
  <2>3. AllBracketed(os)
    <3>. SUFFICES ASSUME NEW e \in FilledEntries(orders) PROVE Children(os, e) # {}
      BY <1>7 DEF AllBracketed
    <3>1. PICK k \in DOMAIN orders : orders[k].parent = e
      BY <1>4 DEF AllBracketed, Children
    <3>. QED BY <1>4, <1>5, <3>1 DEF Children
  <2>4. \A i \in DOMAIN os : os[i].filled >= 0
    BY <1>4, <1>5, <1>6
  <2>. QED BY <2>2, <2>3, <2>4 DEF Founded
<1>9. EntryAlone(os, pos)
  <2>. SUFFICES ASSUME NEW e \in OpenIn(os), os[e].role = "ENTRY", os[e].filled = 0
                PROVE  FALSE
    BY DEF EntryAlone
  <2>1. e \in OpenIn(orders) /\ orders[e].role = "ENTRY" /\ orders[e].filled = 0
    BY <1>5, <1>6 DEF OpenIn, Protective
  <2>. QED BY <1>1, <1>4, <2>1 DEF EntryAlone
<1>10. \A i \in OpenIn(os) : os[i].tag \notin {"flatten", "liquidate"}
  BY <1>1, <1>5, <1>6 DEF NoneCloses, OpenIn
<1>11. ASSUME NEW i \in OpenIn(os), IsExit(os[i]) PROVE FitsIn(os[i], pos)
  <2>0. Magnitude(pos) \in Int /\ i \in DOMAIN os /\ isOpen(os[i])
    BY <1>1 DEF Magnitude, OpenIn
  <2>1. CASE i \notin DOMAIN orders
    <3>1. os[i].side = -Sign(pos) /\ os[i].qty = Magnitude(pos) /\ os[i].filled = 0
      BY <1>6, <2>0, <2>1
    <3>2. os[i].qty - os[i].filled <= Magnitude(pos)
      BY <2>0, <3>1
    <3>. QED BY <3>1, <3>2 DEF FitsIn, remainingQty
  <2>2. CASE i \in DOMAIN orders
    <3>1. i \in OpenIn(orders) /\ IsExit(orders[i])
      BY <1>5, <1>11, <2>0, <2>2 DEF OpenIn, IsExit, Protective
    <3>2. FitsIn(orders[i], pos)
      BY <1>4, <3>1 DEF ExitsFit
    <3>3. orders[i].filled \in Int /\ orders[i].qty \in Int
      BY <1>1, <2>2, OrderFields
    <3>4. os[i].qty - os[i].filled <= Magnitude(pos)
      BY <1>4, <1>5, <2>0, <2>2, <3>2, <3>3 DEF FitsIn, remainingQty
    <3>. QED BY <1>5, <2>2, <3>2, <3>4 DEF FitsIn, remainingQty
  <2>. QED BY <2>1, <2>2
<1>12. ExitsFit(os, pos)
  <2>1. \A i \in OpenIn(os) : IsExit(os[i]) => Protective(os[i])
    BY <1>10 DEF IsExit
  <2>2. g # Nobody
    BY NobodyAssumption
  <2>. QED BY <1>3, <1>11, <2>1, <2>2 DEF ExitsFit
<1>13. Closable(os)
  BY <1>10 DEF Closable
<1>14. Quote(last) \in Observation
  BY <1>1, LevelsAreInts, QuoteIsObservation
<1>. QED BY <1>2, <1>8, <1>9, <1>12, <1>13, <1>14, PassShrinks DEF Tidy

(* From any state in which the exits are in order, however it came about,  *)
(* no pass over any quote or bar, no latency, breach or liquidation, no    *)
(* cancel, no moved order and no protection of an active account puts them *)
(* out of order (syncBrackets and syncProtection of engine.ts, the OCO     *)
(* groups of matching.ts); and where only exits trade in such a step, the  *)
(* position shrinks and does not turn around, however many of them fill in *)
(* one pass and in whatever parts.                                         *)
THEOREM SteadyStepsKeepExits == Spec => [][ExitsInv /\ Steady => Shrinks]_vars
<1>1. ASSUME ExitsInv, Steady PROVE Shrinks
  <2>1. CASE QuoteArrives
    <3>1. PICK price \in Levels : onMarketEvent(Quote(price))
      BY <2>1 DEF QuoteArrives
    <3>2. Quote(price) \in Observation
      BY LevelsAreInts, QuoteIsObservation
    <3>. QED BY <1>1, <3>1, <3>2, MarketShrinks
  <2>2. CASE BarCloses
    <3>1. PICK price \in Levels, lo \in Levels, hi \in Levels : onMarketEvent(Bar(price, lo, hi))
      BY <2>2 DEF BarCloses
    <3>2. Bar(price, lo, hi) \in Observation
      BY LevelsAreInts DEF Bar, Observation
    <3>. QED BY <1>1, <3>1, <3>2, MarketShrinks
  <2>3. CASE LatencyElapses
    BY <1>1, <2>3, LatencyShrinks
  <2>4. CASE Cancel
    BY <1>1, <2>4, CancelShrinks DEF Cancel
  <2>5. ASSUME NEW i \in DOMAIN orders, NEW at \in Levels, modifyOrder(i, at, orders[i].qty)
        PROVE  Shrinks
    BY <1>1, <2>5, ModifyShrinks
  <2>6. CASE status = "ACTIVE" /\ SetProtection
    BY <1>1, <2>6, ProtectionShrinks DEF SetProtection
  <2>. QED BY <1>1, <2>1, <2>2, <2>3, <2>4, <2>5, <2>6 DEF Steady
<1>. QED BY <1>1, PTL DEF Spec

-------------------------------------------------------------------------------
(* Liquidation, for every latency, timer and quote gap *)

LiquidationInv == LiquidationTypeOK /\ AllOrNothing

USE TimesAssumption, HeldAssumption DEF TimesAssumption, HeldAssumption

LEMMA DueInRange ==
  ASSUME NEW g \in Nat PROVE Due(g) \in 0..Latency
BY DEF Due

LEMMA SingleType ==
  ASSUME NEW d \in 0..Latency, NEW q \in Nat PROVE Single(d, q) \in [0..Latency -> Nat]
BY DEF Single

LEMMA LiquidateIsSingle ==
  ASSUME NEW p \in Nat, NEW g \in Nat, NEW sent
  PROVE  liquidate(p, g, sent) = Single(Due(g), p)
<1>1. Due(g) \in 0..Latency
  BY DueInRange
<1>2. QED
  BY <1>1 DEF liquidate, Nothing, Single

(* Whatever the rules do leaves one order for what is held, or none.       *)
LEMMA EnforceKeeps ==
  ASSUME NEW p \in Nat, NEW g \in 0..MaxGap,
         NEW d \in 0..Latency, NEW q \in {0, p}, NEW timers \in SUBSET (0..(Latency + Margin)),
         rulesLocked(p, g, Single(d, q), timers)
  PROVE  /\ holding' \in Int
         /\ inFlight' \in [0..Latency -> Nat]
         /\ wakes' \in SUBSET (0..(Latency + Margin))
         /\ AllOrNothing'
<1>1. CASE holding' = p /\ inFlight' = Single(d, q) /\ wakes' = timers
  <2>1. q \in Nat
    OBVIOUS
  <2>2. inFlight' \in [0..Latency -> Nat]
    BY <1>1, <2>1, SingleType
  <2>3. holding' >= 0 /\ q \in {0, holding'}
    BY <1>1
  <2>4. AllOrNothing'
    BY <1>1, <2>3 DEF AllOrNothing
  <2>5. QED
    BY <1>1, <2>2, <2>4
<1>2. CASE /\ holding' = p
           /\ inFlight' = liquidate(p, g, Single(d, q))
           /\ wakes' \in {timers, timers \cup {Latency + Margin}}
  <2>1. inFlight' = Single(Due(g), p) /\ Due(g) \in 0..Latency
    BY <1>2, DueInRange, LiquidateIsSingle
  <2>2. wakes' \in SUBSET (0..(Latency + Margin))
    BY <1>2
  <2>3. inFlight' \in [0..Latency -> Nat]
    BY <2>1, SingleType
  <2>4. \E e \in 0..Latency : \E r \in {0, holding'} : inFlight' = Single(e, r)
    BY <1>2, <2>1
  <2>5. AllOrNothing'
    BY <1>2, <2>4 DEF AllOrNothing
  <2>6. QED
    BY <1>2, <2>2, <2>3, <2>5
<1>3. QED
  BY <1>1, <1>2 DEF rulesLocked

LEMMA MatchKeeps ==
  ASSUME LiquidationInv, NEW g \in 0..MaxGap,
         NEW timers \in SUBSET (0..(Latency + Margin)), match(g, timers)
  PROVE  /\ holding' \in Int
         /\ inFlight' \in [0..Latency -> Nat]
         /\ wakes' \in SUBSET (0..(Latency + Margin))
         /\ AllOrNothing'
<1>1. PICK d \in 0..Latency, q \in {0, holding} : inFlight = Single(d, q)
  BY DEF LiquidationInv, AllOrNothing
<1>2. holding \in Nat
  BY DEF LiquidationInv, AllOrNothing, LiquidationTypeOK
<1>3. CASE d = 0
  <2>1. inFlight[0] = q /\ [inFlight EXCEPT ![0] = 0] = Single(0, 0)
    BY <1>1, <1>3 DEF Single
  <2>2. holding - q \in Nat
    BY <1>2
  <2>3. rulesLocked(holding - q, g, Single(0, 0), timers)
    BY <2>1 DEF match
  <2>4. QED
    BY <2>2, <2>3, EnforceKeeps
<1>4. CASE d # 0
  <2>0. 0 \in 0..Latency
    OBVIOUS
  <2>1. inFlight[0] = 0 /\ [inFlight EXCEPT ![0] = 0] = Single(d, q)
    BY <1>1, <1>4, <2>0 DEF Single
  <2>2. holding - inFlight[0] = holding
    BY <2>1, <1>2
  <2>3. rulesLocked(holding, g, Single(d, q), timers)
    BY <2>1, <2>2 DEF match
  <2>4. QED
    BY <1>2, <2>3, EnforceKeeps
<1>5. QED
  BY <1>3, <1>4

LEMMA LiquidationStarts == LiquidationInit => LiquidationInv
<1>1. ASSUME LiquidationInit PROVE LiquidationTypeOK
  <2>1. Nothing \in [0..Latency -> Nat]
    BY DEF Nothing
  <2>2. wakes \subseteq 0..(Latency + Margin) /\ failed \in BOOLEAN
    BY <1>1, Zenon DEF LiquidationInit
  <2>3. holding \in Int /\ quiet \in 0..MaxGap /\ valuation \in 0..Interval
    BY <1>1 DEF LiquidationInit
  <2>4. replay \in BOOLEAN
    BY <1>1, Zenon DEF LiquidationInit
  <2>5. QED
    BY <1>1, <2>1, <2>2, <2>3, <2>4 DEF LiquidationInit, LiquidationTypeOK
<1>2. ASSUME LiquidationInit PROVE AllOrNothing
  <2>1. inFlight = Single(0, 0) /\ 0 \in 0..Latency /\ 0 \in {0, holding}
    BY <1>2 DEF LiquidationInit, Nothing, Single
  <2>2. QED
    BY <2>1, <1>2 DEF LiquidationInit, AllOrNothing
<1>3. QED
  BY <1>1, <1>2 DEF LiquidationInv

LEMMA TickKeeps == LiquidationInv /\ Tick => LiquidationInv'
<1> SUFFICES ASSUME LiquidationInv, Tick PROVE LiquidationInv'
  OBVIOUS
<1>1. PICK d \in 0..Latency, q \in {0, holding} : inFlight = Single(d, q)
  BY DEF LiquidationInv, AllOrNothing
<1>2. holding' = holding /\ holding \in Nat
  BY DEF LiquidationInv, AllOrNothing, LiquidationTypeOK, Tick
<1>3. PICK c \in 0..Latency : inFlight' = Single(c, q)
  <2>1. CASE d = 0
    <3>1. inFlight' = Single(0, q)
      BY <1>1, <1>2, <2>1 DEF Tick, Single
    <3>2. QED
      BY <3>1
  <2>2. CASE d # 0
    <3>1. d - 1 \in 0..Latency
      BY <2>2
    <3>2. /\ inFlight[0] = 0
          /\ \A e \in 0..Latency : e < Latency => inFlight[e + 1] = IF e = d - 1 THEN q ELSE 0
      <4>1. \A e \in 0..Latency : inFlight[e] = IF e = d THEN q ELSE 0
        BY <1>1 DEF Single
      <4>2. 0 \in 0..Latency /\ \A e \in 0..Latency : e < Latency => e + 1 \in 0..Latency
        OBVIOUS
      <4>3. \A e \in 0..Latency : e + 1 = d <=> e = d - 1
        OBVIOUS
      <4>4. QED
        BY <2>2, <4>1, <4>2, <4>3
    <3>3. q \in Nat
      BY <1>2
    <3>4. inFlight' = [e \in 0..Latency |-> IF e = d - 1 THEN q ELSE 0]
      <4>1. \A e \in 0..Latency :
              (IF e = 0 THEN inFlight[0] ELSE 0) + (IF e < Latency THEN inFlight[e + 1] ELSE 0)
              = IF e = d - 1 THEN q ELSE 0
        BY <2>2, <3>1, <3>2, <3>3
      <4>2. QED
        BY <4>1 DEF Tick
    <3>5. QED
      BY <3>1, <3>4 DEF Single
  <2>3. QED
    BY <2>1, <2>2
<1>4. inFlight' \in [0..Latency -> Nat]
  BY <1>2, <1>3, SingleType
<1>5. wakes' \subseteq 0..(Latency + Margin)
  BY DEF Tick, LiquidationInv, LiquidationTypeOK
<1>6. quiet' \in 0..MaxGap /\ valuation' \in 0..Interval
  BY DEF Tick, LiquidationInv, LiquidationTypeOK
<1>7. AllOrNothing'
  BY <1>2, <1>3 DEF AllOrNothing
<1>8. failed' \in BOOLEAN /\ replay' \in BOOLEAN
  BY Zenon DEF Tick, LiquidationInv, LiquidationTypeOK
<1>9. QED
  BY <1>2, <1>4, <1>5, <1>6, <1>7, <1>8 DEF LiquidationInv, LiquidationTypeOK

LEMMA LiquidationStays == LiquidationInv /\ [LiquidationNext]_clockVars => LiquidationInv'
<1> SUFFICES ASSUME LiquidationInv, [LiquidationNext]_clockVars PROVE LiquidationInv'
  OBVIOUS
<1>1. CASE QuoteComes
  <2>1. /\ 0 \in 0..MaxGap /\ wakes \in SUBSET (0..(Latency + Margin))
        /\ quiet' \in 0..MaxGap /\ valuation' \in 0..Interval
    BY <1>1 DEF QuoteComes, LiquidationInv, LiquidationTypeOK
  <2>2. match(0, wakes)
    BY <1>1 DEF QuoteComes
  <2>3. failed' \in BOOLEAN /\ replay' \in BOOLEAN
    BY <1>1, Zenon DEF QuoteComes, LiquidationInv, LiquidationTypeOK
  <2>4. QED
    BY <2>1, <2>2, <2>3, MatchKeeps DEF LiquidationInv, LiquidationTypeOK
<1>2. CASE Wake
  <2>1. /\ quiet \in 0..MaxGap /\ wakes \ {0} \in SUBSET (0..(Latency + Margin))
        /\ quiet' \in 0..MaxGap /\ valuation' \in 0..Interval
    BY <1>2 DEF Wake, LiquidationInv, LiquidationTypeOK
  <2>2. match(quiet, wakes \ {0})
    BY <1>2 DEF Wake
  <2>3. failed' \in BOOLEAN /\ replay' \in BOOLEAN
    BY <1>2, Zenon DEF Wake, LiquidationInv, LiquidationTypeOK
  <2>4. QED
    BY <2>1, <2>2, <2>3, MatchKeeps DEF LiquidationInv, LiquidationTypeOK
<1>3. CASE Valuation
  <2>1. /\ quiet \in 0..MaxGap /\ wakes \in SUBSET (0..(Latency + Margin)) /\ holding \in Nat
        /\ quiet' \in 0..MaxGap /\ valuation' \in 0..Interval
    BY <1>3 DEF Valuation, LiquidationInv, LiquidationTypeOK, AllOrNothing
  <2>2. PICK d \in 0..Latency, q \in {0, holding} : inFlight = Single(d, q)
    BY DEF LiquidationInv, AllOrNothing
  <2>3. rulesLocked(holding, quiet, Single(d, q), wakes)
    BY <1>3, <2>2 DEF Valuation
  <2>4. failed' \in BOOLEAN /\ replay' \in BOOLEAN
    BY <1>3, Zenon DEF Valuation, LiquidationInv, LiquidationTypeOK
  <2>5. QED
    BY <2>1, <2>3, <2>4, EnforceKeeps DEF LiquidationInv, LiquidationTypeOK
<1>4. CASE Tick
  BY <1>4, TickKeeps
<1>5. CASE UNCHANGED clockVars
  BY <1>5 DEF clockVars, LiquidationInv, LiquidationTypeOK, AllOrNothing
<1>6. QED
  BY <1>1, <1>2, <1>3, <1>4, <1>5 DEF LiquidationNext

(* However often liquidation is started over, there is never more than one *)
(* order in flight and it is for all that is held.                         *)
THEOREM LiquidationInvariant == LiquidationSpec => []LiquidationInv
BY LiquidationStarts, LiquidationStays, PTL DEF LiquidationSpec

(* Liquidation never trades through to the other side.                     *)
THEOREM LiquidationNeverReverses == LiquidationSpec => []NeverReverses
<1>1. LiquidationInv => NeverReverses
  BY DEF LiquidationInv, AllOrNothing, NeverReverses
<1>2. QED
  BY <1>1, LiquidationInvariant, PTL
===============================================================================
