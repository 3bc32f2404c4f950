------------------------------ MODULE OrderEngine ------------------------------
(***************************************************************************)
(* The simulated exchange for one account and one instrument: what the     *)
(* trader, the market and the rules do to its orders and its position.     *)
(*                                                                         *)
(* Every operation of apps/server/src/trading/engine.ts runs under the     *)
(* account lock, so it is one step here; what the market and the trader do *)
(* between two of them is not.  A step is the whole operation: the pure    *)
(* matcher of packages/core/src/execution/matching.ts, the reconciliation  *)
(* of brackets and protection, and the enforcement of a breach.            *)
(*                                                                         *)
(* Prices are a few levels; a side is +1 (BUY) or -1 (SELL); an order is   *)
(* identified by its index, which is also its place in time.               *)
(***************************************************************************)
EXTENDS Integers, FiniteSets, SequencesExt

CONSTANTS
  Nobody,        \* null: no parent order, no OCO group, no cap
  Levels,        \* the prices the market trades at
  Offset,        \* distance of a bracket's stop and target from its entry
  FillCap,       \* environment.maxContractsPerFill, or Nobody
  Latent,        \* does the environment delay eligibility (latencyMs > 0)
  MaxContracts,  \* the account's contract limit
  Tickets,       \* the orders a trader may send: [side, qty, kind, bracket]
  Abilities,     \* which other operations and events this instance has
  MaxOrders      \* bound: with that many orders the trader sends no more

ASSUME LevelsAssumption == Levels \subseteq Int /\ IsFiniteSet(Levels)
ASSUME SizesAssumption ==
  Offset \in Nat \ {0} /\ MaxContracts \in Nat \ {0} /\ MaxOrders \in Nat
ASSUME FillCapAssumption == FillCap \in (Nat \ {0}) \cup {Nobody}
ASSUME FlagsAssumption == Latent \in BOOLEAN
ASSUME NobodyAssumption == Nobody \notin Int

VARIABLES
  orders,   \* the orders table, in creation order
  pos,      \* positions.qty, negative when short
  last,     \* the last price
  status    \* accounts.status, as far as trading is concerned

vars == <<orders, pos, last, status>>

Sides == {1, -1}
Roles == {"ENTRY", "STOP_LOSS", "TAKE_PROFIT", "STANDALONE"}
Kinds == {"MARKET", "LIMIT", "STOP_MARKET"}
OrderStatus == {"WORKING", "PARTIALLY_FILLED", "FILLED", "CANCELED"}
ASSUME TicketsAssumption ==
  Tickets \subseteq [side : Sides, qty : Nat \ {0}, kind : Kinds, bracket : BOOLEAN]

(* tag is the prefix of the clientOrderId: who sent the order.  at is the  *)
(* level of a limit or stop, fillAt the level an order first filled at.    *)
(* rested says the order was working before the newest bar began.          *)
Order ==
  [role: Roles, tag: {"user", "flatten", "reverse", "liquidate", "bracket", "protect"},
   side: Sides, kind: Kinds, at: Int, qty: Int, filled: Int, fillAt: Int,
   status: OrderStatus, parent: Nat \cup {Nobody}, group: Nat \cup {Nobody},
   eligible: BOOLEAN, rested: BOOLEAN]

Smaller(a, b) == IF a <= b THEN a ELSE b
Magnitude(n) == IF n < 0 THEN -n ELSE n
Sign(n) == IF n > 0 THEN 1 ELSE IF n < 0 THEN -1 ELSE 0

isOpen(o) == o.status \in {"WORKING", "PARTIALLY_FILLED"}
remainingQty(o) == o.qty - o.filled
Protective(o) == o.role \in {"STOP_LOSS", "TAKE_PROFIT"}
Canceled(o) == [o EXCEPT !.status = "CANCELED"]
(* Every order of a table through the same change, as a sequence.          *)
Every(os, Change(_)) == <<>> \o [i \in DOMAIN os |-> Change(i)]

OpenIn(os) == {i \in DOMAIN os : isOpen(os[i])}

createOrder(role, tag, side, kind, at, qty, parent, group) ==
  [role |-> role, tag |-> tag, side |-> side, kind |-> kind, at |-> at,
   qty |-> qty, filled |-> 0, fillAt |-> at, status |-> "WORKING",
   parent |-> parent, group |-> group, eligible |-> ~Latent, rested |-> FALSE]

(* Whatever works has something left to do; whatever is complete has not.  *)
TypeOK ==
  /\ orders \in Seq(Order)
  /\ \A o \in Range(orders) :
       /\ isOpen(o) => 0 <= o.filled /\ o.filled < o.qty
       /\ o.status = "FILLED" => o.filled = o.qty
  /\ pos \in Int
  /\ last \in Levels
  /\ status \in {"ACTIVE", "FAILED"}

(* How much of an order would grow the position rather than reduce it. *)
increasingQty(position, signed) ==
  IF position = 0 \/ Sign(position) = Sign(signed) THEN Magnitude(signed)
  ELSE IF Magnitude(signed) > Magnitude(position)
       THEN Magnitude(signed) - Magnitude(position) ELSE 0

-------------------------------------------------------------------------------
(* The matcher *)

(* An observation is a quote, or the last price and the range of a bar     *)
(* that just closed; only an order that rested before the bar began sees   *)
(* that range.                                                             *)
Bar(price, lo, hi) == [last |-> price, lo |-> lo, hi |-> hi, closes |-> TRUE]
Quote(price) == [last |-> price, lo |-> price, hi |-> price, closes |-> FALSE]

lowWater(o, m)  == IF o.rested THEN m.lo ELSE m.last
highWater(o, m) == IF o.rested THEN m.hi ELSE m.last

Fills(o, m) ==
  /\ o.eligible
  /\ CASE o.kind = "MARKET" -> TRUE
       [] o.kind = "LIMIT" -> IF o.side = 1 THEN lowWater(o, m) <= o.at
                                            ELSE highWater(o, m) >= o.at
       [] o.kind = "STOP_MARKET" -> IF o.side = 1 THEN highWater(o, m) >= o.at
                                                  ELSE lowWater(o, m) <= o.at

(* A limit the market has not reached by its last price fills at its own   *)
(* price, everything else at the last.                                     *)
FillLevel(o, m) ==
  IF o.kind = "LIMIT" /\ o.side * (m.last - o.at) > 0 THEN o.at ELSE m.last

(* ADVERSE_FIRST: stops before everything else, then by age. *)
IsStop(o) == o.role = "STOP_LOSS" \/ o.kind = "STOP_MARKET"

(* A fill takes its quantity off its OCO siblings, and cancels those it    *)
(* leaves with nothing to do.                                              *)
Siblings(os, i) ==
  {j \in OpenIn(os) : j # i /\ os[i].group # Nobody /\ os[j].group = os[i].group}

CancelOnlyWhenComplete(os, i, q) == \* mutant: a partial fill leaves siblings alone
  Every(os, LAMBDA j : IF j \in Siblings(os, i) /\ os[i].status = "FILLED"
                       THEN Canceled(os[j]) ELSE os[j])

CancelBelowFilled(os, i, q) == \* mutant: a leg with nothing left to do stays
  Every(os, LAMBDA j : IF j \notin Siblings(os, i) THEN os[j]
                       ELSE IF os[j].qty - q < os[j].filled THEN Canceled(os[j])
                       ELSE [os[j] EXCEPT !.qty = @ - q])

ReduceSiblings(os, i, q) ==
  Every(os, LAMBDA j : IF j \notin Siblings(os, i) THEN os[j]
                       ELSE IF os[j].qty - q <= os[j].filled THEN Canceled(os[j])
                       ELSE [os[j] EXCEPT !.qty = @ - q])

MatchOne(m, s, i) ==
  LET o == s.orders[i]
      q == IF FillCap = Nobody THEN remainingQty(o) ELSE Smaller(FillCap, remainingQty(o))
      done == o.filled + q >= o.qty
      filled == [o EXCEPT !.filled = @ + q,
                          !.fillAt = IF o.filled = 0 THEN FillLevel(o, m) ELSE @,
                          !.status = IF done THEN "FILLED" ELSE "PARTIALLY_FILLED"]
  IN IF ~isOpen(o) \/ remainingQty(o) <= 0 \/ ~Fills(o, m) THEN s
     ELSE [orders |-> ReduceSiblings([s.orders EXCEPT ![i] = filled], i, q),
           pos |-> s.pos + o.side * q]

MatchThose(m, os, s, stops) ==
  FoldLeftDomain(LAMBDA acc, i : IF IsStop(os[i]) = stops THEN MatchOne(m, acc, i) ELSE acc, s, os)

matchOrders(m, os, p) ==
  MatchThose(m, os, MatchThose(m, os, [orders |-> os, pos |-> p], TRUE), FALSE)

-------------------------------------------------------------------------------
(* Brackets and protection *)

Children(os, e) == {i \in DOMAIN os : os[i].parent = e}

(* The stop and target of an entry, an OCO pair around its fill. *)
createBracketLegs(os, e) ==
  LET leg(role, kind, at) ==
        createOrder(role, "bracket", -os[e].side, kind, at, os[e].filled, e, Len(os) + 1)
  IN os \o <<leg("STOP_LOSS", "STOP_MARKET", os[e].fillAt - os[e].side * Offset),
             leg("TAKE_PROFIT", "LIMIT", os[e].fillAt + os[e].side * Offset)>>

Resized(o, target) == IF target <= o.filled THEN Canceled(o) ELSE [o EXCEPT !.qty = target]

SyncGrowsOnly(p, sole, os, e) == \* mutant: legs grow with the position, never shrink
  LET protect == IF Sign(p) = os[e].side THEN Magnitude(p) ELSE 0 IN
  IF Children(os, e) = {} THEN IF p = 0 THEN os ELSE createBracketLegs(os, e)
  ELSE Every(os, LAMBDA i :
         IF i \in Children(os, e) /\ isOpen(os[i]) /\ os[i].filled + protect > os[i].qty
         THEN Resized(os[i], os[i].filled + protect) ELSE os[i])

(* A filled entry without legs gets them while there is a position;        *)
(* existing legs follow the position, and an entry whose position is gone  *)
(* loses its unfilled remainder.                                           *)
SyncEntry(p, sole, os, e) ==
  LET protect == IF Sign(p) = os[e].side THEN Magnitude(p) ELSE 0
      target(o) == IF sole THEN o.filled + protect
                   ELSE Smaller(os[e].filled, o.filled + protect)
  IN IF Children(os, e) = {}
       THEN IF p = 0 THEN os ELSE createBracketLegs(os, e)
     ELSE Every(os, LAMBDA i :
            IF i \in Children(os, e) /\ isOpen(os[i]) THEN Resized(os[i], target(os[i]))
            ELSE IF i = e /\ protect = 0 /\ isOpen(os[i]) THEN Canceled(os[i])
            ELSE os[i])

(* Every bracketed entry that ever filled counts, finished ones included. *)
FilledEntries(os) == {e \in DOMAIN os : os[e].role = "ENTRY" /\ os[e].filled > 0}

syncBrackets(os, p) ==
  LET filled == FilledEntries(os)
  IN FoldLeftDomain(LAMBDA acc, e : IF e \in filled THEN SyncEntry(p, filled = {e}, acc, e) ELSE acc,
                    os, os)

syncProtection(os, p) ==
  Every(os, LAMBDA i :
    IF Protective(os[i]) /\ os[i].parent = Nobody /\ isOpen(os[i])
    THEN Resized(os[i], IF Sign(p) = -os[i].side THEN os[i].filled + Magnitude(p)
                                                 ELSE os[i].filled)
    ELSE os[i])

Synced(s) == [s EXCEPT !.orders = syncProtection(syncBrackets(s.orders, s.pos), s.pos)]

-------------------------------------------------------------------------------
(* Enforcement *)

cancelAll(os) == Every(os, LAMBDA i : IF isOpen(os[i]) THEN Canceled(os[i]) ELSE os[i])

closingOrder(tag, p, qty) ==
  createOrder("STANDALONE", tag, -Sign(p), "MARKET", 0, qty, Nobody, Nobody)

LiquidateOverWorkingOrders(s) == \* mutant: what is working is left to work
  IF s.pos = 0 THEN s.orders
  ELSE Append(s.orders, closingOrder("liquidate", s.pos, Magnitude(s.pos)))

LiquidationOrders(s) ==
  IF s.pos = 0 THEN cancelAll(s.orders)
  ELSE Append(cancelAll(s.orders), closingOrder("liquidate", s.pos, Magnitude(s.pos)))

hasExposure(s) == s.pos # 0 \/ OpenIn(s.orders) # {}

LiquidateOnBreachOnly(s, st, price) == \* mutant: not retried once the account failed
  IF st = "ACTIVE" \/ ~hasExposure(s) \/ status = "FAILED" THEN s
  ELSE Synced(matchOrders(Quote(price), LiquidationOrders(s), s.pos))

(* enforceLocked: a failed account with anything left is cleared and the   *)
(* liquidation order is matched at once; the enforcement inside that match *)
(* is skipped by the re-entrancy guard.                                    *)
enforce(s, st, price) ==
  IF st = "ACTIVE" \/ ~hasExposure(s) THEN s
  ELSE Synced(matchOrders(Quote(price), LiquidationOrders(s), s.pos))

(* A closed bar is behind every order still working.                       *)
Commit(m, s, st) ==
  /\ orders' = IF m.closes
               THEN Every(s.orders, LAMBDA i : [s.orders[i] EXCEPT !.rested = isOpen(s.orders[i])])
               ELSE s.orders
  /\ pos' = s.pos
  /\ status' = st

(* Only an account that holds something, or just did, can be found over    *)
(* its limits.                                                             *)
MayBreach(p) == "breach" \in Abilities /\ (pos # 0 \/ p # 0)

(* What a pass over the table os commits on its way: the fills, and the    *)
(* same with brackets and protection reconciled.  With nothing working     *)
(* there is nothing to match, and nothing is reconciled.                   *)
Matched(m, os) ==
  IF OpenIn(os) = {} THEN [orders |-> os, pos |-> pos] ELSE matchOrders(m, os, pos)

Reconciled(os, matched) == IF OpenIn(os) = {} THEN matched ELSE Synced(matched)

(* matchLocked: match, reconcile, and put an account that had something    *)
(* working or holds a position to the rules, which may find it breached.   *)
matchLocked(m, os) ==
  \E matched \in {Matched(m, os)} :
  \E st \in IF MayBreach(matched.pos) THEN {status, "FAILED"} ELSE {status} :
  \E s \in {IF OpenIn(os) = {} /\ pos = 0 THEN matched
           ELSE enforce(Reconciled(os, matched), st, m.last)} :
    Commit(m, s, st)

(* The process stops on the way and leaves what it had committed: the      *)
(* fills without their brackets, the breach without the liquidation, or    *)
(* the liquidation's cancels without its closing order.                    *)
stoppedMatch(m, os) ==
  \E matched \in {Matched(m, os)} :
  \E synced \in {Reconciled(os, matched)} :
    \/ Commit(m, matched, status)
    \/ /\ MayBreach(matched.pos) \/ (status = "FAILED" /\ hasExposure(synced))
       /\ \/ Commit(m, synced, "FAILED")
          \/ Commit(m, [synced EXCEPT !.orders = cancelAll(@)], "FAILED")

-------------------------------------------------------------------------------
(* The steps *)

Init ==
  /\ orders = <<>>
  /\ pos = 0
  /\ last \in Levels
  /\ status = "ACTIVE"

(* checkOrder, for what it can refuse here: the account's state and the    *)
(* contract limit, which counts the position and not what is working.      *)
Accepts(side, qty) ==
  LET more == increasingQty(pos, side * qty) IN
  /\ status = "ACTIVE"
  /\ more > 0 => Magnitude(pos) + more <= MaxContracts

(* A stop must sit beyond the market. *)
StopOnRightSide(side, at) == side * (at - last) > 0

(* Unless he trades freely, this trader sells only what he has, and opens  *)
(* with a bracket, from flat and with no other bracketed entry on its way; *)
(* he scales in without one, or with another.                              *)
Sends(t) ==
  \/ "freely" \in Abilities
  \/ t.side = 1 /\ ~t.bracket /\ pos # 0
  \/ t.side = 1 /\ t.bracket /\ pos = 0
       /\ \A o \in Range(orders) : o.role = "ENTRY" => ~isOpen(o)
  \/ t.side = 1 /\ t.bracket /\ "double" \in Abilities
  \/ t.side = -1 /\ pos >= t.qty

HasRoom == Len(orders) < MaxOrders

submitOrder(t, at) ==
  /\ HasRoom
  /\ Sends(t)
  /\ Accepts(t.side, t.qty)
  /\ t.kind = "STOP_MARKET" => StopOnRightSide(t.side, at)
  /\ t.kind = "MARKET" => at = last
  /\ matchLocked(Quote(last),
       Append(orders, createOrder(IF t.bracket THEN "ENTRY" ELSE "STANDALONE", "user",
                                  t.side, t.kind, at, t.qty, Nobody, Nobody)))
  /\ UNCHANGED last

(* A cancel changes the order and nothing else: no match, no sync.         *)
cancelOrder(i) ==
  /\ "cancel" \in Abilities
  /\ isOpen(orders[i])
  /\ orders' = [orders EXCEPT ![i] = Canceled(@)]
  /\ UNCHANGED <<pos, last, status>>

(* A modified order is a new one at its new price, and passes no check of  *)
(* the risk gate.                                                          *)
modifyOrder(i, at, qty) ==
  /\ isOpen(orders[i])
  /\ "modify" \in Abilities /\ orders[i].kind # "MARKET"
  /\ at # orders[i].at \/ qty # orders[i].qty
  /\ qty # orders[i].qty => "resize" \in Abilities
  /\ qty >= orders[i].filled
  /\ matchLocked(Quote(last),
       [orders EXCEPT ![i].at = at, ![i].qty = qty, ![i].rested = FALSE,
          ![i].status = IF orders[i].filled >= qty THEN "FILLED" ELSE @])
  /\ UNCHANGED last

ProtectionKept(os) == os \* mutant: the exits stay beside the closing order

cancelProtective(os) ==
  Every(os, LAMBDA i : IF Protective(os[i]) /\ isOpen(os[i]) THEN Canceled(os[i]) ELSE os[i])

(* flatten and reverse cancel the protection first; if the order is then   *)
(* refused, the protection stays canceled.                                 *)
Close(tag, qty) ==
  LET bare == cancelProtective(orders)
  IN /\ pos # 0
     /\ HasRoom
     /\ UNCHANGED last
     /\ \/ /\ Accepts(-Sign(pos), qty)
           /\ matchLocked(Quote(last), Append(bare, closingOrder(tag, pos, qty)))
        \/ /\ ~Accepts(-Sign(pos), qty)
           /\ orders' = bare
           /\ UNCHANGED <<pos, status>>

flatten == "flatten" \in Abilities /\ Close("flatten", Magnitude(pos))
reverse == "reverse" \in Abilities /\ Close("reverse", 2 * Magnitude(pos))

(* What a trader asks for each leg of the protection of a position.        *)
Requests == [act : {"keep", "drop"}, at : {0}] \cup [act : {"set"}, at : Levels]

(* Protection attached to an open position: the first working leg of each  *)
(* role is moved, dropped or kept, a missing one is created, and whatever  *)
(* else is working joins the same OCO group.  The engine does not ask for  *)
(* the status; only a stubborn trader tries it in a failed account.        *)
setProtection(stop, target) ==
  LET legs == {i \in OpenIn(orders) : Protective(orders[i])}
      first(set) == {i \in set : \A j \in set : i <= j}
      leg(role) == first({i \in legs : orders[i].role = role})
      group == IF \A i \in legs : orders[i].group = Nobody THEN Len(orders) + 1
               ELSE orders[CHOOSE i \in first({j \in legs : orders[j].group # Nobody}) : TRUE].group
      asked(i) == IF orders[i].role = "STOP_LOSS" THEN stop ELSE target
      changed(i) ==
        LET o == [orders[i] EXCEPT !.group = group] IN
        IF i \notin leg(o.role) \/ asked(i).act = "keep" THEN o
        ELSE IF asked(i).act = "drop" THEN Canceled(o)
        ELSE [o EXCEPT !.at = asked(i).at, !.qty = Magnitude(pos), !.rested = FALSE]
      new(role, kind, r) ==
        IF leg(role) # {} \/ r.act # "set" THEN <<>>
        ELSE <<createOrder(role, "protect", -Sign(pos), kind, r.at, Magnitude(pos), Nobody, group)>>
  IN /\ "protect" \in Abilities
     /\ status = "FAILED" => "stubborn" \in Abilities
     /\ pos # 0
     /\ HasRoom
     /\ stop.act = "set" => (stop.at < last) = (pos > 0)
     /\ target.act = "set" => (target.at < last) = (pos < 0)
     /\ matchLocked(Quote(last),
          Every(orders, LAMBDA i : IF i \in legs THEN changed(i) ELSE orders[i])
            \o new("STOP_LOSS", "STOP_MARKET", stop) \o new("TAKE_PROFIT", "LIMIT", target))
     /\ UNCHANGED last

(* A quote, or a closed bar, reaches the matcher.                          *)
onMarketEvent(m) ==
  /\ matchLocked(m, orders)
  /\ last' = m.last

(* Orders become eligible in the order they were sent.                     *)
LatencyElapses ==
  \E i \in DOMAIN orders :
    /\ ~orders[i].eligible
    /\ \A j \in 1..(i - 1) : orders[j].eligible
    /\ orders' = [orders EXCEPT ![i].eligible = TRUE]
    /\ UNCHANGED <<pos, last, status>>

Submit == \E t \in Tickets, at \in Levels : submitOrder(t, at)
Cancel == \E i \in DOMAIN orders : cancelOrder(i)
Modify == \E i \in DOMAIN orders, at \in Levels, qty \in 1..MaxContracts : modifyOrder(i, at, qty)
SetProtection == \E stop, target \in Requests : setProtection(stop, target)
Crash == /\ "crash" \in Abilities
         /\ \E price \in Levels : stoppedMatch(Quote(price), orders) /\ last' = price
QuoteArrives == \E price \in Levels : onMarketEvent(Quote(price))
BarCloses == \E price, lo, hi \in Levels :
               lo <= price /\ price <= hi /\ onMarketEvent(Bar(price, lo, hi))

Next ==
  \/ Submit \/ Cancel \/ Modify \/ flatten \/ reverse \/ SetProtection
  \/ QuoteArrives \/ BarCloses \/ Crash \/ LatencyElapses

(* The market keeps moving, and latency elapses; the trader owes nothing.  *)
Spec == Init /\ [][Next]_vars /\ []<><<QuoteArrives>>_vars /\ WF_vars(LatencyElapses)

-------------------------------------------------------------------------------
(* Properties *)

(* Once one leg of an OCO group has completed, no other leg of the group   *)
(* is left working: matchOrders resolves the group in the pass that fills, *)
(* so this holds even when the process stops right after the commit.       *)
OcoExclusive ==
  \A i, j \in DOMAIN orders :
    i # j /\ orders[i].group = orders[j].group /\ orders[i].group # Nobody
      /\ orders[i].status = "FILLED"
    => ~isOpen(orders[j])

Exits(i) == Protective(orders'[i]) \/ orders'[i].tag \in {"flatten", "liquidate"}

Traded == {i \in DOMAIN orders' :
             orders'[i].filled > (IF i \in DOMAIN orders THEN orders[i].filled ELSE 0)}

Reduces(before, after) ==
  Magnitude(after) <= Magnitude(before) /\ (after = 0 \/ Sign(after) = Sign(before))

(* When only exits trade - bracket legs, protection, flattening and        *)
(* liquidation orders - the position shrinks: it never grows and never     *)
(* turns into one on the other side.                                       *)
ExitsOnlyReduce == [][(\A i \in Traded : Exits(i)) => Reduces(pos, pos')]_vars

(* In an account that has failed nothing trades but its liquidation,       *)
(* whatever its trader left working: liquidateLocked cancels before it     *)
(* closes, so that a resting entry cannot fill into an account already     *)
(* over.                                                                   *)
FailedOnlyLiquidates ==
  [][status = "FAILED" => \A i \in Traded : orders'[i].tag = "liquidate"]_vars

(* A failed account ends flat with nothing working: rulesLocked retries    *)
(* the liquidation for as long as anything is left.                        *)
FailedGoesFlat ==
  (status = "FAILED") ~> (pos = 0 /\ OpenIn(orders) = {})

StopsOf(e) == {i \in Children(orders, e) : orders[i].role = "STOP_LOSS" /\ isOpen(orders[i])}
StopCovers(e) == \A i \in StopsOf(e) : remainingQty(orders[i]) = Magnitude(pos)

(* The stop of the only bracketed entry that ever filled covers the whole  *)
(* position, scaled in or cut down by hand: syncBrackets follows it in     *)
(* both directions.                                                        *)
SoleBracketCovers == \A e \in FilledEntries(orders) : FilledEntries(orders) = {e} => StopCovers(e)

(* The same of the only bracket still working, as the comment on           *)
(* soleBracket has it, whatever earlier brackets have come and gone.       *)
LastBracketCovers ==
  \A e \in FilledEntries(orders) :
    {d \in FilledEntries(orders) : StopsOf(d) # {}} = {e} => StopCovers(e)

(* A bracketed entry never goes on filling into a position whose stop has  *)
(* already done its job: what it holds on its own, its stop covers.        *)
EntryIsProtected ==
  \A e \in FilledEntries(orders) :
    Sign(pos) = orders[e].side /\ (\A d \in DOMAIN orders : d = e \/ d \in Children(orders, e))
    => StopsOf(e) # {}

(* The bracket of a filled entry is created sooner or later, whatever      *)
(* happened between its fill and the pass that should have created it.     *)
BracketsComeBack ==
  \A e \in 1..MaxOrders :
    (e \in DOMAIN orders /\ orders[e].role = "ENTRY" /\ orders[e].filled > 0 /\ pos # 0)
      ~> (pos = 0 \/ Children(orders, e) # {})

(* No order fills for more than its quantity: "a leg's quantity covers     *)
(* what it has already done plus what is still open".                      *)
FilledWithinQty == \A o \in Range(orders) : o.filled <= o.qty

(* A closing order that is refused leaves the position as protected as it  *)
(* was.                                                                    *)
RefusedCloseKeepsProtection ==
  [][Close("reverse", 2 * Magnitude(pos)) /\ ~Accepts(-Sign(pos), 2 * Magnitude(pos))
     => orders' = orders]_vars
===============================================================================
