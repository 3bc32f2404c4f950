----------------------------- MODULE CopyTrading -----------------------------
(***************************************************************************)
(* Copy trading (platform/copy-orchestrator.ts, with the pauses of         *)
(* copy-groups.ts and copy-breach.ts): one intent of the leader becomes    *)
(* one order, one cancellation or one flatten on each account of the       *)
(* group.                                                                  *)
(*                                                                         *)
(* Nothing here runs in a transaction: every statement commits by itself,  *)
(* requests overlap, the client repeats a request under its idempotency    *)
(* key, and the accounts of an intent are served in parallel.              *)
(*                                                                         *)
(* An order works until a later pass of the engine fills it (the default   *)
(* latency is 250 ms), and fills as a whole (maxContractsPerFill is null). *)
(***************************************************************************)
EXTENDS Integers, FiniteSets

CONSTANTS
  Leader, Followers,
  Keys,          \* idempotency keys
  KindOf,        \* what is asked under each key: SUBMIT, CANCEL or FLATTEN
  Of,            \* the intent that a CANCEL is about
  Calls,         \* requests being served
  MaxFaults      \* bound: restarts, failing statements, and changes of the group

Accounts == {Leader} \cup Followers

ASSUME CopyAssumption ==
  /\ Leader \notin Followers
  /\ KindOf \in [Keys -> {"SUBMIT", "CANCEL", "FLATTEN"}] /\ Of \in [Keys -> Keys]
  /\ \A j, k \in Keys : KindOf[j] = "FLATTEN" /\ KindOf[k] = "FLATTEN" => j = k
  /\ MaxFaults \in Nat

VARIABLES
  group,     \* copy_groups.status
  fit,       \* may the leader's account trade?
  members,   \* followers: enabled, enabled but sized to nothing, or disabled
  intents,   \* copy_intents.state by key
  children,  \* copy_children.status by key and account
  orders,    \* the order of each child, by its clientOrderId, and the
             \* position it opened: being closed, closed, or kept after all
  calls,     \* the request's key, where it stands, and how far each account is
  opened,    \* history: what was open when a FLATTEN was recorded
  faults

copyVars == <<group, fit, members, intents, children, orders, calls, opened, faults>>
worldVars == <<group, fit, members>>

NoCall == [key |-> "none", step |-> "idle", phase |-> [a \in Accounts |-> "out"]]
Places(k) == KindOf[k] = "SUBMIT"
Serving(c, step) == calls[c].step = step
Targets(c) == {a \in Accounts : calls[c].phase[a] # "out"}

Goto(c, step) == calls' = [calls EXCEPT ![c].step = step]
Advance(c, a, phase) == calls' = [calls EXCEPT ![c].phase[a] = phase]
End(c) == calls' = [calls EXCEPT ![c] = NoCall]
Fault == faults < MaxFaults /\ faults' = faults + 1

-------------------------------------------------------------------------------
(* A request *)

\* ownedGroup: the status is read here, and not looked at again.
Begin(c, k) ==
  /\ Serving(c, "idle")
  /\ IF Places(k) THEN group = "ACTIVE" ELSE group # "DISABLED"
  /\ calls' = [calls EXCEPT ![c] = [NoCall EXCEPT !.key = k, !.step = "checked"]]
  /\ UNCHANGED <<worldVars, intents, children, orders, opened, faults>>

Holding == {"filled", "closing", "kept"}
OpenNow == {p \in Keys \X Accounts : orders[p[1]][p[2]] \in Holding}

\* A leader that may not trade pauses his group.
LeaderLost(c) ==
  /\ Serving(c, "checked") /\ Places(calls[c].key) /\ ~fit
  /\ group' = "PAUSED"
  /\ End(c)
  /\ UNCHANGED <<fit, members, intents, children, orders, opened, faults>>

Record(c) ==
  LET k == calls[c].key IN
    /\ intents' = [intents EXCEPT ![k] = IF Places(k) THEN "PENDING" ELSE "FANNED_OUT"]
    /\ opened' = [opened EXCEPT ![k] = IF KindOf[k] = "FLATTEN" THEN OpenNow ELSE {}]
    /\ Goto(c, "recorded")

RecordAgain(c) == \* mutant: no conflict on the key
  /\ Serving(c, "checked") /\ (Places(calls[c].key) => fit)
  /\ Record(c)
  /\ UNCHANGED <<worldVars, children, orders, faults>>

\* The intent is inserted once; a repeated request is shown what there is.
recordIntent(c) ==
  /\ Serving(c, "checked") /\ (Places(calls[c].key) => fit)
  /\ IF intents[calls[c].key] = "none" THEN Record(c)
     ELSE End(c) /\ UNCHANGED <<intents, opened>>
  /\ UNCHANGED <<worldVars, children, orders, faults>>

\* childrenWithOrders for a CANCEL, the leader and his followers otherwise.
Members(k) ==
  IF KindOf[k] = "CANCEL" THEN {a \in Accounts : children[Of[k]][a] = "ACCEPTED" /\ Places(Of[k])}
  ELSE {Leader} \cup {a \in Followers : members[a] # "disabled"}

Skipped(k, a) == Places(k) /\ a \in Followers /\ members[a] = "unsized"

ReadMembers(c) ==
  LET k == calls[c].key IN
  /\ Serving(c, "recorded")
  /\ calls' = [calls EXCEPT ![c].step = IF Places(k) THEN "inserting" ELSE "fanned",
                            ![c].phase = [a \in Accounts |-> IF a \notin Members(k) THEN "out"
                                                            ELSE IF Skipped(k, a) THEN "skip" ELSE "insert"]]
  /\ UNCHANGED <<worldVars, intents, children, orders, opened, faults>>

ChildOf(c, a) == children[calls[c].key][a]
SetChild(c, a, status) == children' = [children EXCEPT ![calls[c].key][a] = status]
Flat(a) == \A k \in Keys : orders[k][a] \notin Holding

\* The row of a child, before anything is done for it.  The accounts of a
\* SUBMIT get theirs one after the other, those of a FLATTEN or a CANCEL each
\* at its own time; an account that is flat needs no flatten.
InsertChild(c, a) ==
  LET k == calls[c].key IN
  /\ Serving(c, "inserting") \/ Serving(c, "fanned")
  /\ \/ calls[c].phase[a] = "skip" /\ SetChild(c, a, "SKIPPED") /\ Advance(c, a, "done")
     \/ calls[c].phase[a] = "insert" /\ SetChild(c, a, "PENDING")
        /\ Advance(c, a, IF KindOf[k] = "FLATTEN" /\ Flat(a) THEN "accepted" ELSE "act")
  /\ UNCHANGED <<worldVars, intents, orders, opened, faults>>

FanOut(c) ==
  /\ Serving(c, "inserting") /\ \A a \in Targets(c) : calls[c].phase[a] \notin {"skip", "insert"}
  /\ intents' = [intents EXCEPT ![calls[c].key] = "FANNED_OUT"]
  /\ Goto(c, "fanned")
  /\ UNCHANGED <<worldVars, children, orders, opened, faults>>

Acting(c, a) == Serving(c, "fanned") /\ calls[c].phase[a] = "act"

\* execution.submitOrder: the same client order id is the same order.
Submit(c, a) ==
  /\ Acting(c, a) /\ Places(calls[c].key)
  /\ IF orders[calls[c].key][a] = "none"
     THEN orders' = [orders EXCEPT ![calls[c].key][a] = "working"]
     ELSE UNCHANGED orders
  /\ Advance(c, a, "accepted")
  /\ UNCHANGED <<worldVars, intents, children, opened, faults>>

CancelOrder(c, a) ==
  LET k == calls[c].key IN
  /\ Acting(c, a) /\ KindOf[k] = "CANCEL"
  /\ IF orders[Of[k]][a] = "working"
     THEN orders' = [orders EXCEPT ![Of[k]][a] = "canceled"] /\ Advance(c, a, "accepted")
     ELSE UNCHANGED orders /\ Advance(c, a, "refused")
  /\ UNCHANGED <<worldVars, intents, children, opened, faults>>

Closing(a) == [k \in Keys |-> IF orders[k][a] \in Holding THEN [orders[k] EXCEPT ![a] = "closing"] ELSE orders[k]]

\* engine.flatten places a market order against the position; an order that
\* rests, rests on.
Flatten(c, a) ==
  /\ Acting(c, a) /\ KindOf[calls[c].key] = "FLATTEN"
  /\ orders' = Closing(a)
  /\ Advance(c, a, "accepted")
  /\ UNCHANGED <<worldVars, intents, children, opened, faults>>

RefuseQuietly(c, a) == \* mutant: a refusal counts as accepted
  /\ Acting(c, a) /\ KindOf[calls[c].key] # "CANCEL"
  /\ Advance(c, a, "accepted")
  /\ UNCHANGED <<worldVars, intents, children, orders, opened, faults>>

\* The risk gate refuses the order of this account alone.
Refuse(c, a) ==
  /\ Acting(c, a) /\ KindOf[calls[c].key] # "CANCEL"
  /\ Advance(c, a, "refused")
  /\ UNCHANGED <<worldVars, intents, children, orders, opened, faults>>

\* A statement after the order was placed fails: the child counts as refused.
FailsLate(c, a) ==
  /\ Serving(c, "fanned") /\ calls[c].phase[a] = "accepted"
  /\ Fault
  /\ Advance(c, a, "refused")
  /\ UNCHANGED <<worldVars, intents, children, orders, opened>>

setChild(c, a) ==
  /\ Serving(c, "fanned")
  /\ \/ calls[c].phase[a] = "accepted" /\ SetChild(c, a, "ACCEPTED")
     \/ calls[c].phase[a] = "refused" /\ SetChild(c, a, "REJECTED")
  /\ Advance(c, a, "done")
  /\ UNCHANGED <<worldVars, intents, orders, opened, faults>>

\* The answer of one account cannot be written; the others go on.
AnswerLost(c, a) ==
  /\ Serving(c, "fanned") /\ calls[c].phase[a] = "refused"
  /\ Fault
  /\ Advance(c, a, "lost")
  /\ UNCHANGED <<worldVars, intents, children, orders, opened>>

CompleteRegardless(c) == \* mutant: completes with an answer lost
  /\ Serving(c, "fanned") /\ \A a \in Targets(c) : calls[c].phase[a] \in {"done", "lost"}
  /\ intents' = [intents EXCEPT ![calls[c].key] = "COMPLETE"]
  /\ End(c)
  /\ UNCHANGED <<worldVars, children, orders, opened, faults>>

Complete(c) ==
  /\ Serving(c, "fanned") /\ \A a \in Targets(c) : calls[c].phase[a] \in {"done", "lost"}
  /\ intents' = IF \E a \in Targets(c) : calls[c].phase[a] = "lost" THEN intents
                ELSE [intents EXCEPT ![calls[c].key] = "COMPLETE"]
  /\ End(c)
  /\ UNCHANGED <<worldVars, children, orders, opened, faults>>

-------------------------------------------------------------------------------
(* Around it *)

\* The server restarts; nothing takes up what it was doing.
Restart ==
  /\ Fault
  /\ calls' = [c \in Calls |-> NoCall]
  /\ UNCHANGED <<worldVars, intents, children, orders, opened>>

\* A pass fills an order, or the trader's own hand cancels it.
OrderMoves(k, a) ==
  /\ \/ orders[k][a] = "working" /\ \E s \in {"filled", "canceled"} : orders' = [orders EXCEPT ![k][a] = s]
     \/ orders[k][a] = "closing" /\ \E s \in {"closed", "kept"} : orders' = [orders EXCEPT ![k][a] = s]
  /\ UNCHANGED <<worldVars, intents, children, calls, opened, faults>>

\* The leader fails or is locked: attachCopyBreachHandler pauses the group.
Breach ==
  /\ fit /\ Fault
  /\ fit' = FALSE
  /\ group' = IF group = "ACTIVE" THEN "PAUSED" ELSE group
  /\ UNCHANGED <<members, intents, children, orders, calls, opened>>

transition(status) ==
  /\ group # status /\ (status = "ACTIVE" => fit)
  /\ group' = status
  /\ Fault
  /\ UNCHANGED <<fit, members, intents, children, orders, calls, opened>>

updateFollower(a) ==
  /\ \E how \in {"sized", "unsized", "disabled"} \ {members[a]} : members' = [members EXCEPT ![a] = how]
  /\ Fault
  /\ UNCHANGED <<group, fit, intents, children, orders, calls, opened>>

-------------------------------------------------------------------------------

CopyInit ==
  /\ group = "ACTIVE" /\ fit = TRUE /\ members = [a \in Followers |-> "sized"]
  /\ intents = [k \in Keys |-> "none"]
  /\ children = [k \in Keys |-> [a \in Accounts |-> "none"]]
  /\ orders = [k \in Keys |-> [a \in Accounts |-> "none"]]
  /\ calls = [c \in Calls |-> NoCall]
  /\ opened = [k \in Keys |-> {}] /\ faults = 0

Step(c) ==
  \/ LeaderLost(c) \/ recordIntent(c) \/ ReadMembers(c) \/ FanOut(c) \/ Complete(c)
  \/ \E a \in Accounts :
       \/ InsertChild(c, a) \/ Submit(c, a) \/ CancelOrder(c, a) \/ Flatten(c, a)
       \/ Refuse(c, a) \/ setChild(c, a)
Failing(c) == \E a \in Accounts : FailsLate(c, a) \/ AnswerLost(c, a)
Around ==
  \/ Restart \/ Breach
  \/ \E status \in {"ACTIVE", "PAUSED", "DISABLED"} : transition(status)
  \/ \E a \in Followers : updateFollower(a)
  \/ \E k \in Keys, a \in Accounts : OrderMoves(k, a)

CopyNext ==
  \/ \E c \in Calls : Step(c) \/ Failing(c) \/ \E k \in Keys : Begin(c, k)
  \/ Around

CopySpec == CopyInit /\ [][CopyNext]_copyVars
CopyFairSpec == CopySpec /\ \A c \in Calls : WF_copyVars(Step(c))

-------------------------------------------------------------------------------

CopyTypeOK ==
  /\ group \in {"ACTIVE", "PAUSED", "DISABLED"} /\ fit \in BOOLEAN /\ members \in [Followers -> {"sized", "unsized", "disabled"}]
  /\ intents \in [Keys -> {"none", "PENDING", "FANNED_OUT", "COMPLETE"}]
  /\ children \in [Keys -> [Accounts -> {"none", "PENDING", "SKIPPED", "ACCEPTED", "REJECTED"}]]
  /\ orders \in [Keys -> [Accounts -> Holding \cup {"none", "working", "canceled", "closed"}]]
  /\ calls \in [Calls -> [key : Keys \cup {"none"},
                          step : {"idle", "checked", "recorded", "inserting", "fanned"},
                          phase : [Accounts -> {"out", "skip", "insert", "act", "accepted", "refused", "done", "lost"}]]]
  /\ opened \in [Keys -> SUBSET (Keys \X Accounts)] /\ faults \in 0..MaxFaults

(* One intent gives an account at most one order and one answer, which is  *)
(* never taken back; ACCEPTED means that the order exists: through retries *)
(* of a request still being served, restarts and failing statements        *)
(* (copy-orchestrator.ts:10).                                              *)
placed == [k \in Keys |-> {a \in Accounts : Places(k) /\ orders[k][a] # "none"}]
told == [k \in Keys |-> [a \in Accounts |->
          IF children[k][a] \in {"none", "PENDING"} THEN "open" ELSE children[k][a]]]
Promised == INSTANCE CopyPromise
OneOutcomeEach == Promised!Promise

(* Whoever looks after a restart finds a row for every order that was      *)
(* placed and an answer of every account of an intent that is COMPLETE.    *)
OrdersAreRecorded ==
  \A k \in Keys, a \in Accounts :
    /\ Places(k) /\ orders[k][a] # "none" => intents[k] # "none" /\ children[k][a] # "none"
    /\ intents[k] = "COMPLETE" => children[k][a] # "PENDING"

(* A FLATTEN that was accepted for an account has placed the order that    *)
(* closes what was open on it when the intent was recorded                 *)
(* (copy-orchestrator.ts:448).                                             *)
FlattenReachesWhatWasOpen ==
  \A k \in Keys, a \in Accounts :
    KindOf[k] = "FLATTEN" /\ children[k][a] = "ACCEPTED" =>
      \A j \in Keys : <<j, a>> \in opened[k] => orders[j][a] \in {"closing", "closed", "kept"}

(* A CANCEL that is COMPLETE leaves no order of its intent working.        *)
CancelReachesAll ==
  \A k \in Keys, a \in Accounts :
    KindOf[k] = "CANCEL" /\ intents[k] = "COMPLETE" => orders[Of[k]][a] # "working"

(* Every intent is COMPLETE in the end.                                    *)
IntentsComplete == \A k \in Keys : (intents[k] # "none") ~> (intents[k] = "COMPLETE")
=============================================================================
