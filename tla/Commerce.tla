------------------------------- MODULE Commerce -------------------------------
(***************************************************************************)
(* From a payment to an account (platform/commerce.ts,                     *)
(* commerce-fulfillment.ts, commerce-refund.ts, commerce-certify.ts,       *)
(* account-limit.ts and the webhook of http/routes/commerce.ts), for the   *)
(* orders of one trader.                                                   *)
(*                                                                         *)
(* An attempt at an order is a chain of transactions with nothing held     *)
(* between them; webhooks, operators, the sweep at startup and the         *)
(* recovery that a cleared gate triggers attempt the same order at the     *)
(* same time, beside refunds, and a crash ends them all.                   *)
(***************************************************************************)
EXTENDS Integers, FiniteSets

CONSTANTS
  Purchases,        \* orders that are paid for (PURCHASE, RESET)
  Grants,           \* orders an operator gives away (ADMIN_GRANT)
  NoOrder,          \* the order of a worker that has nothing to do
  Workers, Sweeper, \* requests being served, and the loop over due orders
  MaxActive,        \* MAX_ACTIVE_ACCOUNTS
  MaxUpsets         \* bound: restarts, failing statements, and accounts
                    \* that stop, resume, end or pass

Orders == Purchases \cup Grants
Attempts == Workers \cup {Sweeper}
Keys == Orders \X {"EVALUATION", "FUNDED_SIM"}
EvaluationOf(o) == <<o, "EVALUATION">>
FundedOf(o) == <<o, "FUNDED_SIM">>
Events == {"payment", "refund"}

ASSUME CommerceAssumption ==
  /\ Purchases \cap Grants = {} /\ NoOrder \notin Orders /\ Sweeper \notin Workers
  /\ IsFiniteSet(Orders)
  /\ MaxActive \in Nat /\ MaxUpsets \in Nat

VARIABLES
  orders,    \* commercial_orders.status
  ents,      \* entitlements.status of the one entitlement of an order
  made,      \* how many accounts an order's entitlement, or the
             \* qualification of its evaluation, has produced
  accounts,  \* status of the last of them; AWAY is LOCKED or GOAL_REACHED
  held,      \* orders whose evaluation has adminHold LOCKED
  quals,     \* accountQualifications.fundingState
  ledger,    \* commerce_events.status of each order's payment and refund
  gate,      \* does the customer owe an agreement, his identity or a contact?
             \* clearing: the last one is met in an open transaction
  tasks,     \* the order an attempt is about, and the transaction it is at
  due,       \* orders that the sweep or the recovery has listed
  skipped,   \* history: orders whose sweep failed before it wrote anything
  upsets

commerceVars == <<orders, ents, made, accounts, held, quals, ledger, gate, tasks,
                  due, skipped, upsets>>

Idle == [kind |-> "idle", order |-> NoOrder, pc |-> "idle"]
Task(kind, o, pc) == [kind |-> kind, order |-> o, pc |-> pc]
At(w, pc) == tasks[w].pc = pc
OrderOf(w) == tasks[w].order
Goto(w, pc) == tasks' = [tasks EXCEPT ![w].pc = pc]
End(w) == tasks' = [tasks EXCEPT ![w] = Idle]
Start(w, task) == tasks[w] = Idle /\ tasks' = [tasks EXCEPT ![w] = task]
SetOrder(o, status) == orders' = [orders EXCEPT ![o] = status]

\* A webhook's attempt ends with marking its event.
Finish(w) == IF tasks[w].kind = "payment" THEN Goto(w, "processed") ELSE End(w)

CommerceInit ==
  /\ orders = [o \in Orders |-> "none"] /\ ents = [o \in Orders |-> "none"]
  /\ made = [k \in Keys |-> 0] /\ accounts = [k \in Keys |-> "none"]
  /\ held = {} /\ quals = [o \in Orders |-> "none"]
  /\ ledger = [o \in Orders |-> [e \in Events |-> "none"]]
  /\ gate = "owed"
  /\ tasks = [w \in Attempts |-> Idle]
  /\ due = {} /\ skipped = {} /\ upsets = 0

-------------------------------------------------------------------------------
(* Orders and events *)

createPendingOrder(o) ==
  /\ o \in Purchases /\ orders[o] = "none"
  /\ SetOrder(o, "PENDING")
  /\ UNCHANGED <<ents, made, accounts, held, quals, ledger, gate, tasks, due, skipped, upsets>>

\* A grant is complete from the start, and is fulfilled without the gate.
acquireEvaluation(w, o) ==
  /\ o \in Grants /\ orders[o] = "none"
  /\ SetOrder(o, "COMPLETED")
  /\ Start(w, Task("grant", o, "grant"))
  /\ UNCHANGED <<ents, made, accounts, held, quals, ledger, gate, due, skipped, upsets>>

\* The provider's event is recorded first; delivered again, it is a DUPLICATE.
recordCommerceEvent(w, o, e) ==
  /\ o \in Purchases /\ orders[o] # "none" /\ ledger[o][e] = "none"
  /\ ledger' = [ledger EXCEPT ![o][e] = "RECEIVED"]
  /\ Start(w, Task(e, o, IF e = "payment" THEN "complete" ELSE "refund"))
  /\ UNCHANGED <<orders, ents, made, accounts, held, quals, gate, due, skipped, upsets>>

\* An operator attempts an order again, whatever its status.
retryProvisioning(w, o) ==
  /\ orders[o] # "none"
  /\ Start(w, Task("retry", o, "read"))
  /\ UNCHANGED <<orders, ents, made, accounts, held, quals, ledger, gate, due, skipped, upsets>>

markOrderCompleted(w) ==
  /\ At(w, "complete")
  /\ orders' = [orders EXCEPT ![OrderOf(w)] = IF @ = "PENDING" THEN "COMPLETED" ELSE @]
  /\ Goto(w, "read")
  /\ UNCHANGED <<ents, made, accounts, held, quals, ledger, gate, due, skipped, upsets>>

markCommerceEventProcessed(w) ==
  /\ At(w, "processed")
  /\ ledger' = [ledger EXCEPT ![OrderOf(w)][tasks[w].kind] = "PROCESSED"]
  /\ End(w)
  /\ UNCHANGED <<orders, ents, made, accounts, held, quals, gate, due, skipped, upsets>>

-------------------------------------------------------------------------------
(* fulfillPurchaseGated *)

Unprovisioned == {"COMPLETED", "PROVISION_BLOCKED", "PROVISION_FAILED"}
Settled == {o \in Purchases : orders[o] \in Unprovisioned}
Active == Cardinality({k \in Keys : accounts[k] = "ACTIVE"})

\* The three reads that come before the first write.
ReadOrder(w) ==
  /\ At(w, "read")
  /\ IF orders[OrderOf(w)] = "PROVISIONED" THEN Finish(w)
     ELSE Goto(w, IF OrderOf(w) \in Purchases THEN "gate" ELSE "count")
  /\ UNCHANGED <<orders, ents, made, accounts, held, quals, ledger, gate, due, skipped, upsets>>

evaluateProvisioningGate(w) ==
  /\ At(w, "gate")
  /\ Goto(w, IF gate = "met" THEN "count" ELSE "block")
  /\ UNCHANGED <<orders, ents, made, accounts, held, quals, ledger, gate, due, skipped, upsets>>

countActiveAccounts(w) ==
  /\ At(w, "count")
  /\ Goto(w, IF Active >= MaxActive THEN "block" ELSE "grant")
  /\ UNCHANGED <<orders, ents, made, accounts, held, quals, ledger, gate, due, skipped, upsets>>

GrantAgain(w) == \* mutant: a repeated grant overwrites the first
  /\ At(w, "grant")
  /\ ents' = [ents EXCEPT ![OrderOf(w)] = "GRANTED"]
  /\ Goto(w, "provision")
  /\ UNCHANGED <<orders, made, accounts, held, quals, ledger, gate, due, skipped, upsets>>

grantEntitlement(w) ==
  /\ At(w, "grant")
  /\ ents' = [ents EXCEPT ![OrderOf(w)] = IF @ = "none" THEN "GRANTED" ELSE @]
  /\ Goto(w, "provision")
  /\ UNCHANGED <<orders, made, accounts, held, quals, ledger, gate, due, skipped, upsets>>

\* A caller that has no gate around it gets the error itself.
Refused(w, pc) == IF tasks[w].kind = "grant" THEN End(w) ELSE Goto(w, pc)

Create(k) ==
  /\ made' = [made EXCEPT ![k] = @ + 1]
  /\ accounts' = [accounts EXCEPT ![k] = "ACTIVE"]

ConsumeUnlimited(w, o) == \* mutant: only the count before the transaction
  /\ Create(EvaluationOf(o))
  /\ ents' = [ents EXCEPT ![o] = IF @ = "GRANTED" THEN "CONSUMED" ELSE @]
  /\ IF tasks[w].kind = "grant" THEN End(w) ELSE Goto(w, "mark")

\* provisionAccount in the transaction that holds the entitlement's row; an
\* account under the entitlement's key is used again.
Consume(w, o) ==
  LET reused == made[EvaluationOf(o)] > 0 IN
  IF ~reused /\ Active >= MaxActive
  THEN Refused(w, "block") /\ UNCHANGED <<ents, made, accounts>>
  ELSE /\ IF reused THEN UNCHANGED <<made, accounts>> ELSE Create(EvaluationOf(o))
       /\ ents' = [ents EXCEPT ![o] = IF @ = "GRANTED" THEN "CONSUMED" ELSE @]
       /\ IF tasks[w].kind = "grant" THEN End(w) ELSE Goto(w, "mark")

provisionFromEntitlement(w) ==
  LET o == OrderOf(w) IN
    /\ At(w, "provision")
    /\ CASE ents[o] = "CONSUMED" ->
              /\ IF tasks[w].kind = "grant" THEN End(w) ELSE Goto(w, "mark")
              /\ UNCHANGED <<ents, made, accounts>>
         [] ents[o] = "REVOKED" -> Refused(w, "fail") /\ UNCHANGED <<ents, made, accounts>>
         [] OTHER -> Consume(w, o)
    /\ UNCHANGED <<orders, held, quals, ledger, gate, due, skipped, upsets>>

MarkProvisioned(w) ==
  /\ At(w, "mark")
  /\ orders' = [orders EXCEPT ![OrderOf(w)] = IF @ \in Unprovisioned THEN "PROVISIONED" ELSE @]
  /\ Finish(w)
  /\ UNCHANGED <<ents, made, accounts, held, quals, ledger, gate, due, skipped, upsets>>

Parked(w) == IF At(w, "block") THEN "PROVISION_BLOCKED" ELSE "PROVISION_FAILED"

ParkAnyway(w) == \* mutant: no look at the status that is overwritten
  /\ tasks[w].pc \in {"block", "fail"}
  /\ SetOrder(OrderOf(w), Parked(w))
  /\ Finish(w)
  /\ UNCHANGED <<ents, made, accounts, held, quals, ledger, gate, due, skipped, upsets>>

setProvisionState(w) ==
  /\ tasks[w].pc \in {"block", "fail"}
  /\ orders' = [orders EXCEPT ![OrderOf(w)] = IF @ \in Unprovisioned THEN Parked(w) ELSE @]
  /\ Finish(w)
  /\ UNCHANGED <<ents, made, accounts, held, quals, ledger, gate, due, skipped, upsets>>

Upset == upsets < MaxUpsets /\ upsets' = upsets + 1

\* A statement inside the try fails, or provisioning is switched off.
AttemptFails(w) ==
  /\ tasks[w].pc \in {"grant", "provision", "mark"} /\ Upset
  /\ Refused(w, "fail")
  /\ UNCHANGED <<orders, ents, made, accounts, held, quals, ledger, gate, due, skipped>>

\* A statement outside of it fails: the webhook of a payment marks its event
\* (that of a refund does not), the loop of the sweep goes on.
AttemptThrows(w) ==
  LET o == OrderOf(w) IN
    /\ tasks[w].pc \notin {"idle", "grant", "provision", "mark"} /\ Upset
    /\ ledger' = IF tasks[w].kind = "payment" THEN [ledger EXCEPT ![o]["payment"] = "FAILED"]
                 ELSE ledger
    /\ skipped' = IF w = Sweeper THEN skipped \cup {o} ELSE skipped
    /\ End(w)
    /\ UNCHANGED <<orders, ents, made, accounts, held, quals, gate, due>>

-------------------------------------------------------------------------------
(* Refunds and disputes *)

\* handleRefund's transaction, on an order of any status.
handleRefund(w) ==
  LET o == OrderOf(w) IN
    /\ At(w, "refund")
    /\ SetOrder(o, "REFUNDED")
    /\ ents' = [ents EXCEPT ![o] = IF @ = "GRANTED" THEN "REVOKED" ELSE @]
    /\ Goto(w, "find")
    /\ UNCHANGED <<made, accounts, held, quals, ledger, gate, due, skipped, upsets>>

\* An operator refunds without an event of the provider.
executeRemediation(w, o) ==
  /\ orders[o] # "none"
  /\ Start(w, Task("remedy", o, "refund"))
  /\ UNCHANGED <<orders, ents, made, accounts, held, quals, ledger, gate, due, skipped, upsets>>

handleDispute(w, o) ==
  /\ orders[o] # "none"
  /\ Start(w, Task("dispute", o, "find"))
  /\ UNCHANGED <<orders, ents, made, accounts, held, quals, ledger, gate, due, skipped, upsets>>

FinishRefund(w) == IF tasks[w].kind = "refund" THEN Goto(w, "processed") ELSE End(w)

\* The account is looked for after, or before, the transaction.
orderAccountId(w) ==
  /\ At(w, "find")
  /\ IF ents[OrderOf(w)] = "CONSUMED" THEN Goto(w, "hold") ELSE FinishRefund(w)
  /\ UNCHANGED <<orders, ents, made, accounts, held, quals, ledger, gate, due, skipped, upsets>>

\* The evaluation's row, unless it has a hold already, QUALIFIED included.
holdAccount(w) ==
  LET o == OrderOf(w) IN
    /\ At(w, "hold")
    /\ held' = IF quals[o] # "none" THEN held ELSE held \cup {o}
    /\ FinishRefund(w)
    /\ UNCHANGED <<orders, ents, made, accounts, quals, ledger, gate, due, skipped, upsets>>

-------------------------------------------------------------------------------
(* Accounts, qualification and funding *)

\* An account stops, or resumes, its day; or it ends.
Trades(k) ==
  /\ Upset
  /\ \/ accounts[k] = "ACTIVE" /\ \E s \in {"AWAY", "CLOSED"} : accounts' = [accounts EXCEPT ![k] = s]
     \/ accounts[k] = "AWAY" /\ accounts' = [accounts EXCEPT ![k] = "ACTIVE"]
  /\ UNCHANGED <<orders, ents, made, held, quals, ledger, gate, tasks, due, skipped>>

\* The hold QUALIFIED replaces any other.
certifyEvaluation(o) ==
  /\ quals[o] = "none" /\ accounts[EvaluationOf(o)] \in {"ACTIVE", "AWAY"} /\ Upset
  /\ quals' = [quals EXCEPT ![o] = "ELIGIBLE"]
  /\ accounts' = [accounts EXCEPT ![EvaluationOf(o)] = "PASSED"]
  /\ held' = held \ {o}
  /\ UNCHANGED <<orders, ents, made, ledger, gate, tasks, due, skipped>>

approveFunding(o) ==
  /\ quals[o] = "ELIGIBLE" /\ made[FundedOf(o)] = 0
  /\ Create(FundedOf(o))
  /\ quals' = [quals EXCEPT ![o] = "FUNDED"]
  /\ UNCHANGED <<orders, ents, held, ledger, gate, tasks, due, skipped, upsets>>

\* declineFunding reads the state before its transaction.
ReadFunding(w, o) ==
  /\ quals[o] \in {"ELIGIBLE", "DECLINED"}
  /\ Start(w, Task("decline", o, "decline"))
  /\ UNCHANGED <<orders, ents, made, accounts, held, quals, ledger, gate, due, skipped, upsets>>

declineFunding(w) ==
  /\ At(w, "decline")
  /\ quals' = [quals EXCEPT ![OrderOf(w)] = "DECLINED"]
  /\ End(w)
  /\ UNCHANGED <<orders, ents, made, accounts, held, ledger, gate, due, skipped, upsets>>

-------------------------------------------------------------------------------
(* The gate, the loops and restarts *)

\* agreement.accepted and identity.verified are published inside the
\* transaction that records them, and the recovery runs from a timer.
registerProvisioningRecovery ==
  /\ gate = "owed" /\ gate' = "clearing"
  /\ due' = due \cup Settled
  /\ UNCHANGED <<orders, ents, made, accounts, held, quals, ledger, tasks, skipped, upsets>>

\* That transaction commits; or what was missing is a contact, which is
\* verified without such an event.
GateCleared ==
  /\ gate # "met" /\ gate' = "met"
  /\ UNCHANGED <<orders, ents, made, accounts, held, quals, ledger, tasks, due, skipped, upsets>>

\* An agreement has a new version, or the identity is to be verified again.
GateReopened ==
  /\ gate = "met" /\ gate' = "owed"
  /\ UNCHANGED <<orders, ents, made, accounts, held, quals, ledger, tasks, due, skipped, upsets>>

TakeDue(o) ==
  /\ o \in due /\ Start(Sweeper, Task("sweep", o, "read"))
  /\ due' = due \ {o}
  /\ UNCHANGED <<orders, ents, made, accounts, held, quals, ledger, gate, skipped, upsets>>

RetryParked == \* mutant: the orders that an attempt has parked
  {o \in Purchases : orders[o] \in {"PROVISION_BLOCKED", "PROVISION_FAILED"}}

\* What the sweep of a starting process lists.
retryPendingProvisioning == Settled

Restart ==
  /\ Upset
  /\ tasks' = [w \in Attempts |-> Idle]
  /\ due' = retryPendingProvisioning
  /\ gate' = IF gate = "clearing" THEN "owed" ELSE gate
  /\ UNCHANGED <<orders, ents, made, accounts, held, quals, ledger, skipped>>

-------------------------------------------------------------------------------
Attempt(w) ==
  \/ markOrderCompleted(w) \/ ReadOrder(w) \/ evaluateProvisioningGate(w)
  \/ countActiveAccounts(w) \/ grantEntitlement(w) \/ provisionFromEntitlement(w)
  \/ MarkProvisioned(w) \/ setProvisionState(w) \/ markCommerceEventProcessed(w)
  \/ handleRefund(w) \/ orderAccountId(w) \/ holdAccount(w) \/ declineFunding(w)

Request(w) == \E o \in Orders :
  \/ acquireEvaluation(w, o) \/ retryProvisioning(w, o)
  \/ executeRemediation(w, o) \/ handleDispute(w, o)
  \/ ReadFunding(w, o) \/ \E e \in Events : recordCommerceEvent(w, o, e)

CommerceNext ==
  \/ \E w \in Attempts : Attempt(w) \/ AttemptFails(w) \/ AttemptThrows(w)
  \/ \E w \in Workers : Request(w)
  \/ \E o \in Orders : createPendingOrder(o) \/ TakeDue(o) \/ certifyEvaluation(o) \/ approveFunding(o)
  \/ \E k \in Keys : Trades(k)
  \/ registerProvisioningRecovery \/ GateCleared \/ GateReopened \/ Restart

CommerceSpec == CommerceInit /\ [][CommerceNext]_commerceVars

\* A request, once begun, and the loop go on.
CommerceFairness ==
  /\ \A w \in Attempts : WF_commerceVars(Attempt(w))
  /\ WF_commerceVars(\E o \in Orders : TakeDue(o))
CommerceFairSpec == CommerceSpec /\ CommerceFairness

-------------------------------------------------------------------------------
(* Properties *)

Statuses == {"none", "PENDING", "PROVISIONED", "REFUNDED"} \cup Unprovisioned
TaskTypes == [kind : {"idle", "payment", "refund", "retry", "grant", "remedy", "dispute", "decline", "sweep"},
              order : Orders \cup {NoOrder},
              pc : {"idle", "complete", "read", "gate", "count", "grant", "provision", "mark",
                    "block", "fail", "processed", "refund", "find", "hold", "decline"}]

\* Orders, entitlements, accounts, events and attempts are what their columns
\* and phases can hold.
CommerceTypeOK ==
  /\ orders \in [Orders -> Statuses]
  /\ ents \in [Orders -> {"none", "GRANTED", "CONSUMED", "REVOKED"}]
  /\ made \in [Keys -> Nat]
  /\ accounts \in [Keys -> {"none", "ACTIVE", "AWAY", "CLOSED", "PASSED"}]
  /\ held \subseteq Orders
  /\ quals \in [Orders -> {"none", "ELIGIBLE", "FUNDED", "DECLINED"}]
  /\ ledger \in [Orders -> [Events -> {"none", "RECEIVED", "PROCESSED", "FAILED"}]]
  /\ gate \in {"owed", "clearing", "met"}
  /\ tasks \in [Attempts -> TaskTypes]
  /\ due \subseteq Orders /\ skipped \subseteq Orders
  /\ upsets \in Nat

\* One payment, one account (commerce-fulfillment.ts:11-14): however often an
\* order is attempted, an account exists exactly when the entitlement is
\* consumed, it is the only one, a PROVISIONED order has it, and a
\* qualification has at most one funded account.
EntitlementsAddUp ==
  \A o \in Orders :
    /\ made[EvaluationOf(o)] = IF ents[o] = "CONSUMED" THEN 1 ELSE 0
    /\ orders[o] = "PROVISIONED" => ents[o] = "CONSUMED"
    /\ made[FundedOf(o)] <= 1 /\ (quals[o] = "FUNDED" => made[FundedOf(o)] = 1)

\* Outcomes stand (setProvisionState, handleRefund): an attempt that comes
\* late neither parks an order that another one provisioned, nor reopens a
\* refunded one, nor uses an entitlement that the refund revoked.
OutcomesStand ==
  [][\A o \in Orders :
       /\ orders[o] = "PROVISIONED" => orders'[o] \in {"PROVISIONED", "REFUNDED"}
       /\ orders[o] = "REFUNDED" => orders'[o] = "REFUNDED"
       /\ ents[o] \in {"REVOKED", "CONSUMED"} => ents'[o] = ents[o] /\ made'[EvaluationOf(o)] = made[EvaluationOf(o)]]_commerceVars

\* The limit of account-limit.ts where it is enforced: attempts that all
\* counted a free slot do not take more than there are.
LimitAtPurchase ==
  [][\A o \in Orders : made'[EvaluationOf(o)] > made[EvaluationOf(o)] => Active' <= MaxActive]_commerceVars

\* No paid order is left behind (commerce-fulfillment.ts:180-187): a purchase
\* whose money is settled is provisioned, parked or refunded, after a crash
\* too, unless the attempt failed before it could write; its event says so,
\* or the attempt was the sweep's.
SettledIsTakenUp ==
  \A o \in Purchases :
    orders[o] = "COMPLETED" ~>
      (orders[o] # "COMPLETED" \/ ledger[o]["payment"] = "FAILED" \/ o \in skipped)
===============================================================================
