------------------------------ MODULE MCCommerce ------------------------------
(* A purchase and a grant that compete for one slot; and, for               *)
(* MCCommerceRaces.cfg, what documents and comments say of commerce and    *)
(* its code does not keep.                                                 *)
EXTENDS Commerce

\* "Five-account cap is unbreakable" (docs/CUSTOMER_SYSTEM_L5_CHECKLIST.md:14;
\* account-limit.ts:4-13): an account that is LOCKED for the day, or whose
\* evaluation passed and is funded later, has its slot sold meanwhile.
CapIsUnbreakable == Active <= MaxActive

Untouched(o) == \A w \in Attempts : OrderOf(w) # o

\* A refunded purchase has no account that trades on
\* (docs/commerce-provisioning-v1.md:349-356): a payment that comes after the
\* refund, or an operator's retry, provisions the REFUNDED order.
RefundedIsContained ==
  \A o \in Purchases :
    orders[o] = "REFUNDED" /\ Untouched(o) /\ accounts[EvaluationOf(o)] = "ACTIVE" => o \in held

\* Nor is its evaluation funded, or only with a hold (:355): a qualification
\* replaces the hold of the refund, and the funded account has none.
RefundedIsNotFunded ==
  [][\A o \in Purchases : orders[o] = "REFUNDED" => made'[FundedOf(o)] = made[FundedOf(o)]]_commerceVars

\* "Only verified payments provision" (docs/CUSTOMER_SYSTEM_L5_CHECKLIST.md:13):
\* an operator's retry provisions an order that is PENDING.
OnlyPaidProvisions == \A o \in Purchases : orders[o] = "PENDING" => made[EvaluationOf(o)] = 0

\* An event that is on record is applied or marked FAILED
\* (commerce-fulfillment.ts:256: "money success is recorded first"): a crash
\* between the two transactions leaves it RECEIVED, and the provider's next
\* delivery is a DUPLICATE.
RecordedIsApplied ==
  \A o \in Purchases :
    /\ ledger[o]["payment"] = "RECEIVED" ~> (orders[o] # "PENDING" \/ ledger[o]["payment"] # "RECEIVED")
    /\ ledger[o]["refund"] = "RECEIVED" ~> orders[o] = "REFUNDED"

\* "The sweep re-drives it" once the gate clears and a slot frees
\* (commerce-fulfillment.ts:119-123): nothing listens to a slot, a contact
\* sets off no recovery, and the recovery may come before the acceptance
\* that it waits for has committed.
BlockedIsRedriven ==
  \A o \in Purchases :
    ~ <>[](orders[o] = "PROVISION_BLOCKED" /\ gate = "met" /\ Active < MaxActive)
===============================================================================
