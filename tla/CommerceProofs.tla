---------------------------- MODULE CommerceProofs ----------------------------
(* What is proved of Commerce, for any orders, requests and limit, and any *)
(* number of restarts, failing statements and changes of the accounts.     *)
EXTENDS Commerce, FiniteSetTheorems, TLAPS

PCs == {"idle", "complete", "read", "gate", "count", "grant", "provision", "mark",
        "block", "fail", "processed", "refund", "find", "hold", "decline"}
Kinds == {"idle", "payment", "refund", "retry", "grant", "remedy", "dispute", "decline", "sweep"}

\* Where an attempt stands tells what has been done for its order: it comes
\* to the provisioning with an entitlement, and to the last mark with an
\* account.
Stands(w) ==
  /\ tasks[w].pc # "idle" => tasks[w].order \in Orders
  /\ tasks[w].pc = "processed" => tasks[w].kind \in Events
  /\ tasks[w].pc = "provision" => ents[tasks[w].order] # "none"
  /\ tasks[w].pc = "mark" => ents[tasks[w].order] = "CONSUMED"

CommerceInv ==
  /\ CommerceTypeOK
  /\ EntitlementsAddUp
  /\ \A w \in Attempts : Stands(w)

TypedTasks == tasks \in [Attempts -> TaskTypes]

-------------------------------------------------------------------------------
(* What a step does to the attempts *)

LEMMA TaskIs == \A t \in TaskTypes : t.kind \in Kinds /\ t.order \in Orders \cup {NoOrder} /\ t.pc \in PCs
BY DEF TaskTypes, Kinds, PCs

LEMMA Went ==
  ASSUME TypedTasks, NEW w \in Attempts, NEW pc \in PCs, Goto(w, pc)
  PROVE  /\ tasks' \in [Attempts -> TaskTypes]
         /\ tasks'[w].pc = pc /\ tasks'[w].kind = tasks[w].kind /\ tasks'[w].order = tasks[w].order
         /\ \A v \in Attempts : v # w => tasks'[v] = tasks[v]
<1> DEFINE new == [tasks[w] EXCEPT !.pc = pc]
<1>1. tasks[w] \in TaskTypes
  BY DEF TypedTasks
<1>2. new \in TaskTypes /\ new.pc = pc /\ new.kind = tasks[w].kind /\ new.order = tasks[w].order
  BY <1>1 DEF TaskTypes, PCs
<1>3. tasks' = [tasks EXCEPT ![w] = new]
  BY DEF Goto
<1> HIDE DEF new
<1> QED
  BY <1>2, <1>3 DEF TypedTasks

LEMMA Began ==
  ASSUME TypedTasks, NEW w \in Attempts, NEW kind \in Kinds, NEW o \in Orders, NEW pc \in PCs,
         Start(w, Task(kind, o, pc))
  PROVE  /\ tasks' \in [Attempts -> TaskTypes] /\ tasks[w] = Idle
         /\ tasks'[w].pc = pc /\ tasks'[w].kind = kind /\ tasks'[w].order = o
         /\ \A v \in Attempts : v # w => tasks'[v] = tasks[v]
<1>1. Task(kind, o, pc) \in TaskTypes
  BY DEF Task, TaskTypes, Kinds, PCs
<1>2. Task(kind, o, pc).pc = pc /\ Task(kind, o, pc).kind = kind /\ Task(kind, o, pc).order = o
  BY DEF Task
<1> QED
  BY <1>1, <1>2 DEF Start, TypedTasks

LEMMA Ended ==
  ASSUME TypedTasks, NEW w \in Attempts, End(w)
  PROVE  /\ tasks' \in [Attempts -> TaskTypes]
         /\ tasks'[w].pc = "idle"
         /\ \A v \in Attempts : v # w => tasks'[v] = tasks[v]
<1>1. Idle \in TaskTypes /\ Idle.pc = "idle"
  BY DEF Idle, TaskTypes
<1> QED
  BY <1>1 DEF End, TypedTasks

\* An attempt that goes on, ends, or finishes with its event keeps its place
\* if the entitlements say what the new place needs.
Places(pc, o) ==
  /\ pc \in PCs \ {"idle", "processed"}
  /\ pc = "provision" => ents'[o] # "none"
  /\ pc = "mark" => ents'[o] = "CONSUMED"

\* No entitlement is taken back to none, or is used twice.
EntsGrow == \A o \in Orders :
  /\ ents[o] # "none" => ents'[o] # "none"
  /\ ents[o] = "CONSUMED" => ents'[o] = "CONSUMED"

StandsAfter == tasks' \in [Attempts -> TaskTypes] /\ \A v \in Attempts : Stands(v)'

LEMMA OthersStand ==
  ASSUME CommerceInv, EntsGrow, NEW v \in Attempts, tasks'[v] = tasks[v]
  PROVE  Stands(v)'
BY DEF CommerceInv, EntsGrow, Stands

LEMMA GoesOn ==
  ASSUME CommerceInv, EntsGrow, NEW w \in Attempts, tasks[w].pc # "idle",
         NEW pc, Places(pc, tasks[w].order), Goto(w, pc)
  PROVE  StandsAfter
<1>1. TypedTasks /\ pc \in PCs /\ tasks[w].order \in Orders
  BY DEF CommerceInv, CommerceTypeOK, TypedTasks, Places, Stands
<1>2. Stands(w)'
  BY <1>1, Went DEF Stands, Places
<1> QED
  BY <1>1, <1>2, Went, OthersStand DEF StandsAfter

LEMMA Ends ==
  ASSUME CommerceInv, EntsGrow, NEW w \in Attempts, End(w)
  PROVE  StandsAfter
<1>1. TypedTasks
  BY DEF CommerceInv, CommerceTypeOK, TypedTasks
<1>2. Stands(w)'
  BY <1>1, Ended DEF Stands
<1> QED
  BY <1>1, <1>2, Ended, OthersStand DEF StandsAfter

LEMMA Finishes ==
  ASSUME CommerceInv, EntsGrow, NEW w \in Attempts, tasks[w].pc # "idle",
         Finish(w) \/ FinishRefund(w)
  PROVE  StandsAfter
<1>1. CASE End(w)
  BY <1>1, Ends
<1>2. CASE Goto(w, "processed") /\ tasks[w].kind \in Events
  <2>1. TypedTasks /\ "processed" \in PCs
    BY DEF CommerceInv, CommerceTypeOK, TypedTasks, PCs
  <2>2. Stands(w)'
    BY <1>2, <2>1, Went DEF CommerceInv, Stands
  <2> QED
    BY <1>2, <2>1, <2>2, Went, OthersStand DEF StandsAfter
<1> QED
  BY <1>1, <1>2 DEF Finish, FinishRefund, Events

LEMMA Begins ==
  ASSUME CommerceInv, EntsGrow, NEW w \in Attempts, NEW kind \in Kinds, NEW o \in Orders,
         NEW pc, Places(pc, o), Start(w, Task(kind, o, pc))
  PROVE  StandsAfter
<1>1. TypedTasks /\ pc \in PCs
  BY DEF CommerceInv, CommerceTypeOK, TypedTasks, Places
<1>2. Stands(w)'
  BY <1>1, Began DEF Stands, Places
<1> QED
  BY <1>1, <1>2, Began, OthersStand DEF StandsAfter

LEMMA Rests ==
  ASSUME CommerceInv, EntsGrow, UNCHANGED tasks
  PROVE  StandsAfter
BY OthersStand DEF CommerceInv, CommerceTypeOK, StandsAfter

-------------------------------------------------------------------------------
(* Each action keeps the invariant *)

LEMMA Together ==
  ASSUME CommerceTypeOK', EntitlementsAddUp', StandsAfter
  PROVE  CommerceInv'
BY DEF CommerceInv, StandsAfter

LEMMA InvFacts ==
  ASSUME CommerceInv
  PROVE  /\ CommerceTypeOK /\ TypedTasks /\ EntitlementsAddUp
         /\ \A w \in Attempts : Stands(w) /\ (tasks[w].pc # "idle" => tasks[w].order \in Orders)
BY DEF CommerceInv, CommerceTypeOK, TypedTasks, Stands

\* Steps that change nothing but the attempts and what is due.
LEMMA OnlyTasks ==
  ASSUME CommerceInv, StandsAfter, due' \subseteq Orders, skipped' \subseteq Orders, upsets' \in Nat,
         gate' \in {"owed", "clearing", "met"}, held' \subseteq Orders,
         UNCHANGED <<orders, ents, made, accounts, quals, ledger>>
  PROVE  CommerceInv'
<1>1. CommerceTypeOK'
  BY InvFacts DEF CommerceTypeOK, StandsAfter
<1>2. EntitlementsAddUp'
  BY InvFacts DEF EntitlementsAddUp
<1> QED
  BY <1>1, <1>2, Together

LEMMA ReadsKeep ==
  ASSUME CommerceInv, NEW w \in Attempts,
         ReadOrder(w) \/ evaluateProvisioningGate(w) \/ countActiveAccounts(w) \/ orderAccountId(w)
  PROVE  CommerceInv'
<1>1. EntsGrow /\ UNCHANGED <<orders, ents, made, accounts, held, quals, ledger, gate, due, skipped, upsets>>
  BY DEF EntsGrow, ReadOrder, evaluateProvisioningGate, countActiveAccounts, orderAccountId
<1>2. tasks[w].pc # "idle"
  BY DEF ReadOrder, evaluateProvisioningGate, countActiveAccounts, orderAccountId, At
<1>3. \A pc \in {"gate", "count", "block", "grant", "hold"} : Places(pc, tasks[w].order)
  BY DEF Places, PCs
<1>4. \/ Finish(w) \/ FinishRefund(w)
      \/ \E pc \in {"gate", "count", "block", "grant", "hold"} : Goto(w, pc)
  BY DEF ReadOrder, evaluateProvisioningGate, countActiveAccounts, orderAccountId
<1>5. StandsAfter
  BY <1>1, <1>2, <1>3, <1>4, GoesOn, Finishes
<1> QED
  BY <1>1, <1>5, InvFacts, OnlyTasks DEF CommerceTypeOK

LEMMA RequestsKeep ==
  ASSUME CommerceInv, NEW w \in Workers, NEW o \in Orders,
         retryProvisioning(w, o) \/ executeRemediation(w, o) \/ handleDispute(w, o) \/ ReadFunding(w, o)
  PROVE  CommerceInv'
<1>1. EntsGrow /\ UNCHANGED <<orders, ents, made, accounts, held, quals, ledger, gate, due, skipped, upsets>>
  BY DEF EntsGrow, retryProvisioning, executeRemediation, handleDispute, ReadFunding
<1>2. \A pc \in {"read", "find", "decline", "refund"} : Places(pc, o)
  BY DEF Places, PCs
<1>3. w \in Attempts /\ {"retry", "remedy", "dispute", "decline"} \subseteq Kinds
  BY DEF Attempts, Kinds
<1>4. \E kind \in Kinds, pc \in {"read", "find", "decline", "refund"} : Start(w, Task(kind, o, pc))
  BY <1>3 DEF retryProvisioning, executeRemediation, handleDispute, ReadFunding
<1>5. StandsAfter
  BY <1>1, <1>2, <1>3, <1>4, Begins
<1> QED
  BY <1>1, <1>5, InvFacts, OnlyTasks DEF CommerceTypeOK

LEMMA WorldKeeps ==
  ASSUME CommerceInv, registerProvisioningRecovery \/ GateCleared \/ GateReopened
  PROVE  CommerceInv'
<1>1. EntsGrow /\ UNCHANGED <<orders, ents, made, accounts, held, quals, ledger, tasks, skipped, upsets>>
  BY DEF EntsGrow, registerProvisioningRecovery, GateCleared, GateReopened
<1>2. due' \subseteq Orders /\ gate' \in {"owed", "clearing", "met"}
  BY InvFacts DEF CommerceTypeOK, registerProvisioningRecovery, GateCleared, GateReopened, Settled, Orders
<1>3. StandsAfter
  BY <1>1, Rests
<1> QED
  BY <1>1, <1>2, <1>3, InvFacts, OnlyTasks DEF CommerceTypeOK

LEMMA TakeDueKeeps ==
  ASSUME CommerceInv, NEW o \in Orders, TakeDue(o)
  PROVE  CommerceInv'
<1>1. EntsGrow /\ UNCHANGED <<orders, ents, made, accounts, held, quals, ledger, gate, skipped, upsets>>
  BY DEF EntsGrow, TakeDue
<1>2. Places("read", o) /\ Sweeper \in Attempts /\ "sweep" \in Kinds
  BY DEF Places, PCs, Attempts, Kinds
<1>3. StandsAfter
  BY <1>1, <1>2, Begins DEF TakeDue
<1> QED
  BY <1>1, <1>3, InvFacts, OnlyTasks DEF CommerceTypeOK, TakeDue

LEMMA RestartKeeps ==
  ASSUME CommerceInv, Restart
  PROVE  CommerceInv'
<1>1. UNCHANGED <<orders, ents, made, accounts, held, quals, ledger, skipped>> /\ upsets' \in Nat
  BY InvFacts DEF Restart, Upset, CommerceTypeOK
<1>2. due' \subseteq Orders /\ gate' \in {"owed", "clearing", "met"}
  BY InvFacts DEF CommerceTypeOK, Restart, retryPendingProvisioning, Settled, Orders
<1>3. StandsAfter
  BY DEF Restart, StandsAfter, Stands, Idle, TaskTypes
<1> QED
  BY <1>1, <1>2, <1>3, InvFacts, OnlyTasks DEF CommerceTypeOK

LEMMA holdAccountKeeps ==
  ASSUME CommerceInv, NEW w \in Attempts, holdAccount(w)
  PROVE  CommerceInv'
<1>1. EntsGrow /\ UNCHANGED <<orders, ents, made, accounts, quals, ledger, gate, due, skipped, upsets>>
  BY DEF EntsGrow, holdAccount
<1>2. tasks[w].pc # "idle" /\ FinishRefund(w)
  BY DEF holdAccount, At
<1>3. StandsAfter
  BY <1>1, <1>2, Finishes
<1>4. held' \subseteq Orders
  BY <1>2, InvFacts DEF CommerceTypeOK, holdAccount, OrderOf
<1> QED
  BY <1>1, <1>3, <1>4, InvFacts, OnlyTasks DEF CommerceTypeOK

\* Steps that move an order, an event or a qualification, and no account.
LEMMA OrderMoves ==
  ASSUME CommerceInv, StandsAfter, NEW o \in Orders, NEW s \in Statuses, SetOrder(o, s),
         s = "PROVISIONED" => ents[o] = "CONSUMED",
         UNCHANGED <<ents, made, accounts, held, quals, ledger, gate, due, skipped, upsets>>
  PROVE  CommerceInv'
<1>1. orders' \in [Orders -> Statuses] /\ \A p \in Orders : orders'[p] = IF p = o THEN s ELSE orders[p]
  BY InvFacts DEF CommerceTypeOK, SetOrder
<1>2. CommerceTypeOK'
  BY <1>1, InvFacts DEF CommerceTypeOK, StandsAfter
<1>3. EntitlementsAddUp'
  BY <1>1, InvFacts DEF EntitlementsAddUp
<1> QED
  BY <1>2, <1>3, Together

LEMMA createPendingOrderKeeps ==
  ASSUME CommerceInv, NEW o \in Orders, createPendingOrder(o)
  PROVE  CommerceInv'
<1>1. EntsGrow /\ UNCHANGED tasks
  BY DEF EntsGrow, createPendingOrder
<1>2. StandsAfter
  BY <1>1, Rests
<1> QED
  BY <1>2, OrderMoves DEF createPendingOrder, Statuses

LEMMA acquireEvaluationKeeps ==
  ASSUME CommerceInv, NEW w \in Workers, NEW o \in Orders, acquireEvaluation(w, o)
  PROVE  CommerceInv'
<1>1. EntsGrow
  BY DEF EntsGrow, acquireEvaluation
<1>2. w \in Attempts /\ "grant" \in Kinds /\ Places("grant", o)
  BY DEF Attempts, Kinds, Places, PCs
<1>3. StandsAfter
  BY <1>1, <1>2, Begins DEF acquireEvaluation
<1> QED
  BY <1>3, OrderMoves DEF acquireEvaluation, Statuses, Unprovisioned

LEMMA markOrderCompletedKeeps ==
  ASSUME CommerceInv, NEW w \in Attempts, markOrderCompleted(w)
  PROVE  CommerceInv'
<1> DEFINE o == tasks[w].order
           s == IF orders[o] = "PENDING" THEN "COMPLETED" ELSE orders[o]
<1>1. tasks[w].pc # "idle" /\ o \in Orders
  BY InvFacts DEF markOrderCompleted, At
<1>2. SetOrder(o, s)
  BY DEF markOrderCompleted, SetOrder, OrderOf
<1>3. s \in Statuses /\ (s = "PROVISIONED" => ents[o] = "CONSUMED")
  BY <1>1, InvFacts DEF CommerceTypeOK, Statuses, Unprovisioned, EntitlementsAddUp
<1>4. EntsGrow /\ Places("read", o)
  BY DEF EntsGrow, markOrderCompleted, Places, PCs
<1>5. StandsAfter
  BY <1>1, <1>4, GoesOn DEF markOrderCompleted
<1> HIDE DEF o, s
<1> QED
  BY <1>1, <1>2, <1>3, <1>5, OrderMoves DEF markOrderCompleted

LEMMA MarksKeep ==
  ASSUME CommerceInv, NEW w \in Attempts, MarkProvisioned(w) \/ setProvisionState(w)
  PROVE  CommerceInv'
<1> DEFINE o == tasks[w].order
<1>1. tasks[w].pc # "idle" /\ o \in Orders
  BY InvFacts DEF MarkProvisioned, setProvisionState, At
<1>3. EntsGrow /\ Finish(w)
  BY DEF EntsGrow, MarkProvisioned, setProvisionState
<1>4. StandsAfter
  BY <1>1, <1>3, Finishes
<1>5. \E s \in Statuses : SetOrder(o, s) /\ (s = "PROVISIONED" => ents[o] = "CONSUMED")
  <2>1. orders[o] \in Statuses /\ (orders[o] = "PROVISIONED" => ents[o] = "CONSUMED")
    BY <1>1, InvFacts DEF CommerceTypeOK, EntitlementsAddUp
  <2>2. CASE MarkProvisioned(w)
    <3>1. ents[o] = "CONSUMED"
      BY <2>2, InvFacts DEF MarkProvisioned, At, Stands
    <3> DEFINE s == IF orders[o] \in Unprovisioned THEN "PROVISIONED" ELSE orders[o]
    <3>2. s \in Statuses /\ (s = "PROVISIONED" => ents[o] = "CONSUMED")
      BY <2>1, <3>1 DEF Statuses
    <3>3. SetOrder(o, s)
      BY <2>2 DEF MarkProvisioned, SetOrder, OrderOf
    <3> HIDE DEF s
    <3> QED
      BY <3>2, <3>3
  <2>3. CASE setProvisionState(w)
    <3>1. Parked(w) \in Statuses \ {"PROVISIONED"}
      BY DEF Parked, Statuses, Unprovisioned
    <3> DEFINE s == IF orders[o] \in Unprovisioned THEN Parked(w) ELSE orders[o]
    <3>2. s \in Statuses /\ (s = "PROVISIONED" => ents[o] = "CONSUMED")
      BY <2>1, <3>1
    <3>3. SetOrder(o, s)
      BY <2>3 DEF setProvisionState, SetOrder, OrderOf
    <3> HIDE DEF s
    <3> QED
      BY <3>2, <3>3
  <2> QED
    BY <2>2, <2>3
<1> HIDE DEF o
<1> QED
  BY <1>1, <1>4, <1>5, OrderMoves DEF MarkProvisioned, setProvisionState

\* The ledger alone.
LEMMA LedgerMoves ==
  ASSUME CommerceInv, StandsAfter, NEW o \in Orders, NEW e \in Events,
         NEW s \in {"RECEIVED", "PROCESSED", "FAILED"}, ledger' = [ledger EXCEPT ![o][e] = s],
         skipped' \subseteq Orders, upsets' \in Nat,
         UNCHANGED <<orders, ents, made, accounts, held, quals, gate, due>>
  PROVE  CommerceInv'
<1>1. ledger' \in [Orders -> [Events -> {"none", "RECEIVED", "PROCESSED", "FAILED"}]]
  BY InvFacts DEF CommerceTypeOK
<1>2. CommerceTypeOK'
  BY <1>1, InvFacts DEF CommerceTypeOK, StandsAfter
<1>3. EntitlementsAddUp'
  BY InvFacts DEF EntitlementsAddUp
<1> QED
  BY <1>2, <1>3, Together

LEMMA recordCommerceEventKeeps ==
  ASSUME CommerceInv, NEW w \in Workers, NEW o \in Orders, NEW e \in Events, recordCommerceEvent(w, o, e)
  PROVE  CommerceInv'
<1>1. EntsGrow
  BY DEF EntsGrow, recordCommerceEvent
<1>2. w \in Attempts /\ e \in Kinds /\ \A pc \in {"complete", "refund"} : Places(pc, o)
  BY DEF Attempts, Kinds, Events, Places, PCs
<1>3. \E pc \in {"complete", "refund"} : Start(w, Task(e, o, pc))
  BY DEF recordCommerceEvent
<1>4. StandsAfter
  BY <1>1, <1>2, <1>3, Begins
<1> QED
  BY <1>4, InvFacts, LedgerMoves DEF recordCommerceEvent, CommerceTypeOK

LEMMA markCommerceEventProcessedKeeps ==
  ASSUME CommerceInv, NEW w \in Attempts, markCommerceEventProcessed(w)
  PROVE  CommerceInv'
<1>1. EntsGrow
  BY DEF EntsGrow, markCommerceEventProcessed
<1>2. StandsAfter
  BY <1>1, Ends DEF markCommerceEventProcessed
<1>3. tasks[w].order \in Orders /\ tasks[w].kind \in Events
  BY InvFacts DEF Stands, markCommerceEventProcessed, At
<1> QED
  BY <1>2, <1>3, InvFacts, LedgerMoves DEF markCommerceEventProcessed, OrderOf, CommerceTypeOK

LEMMA AttemptThrowsKeeps ==
  ASSUME CommerceInv, NEW w \in Attempts, AttemptThrows(w)
  PROVE  CommerceInv'
<1>1. EntsGrow
  BY DEF EntsGrow, AttemptThrows
<1>2. StandsAfter
  BY <1>1, Ends DEF AttemptThrows
<1>3. tasks[w].order \in Orders
  BY InvFacts DEF AttemptThrows
<1>4. skipped' \subseteq Orders /\ upsets' \in Nat
  BY <1>3, InvFacts DEF AttemptThrows, CommerceTypeOK, Upset, OrderOf
<1>5. CASE tasks[w].kind = "payment"
  <2>1. ledger' = [ledger EXCEPT ![tasks[w].order]["payment"] = "FAILED"] /\ "payment" \in Events
    BY <1>5 DEF AttemptThrows, OrderOf, Events
  <2> QED
    BY <1>2, <1>3, <1>4, <2>1, LedgerMoves DEF AttemptThrows
<1>6. CASE tasks[w].kind # "payment"
  BY <1>2, <1>4, <1>6, InvFacts, OnlyTasks DEF AttemptThrows, CommerceTypeOK
<1> QED
  BY <1>5, <1>6

-------------------------------------------------------------------------------
(* Entitlements and accounts *)

LEMMA KeysAre ==
  ASSUME NEW o \in Orders, NEW p \in Orders
  PROVE  /\ EvaluationOf(o) \in Keys /\ FundedOf(o) \in Keys
         /\ EvaluationOf(p) # FundedOf(o) /\ FundedOf(p) # EvaluationOf(o)
         /\ EvaluationOf(p) = EvaluationOf(o) => p = o
         /\ FundedOf(p) = FundedOf(o) => p = o
BY DEF EvaluationOf, FundedOf, Keys

LEMMA Created ==
  ASSUME CommerceInv, NEW k \in Keys, Create(k)
  PROVE  /\ made' \in [Keys -> Nat]
         /\ accounts' \in [Keys -> {"none", "ACTIVE", "AWAY", "CLOSED", "PASSED"}]
         /\ \A j \in Keys : made'[j] = IF j = k THEN made[k] + 1 ELSE made[j]
         /\ \A j \in Keys : accounts'[j] = IF j = k THEN "ACTIVE" ELSE accounts[j]
BY InvFacts DEF CommerceTypeOK, Create

LEMMA grantEntitlementKeeps ==
  ASSUME CommerceInv, NEW w \in Attempts, grantEntitlement(w)
  PROVE  CommerceInv'
<1> DEFINE o == tasks[w].order
<1>1. tasks[w].pc # "idle" /\ o \in Orders
  BY InvFacts DEF grantEntitlement, At
<1>2. /\ ents' \in [Orders -> {"none", "GRANTED", "CONSUMED", "REVOKED"}]
      /\ \A p \in Orders : ents'[p] = IF p = o /\ ents[o] = "none" THEN "GRANTED" ELSE ents[p]
  BY <1>1, InvFacts DEF CommerceTypeOK, grantEntitlement, OrderOf
<1>3. EntsGrow /\ Places("provision", o)
  BY <1>1, <1>2 DEF EntsGrow, Places, PCs
<1>4. StandsAfter
  BY <1>1, <1>3, GoesOn DEF grantEntitlement
<1>5. CommerceTypeOK'
  BY <1>2, <1>4, InvFacts DEF CommerceTypeOK, StandsAfter, grantEntitlement
<1>6. EntitlementsAddUp'
  BY <1>2, InvFacts DEF EntitlementsAddUp, grantEntitlement
<1> QED
  BY <1>4, <1>5, <1>6, Together

LEMMA KeysAreFinite == IsFiniteSet(Keys)
<1>1. IsFiniteSet({"EVALUATION"}) /\ IsFiniteSet({"FUNDED_SIM"})
  BY FS_Singleton
<1>2. IsFiniteSet({"EVALUATION", "FUNDED_SIM"})
  <2>1. {"EVALUATION", "FUNDED_SIM"} = {"EVALUATION"} \cup {"FUNDED_SIM"}
    OBVIOUS
  <2> QED
    BY <1>1, <2>1, FS_AddElement
<1> QED
  BY <1>2, FS_Product, CommerceAssumption DEF CommerceAssumption, Keys

LEMMA ActiveIsNat ==
  /\ IsFiniteSet({k \in Keys : accounts[k] = "ACTIVE"}) /\ Active \in Nat
  /\ MaxActive \in Nat
BY KeysAreFinite, FS_Subset, FS_CardinalityType, CommerceAssumption DEF CommerceAssumption, Active

\* Provisioning's key finds nothing that the entitlement does not show.
LEMMA NoneYet ==
  ASSUME CommerceInv, NEW o \in Orders, ents[o] # "CONSUMED"
  PROVE  made[EvaluationOf(o)] = 0
BY InvFacts DEF EntitlementsAddUp

\* The account is created, and the entitlement used, together.
LEMMA ConsumeKeeps ==
  ASSUME CommerceInv, NEW w \in Attempts, NEW o \in Orders, o = tasks[w].order, tasks[w].pc = "provision",
         ents[o] \notin {"CONSUMED", "REVOKED"}, ~(Active >= MaxActive), Consume(w, o),
         UNCHANGED <<orders, held, quals, ledger, gate, due, skipped, upsets>>
  PROVE  CommerceInv'
<1>1. ents[o] = "GRANTED"
  BY InvFacts DEF CommerceTypeOK, Stands
<1>2. /\ ents' \in [Orders -> {"none", "GRANTED", "CONSUMED", "REVOKED"}]
      /\ \A p \in Orders : ents'[p] = IF p = o THEN "CONSUMED" ELSE ents[p]
  BY <1>1, NoneYet, InvFacts DEF CommerceTypeOK, Consume
<1>3. EntsGrow /\ Places("mark", o)
  BY <1>2 DEF EntsGrow, Places, PCs
<1>4. StandsAfter
  BY <1>1, <1>3, NoneYet, GoesOn, Ends DEF Consume
<1>5. Create(EvaluationOf(o)) /\ EvaluationOf(o) \in Keys
  BY <1>1, NoneYet, KeysAre DEF Consume
<1>6. CommerceTypeOK'
  BY <1>2, <1>4, <1>5, Created, InvFacts DEF CommerceTypeOK, StandsAfter
<1>7. \A p \in Orders : /\ made'[EvaluationOf(p)] = IF p = o THEN made[EvaluationOf(p)] + 1 ELSE made[EvaluationOf(p)]
                        /\ made'[FundedOf(p)] = made[FundedOf(p)]
  <2>1. \A j \in Keys : made'[j] = IF j = EvaluationOf(o) THEN made[EvaluationOf(o)] + 1 ELSE made[j]
    BY <1>5, Created
  <2> TAKE p \in Orders
  <2>2. /\ EvaluationOf(p) \in Keys /\ FundedOf(p) \in Keys
        /\ EvaluationOf(p) # FundedOf(o) /\ FundedOf(p) # EvaluationOf(o)
        /\ EvaluationOf(p) = EvaluationOf(o) => p = o
        /\ FundedOf(p) = FundedOf(o) => p = o
    BY KeysAre
  <2> QED
    BY <2>1, <2>2
<1>8. EntitlementsAddUp'
  BY <1>1, <1>2, <1>7, InvFacts DEF EntitlementsAddUp
<1> QED
  BY <1>4, <1>6, <1>8, Together

LEMMA NothingUsed ==
  ASSUME CommerceInv, StandsAfter, upsets' \in Nat,
         UNCHANGED <<orders, ents, made, accounts, held, quals, ledger, gate, due, skipped>>
  PROVE  CommerceInv'
BY InvFacts, OnlyTasks DEF CommerceTypeOK

LEMMA RefusedStands ==
  ASSUME CommerceInv, EntsGrow, NEW w \in Attempts, tasks[w].pc # "idle",
         Refused(w, "block") \/ Refused(w, "fail")
  PROVE  StandsAfter
<1>1. Places("block", tasks[w].order) /\ Places("fail", tasks[w].order)
  BY DEF Places, PCs
<1> QED
  BY <1>1, GoesOn, Ends DEF Refused

LEMMA provisionFromEntitlementKeeps ==
  ASSUME CommerceInv, NEW w \in Attempts, provisionFromEntitlement(w)
  PROVE  CommerceInv'
<1> DEFINE o == tasks[w].order
<1>1. tasks[w].pc = "provision" /\ o \in Orders
  BY InvFacts DEF provisionFromEntitlement, At
<1>2. UNCHANGED <<orders, held, quals, ledger, gate, due, skipped, upsets>>
  BY DEF provisionFromEntitlement
<1>3. CASE UNCHANGED <<ents, made, accounts>> /\ (Refused(w, "fail") \/ Refused(w, "block"))
  <2>1. EntsGrow
    BY <1>3 DEF EntsGrow
  <2>2. StandsAfter
    BY <1>1, <1>3, <2>1, RefusedStands
  <2> QED
    BY <1>2, <1>3, <2>2, InvFacts, NothingUsed DEF CommerceTypeOK
<1>4. CASE /\ UNCHANGED <<ents, made, accounts>> /\ ents[o] = "CONSUMED"
           /\ End(w) \/ Goto(w, "mark")
  <2>1. EntsGrow /\ Places("mark", o)
    BY <1>4 DEF EntsGrow, Places, PCs
  <2>2. StandsAfter
    BY <1>1, <1>4, <2>1, GoesOn, Ends
  <2> QED
    BY <1>2, <1>4, <2>2, InvFacts, NothingUsed DEF CommerceTypeOK
<1>5. CASE ents[o] \notin {"CONSUMED", "REVOKED"} /\ ~(Active >= MaxActive) /\ Consume(w, o)
  BY <1>1, <1>2, <1>5, ConsumeKeeps
<1>6. \/ UNCHANGED <<ents, made, accounts>> /\ (Refused(w, "fail") \/ Refused(w, "block"))
      \/ UNCHANGED <<ents, made, accounts>> /\ ents[o] = "CONSUMED" /\ (End(w) \/ Goto(w, "mark"))
      \/ ents[o] \notin {"CONSUMED", "REVOKED"} /\ ~(Active >= MaxActive) /\ Consume(w, o)
  BY <1>1, NoneYet DEF provisionFromEntitlement, Consume, OrderOf
<1> QED
  BY <1>3, <1>4, <1>5, <1>6

LEMMA AttemptFailsKeeps ==
  ASSUME CommerceInv, NEW w \in Attempts, AttemptFails(w)
  PROVE  CommerceInv'
<1>1. EntsGrow /\ tasks[w].pc # "idle"
  BY DEF EntsGrow, AttemptFails
<1>2. StandsAfter
  BY <1>1, RefusedStands DEF AttemptFails
<1>3. upsets' \in Nat
  BY InvFacts DEF AttemptFails, Upset, CommerceTypeOK
<1> QED
  BY <1>2, <1>3, NothingUsed DEF AttemptFails

LEMMA handleRefundKeeps ==
  ASSUME CommerceInv, NEW w \in Attempts, handleRefund(w)
  PROVE  CommerceInv'
<1> DEFINE o == tasks[w].order
<1>1. tasks[w].pc # "idle" /\ o \in Orders
  BY InvFacts DEF handleRefund, At
<1>2. /\ ents' \in [Orders -> {"none", "GRANTED", "CONSUMED", "REVOKED"}]
      /\ \A p \in Orders : ents'[p] = IF p = o /\ ents[o] = "GRANTED" THEN "REVOKED" ELSE ents[p]
  BY <1>1, InvFacts DEF CommerceTypeOK, handleRefund, OrderOf
<1>3. /\ orders' \in [Orders -> Statuses]
      /\ \A p \in Orders : orders'[p] = IF p = o THEN "REFUNDED" ELSE orders[p]
  BY <1>1, InvFacts DEF CommerceTypeOK, handleRefund, SetOrder, OrderOf, Statuses
<1>4. EntsGrow /\ Places("find", o)
  BY <1>2 DEF EntsGrow, Places, PCs
<1>5. StandsAfter
  BY <1>1, <1>4, GoesOn DEF handleRefund
<1>6. CommerceTypeOK'
  BY <1>2, <1>3, <1>5, InvFacts DEF CommerceTypeOK, StandsAfter, handleRefund
<1>7. EntitlementsAddUp'
  BY <1>2, <1>3, InvFacts DEF EntitlementsAddUp, handleRefund
<1> QED
  BY <1>5, <1>6, <1>7, Together

-------------------------------------------------------------------------------
(* The life of accounts *)

LEMMA LifeMoves ==
  ASSUME CommerceInv, StandsAfter, UNCHANGED <<orders, ents, made, ledger, gate, due, skipped>>,
         accounts' \in [Keys -> {"none", "ACTIVE", "AWAY", "CLOSED", "PASSED"}],
         held' \subseteq Orders, upsets' \in Nat,
         quals' \in [Orders -> {"none", "ELIGIBLE", "FUNDED", "DECLINED"}],
         \A o \in Orders : quals'[o] = "FUNDED" => quals[o] = "FUNDED"
  PROVE  CommerceInv'
<1>1. CommerceTypeOK'
  BY InvFacts DEF CommerceTypeOK, StandsAfter
<1>2. EntitlementsAddUp'
  BY InvFacts DEF EntitlementsAddUp
<1> QED
  BY <1>1, <1>2, Together

LEMMA TradesKeeps ==
  ASSUME CommerceInv, NEW k \in Keys, Trades(k)
  PROVE  CommerceInv'
<1>1. EntsGrow /\ UNCHANGED tasks
  BY DEF EntsGrow, Trades
<1>2. StandsAfter
  BY <1>1, Rests
<1>3. accounts' \in [Keys -> {"none", "ACTIVE", "AWAY", "CLOSED", "PASSED"}] /\ upsets' \in Nat
  BY InvFacts DEF Trades, Upset, CommerceTypeOK
<1> QED
  BY <1>2, <1>3, InvFacts, LifeMoves DEF Trades, CommerceTypeOK

LEMMA certifyEvaluationKeeps ==
  ASSUME CommerceInv, NEW o \in Orders, certifyEvaluation(o)
  PROVE  CommerceInv'
<1>1. EntsGrow /\ UNCHANGED tasks
  BY DEF EntsGrow, certifyEvaluation
<1>2. StandsAfter
  BY <1>1, Rests
<1>3. accounts' \in [Keys -> {"none", "ACTIVE", "AWAY", "CLOSED", "PASSED"}] /\ upsets' \in Nat
  <2>1. upsets' \in Nat
    BY InvFacts DEF certifyEvaluation, Upset, CommerceTypeOK
  <2>2. accounts' = [accounts EXCEPT ![EvaluationOf(o)] = "PASSED"]
    BY DEF certifyEvaluation
  <2> QED
    BY <2>1, <2>2, InvFacts DEF CommerceTypeOK
<1>4. /\ quals' \in [Orders -> {"none", "ELIGIBLE", "FUNDED", "DECLINED"}]
      /\ \A p \in Orders : quals'[p] = "FUNDED" => quals[p] = "FUNDED"
  BY InvFacts DEF certifyEvaluation, CommerceTypeOK
<1>5. held' \subseteq Orders
  BY InvFacts DEF certifyEvaluation, CommerceTypeOK
<1> QED
  BY <1>2, <1>3, <1>4, <1>5, LifeMoves DEF certifyEvaluation

LEMMA declineFundingKeeps ==
  ASSUME CommerceInv, NEW w \in Attempts, declineFunding(w)
  PROVE  CommerceInv'
<1>1. EntsGrow
  BY DEF EntsGrow, declineFunding
<1>2. StandsAfter
  BY <1>1, Ends DEF declineFunding
<1>3. /\ quals' \in [Orders -> {"none", "ELIGIBLE", "FUNDED", "DECLINED"}]
      /\ \A p \in Orders : quals'[p] = "FUNDED" => quals[p] = "FUNDED"
  BY InvFacts DEF declineFunding, CommerceTypeOK
<1> QED
  BY <1>2, <1>3, InvFacts, LifeMoves DEF declineFunding, CommerceTypeOK

LEMMA approveFundingKeeps ==
  ASSUME CommerceInv, NEW o \in Orders, approveFunding(o)
  PROVE  CommerceInv'
<1>1. EntsGrow /\ UNCHANGED tasks
  BY DEF EntsGrow, approveFunding
<1>2. StandsAfter
  BY <1>1, Rests
<1>3. /\ quals' \in [Orders -> {"none", "ELIGIBLE", "FUNDED", "DECLINED"}]
      /\ \A p \in Orders : quals'[p] = IF p = o THEN "FUNDED" ELSE quals[p]
  BY InvFacts DEF approveFunding, CommerceTypeOK
<1>4. Create(FundedOf(o)) /\ FundedOf(o) \in Keys /\ made[FundedOf(o)] = 0
  BY KeysAre DEF approveFunding
<1>5. CommerceTypeOK'
  BY <1>2, <1>3, <1>4, Created, InvFacts DEF CommerceTypeOK, StandsAfter, approveFunding
<1>6. \A p \in Orders : /\ made'[EvaluationOf(p)] = made[EvaluationOf(p)]
                        /\ made'[FundedOf(p)] = IF p = o THEN 1 ELSE made[FundedOf(p)]
  <2>1. \A j \in Keys : made'[j] = IF j = FundedOf(o) THEN made[FundedOf(o)] + 1 ELSE made[j]
    BY <1>4, Created
  <2> TAKE p \in Orders
  <2>2. /\ EvaluationOf(p) \in Keys /\ FundedOf(p) \in Keys
        /\ EvaluationOf(p) # FundedOf(o) /\ FundedOf(p) # EvaluationOf(o)
        /\ EvaluationOf(p) = EvaluationOf(o) => p = o
        /\ FundedOf(p) = FundedOf(o) => p = o
    BY KeysAre
  <2> QED
    BY <1>4, <2>1, <2>2
<1>7. EntitlementsAddUp'
  BY <1>3, <1>6, InvFacts DEF EntitlementsAddUp, approveFunding
<1> QED
  BY <1>2, <1>5, <1>7, Together

-------------------------------------------------------------------------------
(* The theorems *)

LEMMA InitCommerce == CommerceInit => CommerceInv
<1> SUFFICES ASSUME CommerceInit PROVE CommerceInv
  OBVIOUS
<1>1. Idle \in TaskTypes /\ Idle.pc = "idle"
  BY DEF Idle, TaskTypes
<1>2. CommerceTypeOK
  BY <1>1 DEF CommerceInit, CommerceTypeOK, Statuses
<1>3. EntitlementsAddUp
  BY KeysAre DEF CommerceInit, EntitlementsAddUp
<1>4. \A w \in Attempts : Stands(w)
  BY <1>1 DEF CommerceInit, Stands
<1> QED
  BY <1>2, <1>3, <1>4 DEF CommerceInv

LEMMA NextCommerce == CommerceInv /\ [CommerceNext]_commerceVars => CommerceInv'
<1> SUFFICES ASSUME CommerceInv, [CommerceNext]_commerceVars PROVE CommerceInv'
  OBVIOUS
<1>1. ASSUME NEW w \in Attempts, Attempt(w) \/ AttemptFails(w) \/ AttemptThrows(w) PROVE CommerceInv'
  BY <1>1, ReadsKeep, grantEntitlementKeeps, provisionFromEntitlementKeeps, MarksKeep, markOrderCompletedKeeps,
     markCommerceEventProcessedKeeps, handleRefundKeeps, holdAccountKeeps, declineFundingKeeps,
     AttemptFailsKeeps, AttemptThrowsKeeps DEF Attempt
<1>2. ASSUME NEW w \in Workers, Request(w) PROVE CommerceInv'
  BY <1>2, acquireEvaluationKeeps, RequestsKeep, recordCommerceEventKeeps DEF Request
<1>3. ASSUME NEW o \in Orders, createPendingOrder(o) \/ TakeDue(o) \/ certifyEvaluation(o) \/ approveFunding(o)
      PROVE  CommerceInv'
  BY <1>3, createPendingOrderKeeps, TakeDueKeeps, certifyEvaluationKeeps, approveFundingKeeps
<1>4. ASSUME NEW k \in Keys, Trades(k) PROVE CommerceInv'
  BY <1>4, TradesKeeps
<1>5. CASE registerProvisioningRecovery \/ GateCleared \/ GateReopened \/ Restart
  BY <1>5, WorldKeeps, RestartKeeps
<1>6. CASE UNCHANGED commerceVars
  <2>1. EntsGrow /\ UNCHANGED tasks
    BY <1>6 DEF EntsGrow, commerceVars
  <2>2. StandsAfter
    BY <2>1, Rests
  <2> QED
    BY <1>6, <2>2, InvFacts, NothingUsed DEF commerceVars, CommerceTypeOK
<1> QED
  BY <1>1, <1>2, <1>3, <1>4, <1>5, <1>6 DEF CommerceNext

(* The inductive invariant: where an attempt stands tells what exists for  *)
(* its order, whoever else attempts, refunds or restarts meanwhile.        *)
THEOREM CommerceInvariant == CommerceSpec => []CommerceInv
BY InitCommerce, NextCommerce, PTL DEF CommerceSpec

(* One payment, one account: an account exists exactly when the entitlement *)
(* is consumed, a PROVISIONED order has its account, and a qualification    *)
(* has one funded account, for any number of overlapping attempts, refunds, *)
(* failing statements and restarts.                                         *)
THEOREM OnePaymentOneAccount == CommerceSpec => []EntitlementsAddUp
<1>1. CommerceInv => EntitlementsAddUp
  BY DEF CommerceInv
<1> QED
  BY <1>1, CommerceInvariant, PTL

-------------------------------------------------------------------------------
(* What a step may never do *)

Kept(o) ==
  /\ orders[o] = "PROVISIONED" => orders'[o] \in {"PROVISIONED", "REFUNDED"}
  /\ orders[o] = "REFUNDED" => orders'[o] = "REFUNDED"
  /\ ents[o] \in {"REVOKED", "CONSUMED"} => ents'[o] = ents[o] /\ made'[EvaluationOf(o)] = made[EvaluationOf(o)]

Room(o) == made'[EvaluationOf(o)] > made[EvaluationOf(o)] => Active' <= MaxActive

\* A step that creates no evaluation leaves room, and one that leaves the
\* entitlements alone keeps them.
LEMMA SameEvaluation ==
  ASSUME CommerceInv, NEW o \in Orders, made'[EvaluationOf(o)] = made[EvaluationOf(o)]
  PROVE  Room(o)
<1>1. EvaluationOf(o) \in Keys /\ made[EvaluationOf(o)] \in Nat
  BY KeysAre, InvFacts DEF CommerceTypeOK
<1> QED
  BY <1>1 DEF Room

LEMMA Untouched ==
  ASSUME CommerceInv, UNCHANGED <<orders, ents, made>>, NEW o \in Orders
  PROVE  Kept(o) /\ Room(o)
BY SameEvaluation DEF Kept

LEMMA OneMore ==
  ASSUME CommerceInv, NEW k \in Keys, ~(Active >= MaxActive), Create(k)
  PROVE  Active' <= MaxActive
<1> DEFINE S == {j \in Keys : accounts[j] = "ACTIVE"}
           T == {j \in Keys : accounts'[j] = "ACTIVE"}
<1>1. IsFiniteSet(S) /\ Cardinality(S) \in Nat /\ MaxActive \in Nat /\ Cardinality(S) < MaxActive
  BY ActiveIsNat DEF Active
<1>2. T \subseteq S \cup {k}
  BY Created
<1>3. IsFiniteSet(S \cup {k}) /\ Cardinality(S \cup {k}) <= Cardinality(S) + 1 /\ Cardinality(S \cup {k}) \in Nat
  <2> HIDE DEF S, T
  <2>1. /\ IsFiniteSet(S \cup {k})
        /\ Cardinality(S \cup {k}) = IF k \in S THEN Cardinality(S) ELSE Cardinality(S) + 1
    BY <1>1, FS_AddElement
  <2> QED
    BY <1>1, <2>1
<1>4. Cardinality(T) <= Cardinality(S \cup {k}) /\ Cardinality(T) \in Nat
  BY <1>2, <1>3, FS_Subset, FS_CardinalityType
<1>5. Cardinality(T) <= MaxActive
  <2> HIDE DEF S, T
  <2> QED
    BY <1>1, <1>3, <1>4
<1> QED
  BY <1>5 DEF Active

LEMMA ConsumeStep ==
  ASSUME CommerceInv, NEW w \in Attempts, provisionFromEntitlement(w), NEW o \in Orders
  PROVE  Kept(o) /\ Room(o)
<1> DEFINE p == tasks[w].order
<1>1. p \in Orders /\ UNCHANGED orders
  BY InvFacts DEF provisionFromEntitlement, At
<1>2. CASE UNCHANGED <<ents, made, accounts>>
  BY <1>1, <1>2, Untouched
<1>3. CASE ents[p] \notin {"CONSUMED", "REVOKED"} /\ ~(Active >= MaxActive) /\ Consume(w, p)
  <2>1. Create(EvaluationOf(p)) /\ EvaluationOf(p) \in Keys
    BY <1>1, <1>3, NoneYet, KeysAre DEF Consume
  <2>2. Active' <= MaxActive
    BY <1>3, <2>1, OneMore
  <2>3. o # p => ents'[o] = ents[o] /\ made'[EvaluationOf(o)] = made[EvaluationOf(o)]
    <3>1. ents' = [ents EXCEPT ![p] = IF @ = "GRANTED" THEN "CONSUMED" ELSE @]
      BY <1>1, <1>3, NoneYet DEF Consume
    <3>2. o # p => EvaluationOf(o) # EvaluationOf(p) /\ EvaluationOf(o) \in Keys
      BY <1>1, KeysAre
    <3> QED
      BY <1>1, <2>1, <3>1, <3>2, Created, InvFacts DEF CommerceTypeOK
  <2> QED
    BY <1>1, <1>3, <2>2, <2>3 DEF Kept, Room
<1>4. \/ UNCHANGED <<ents, made, accounts>>
      \/ ents[p] \notin {"CONSUMED", "REVOKED"} /\ ~(Active >= MaxActive) /\ Consume(w, p)
  BY <1>1, NoneYet DEF provisionFromEntitlement, Consume, OrderOf
<1> QED
  BY <1>2, <1>3, <1>4

\* The steps that write the order or its entitlement.
LEMMA OrderStep ==
  ASSUME CommerceInv, NEW p \in Orders, NEW s, SetOrder(p, s), UNCHANGED made,
         orders[p] = "PROVISIONED" => s \in {"PROVISIONED", "REFUNDED"},
         orders[p] = "REFUNDED" => s = "REFUNDED",
         \A q \in Orders : ents[q] \in {"REVOKED", "CONSUMED"} => ents'[q] = ents[q],
         NEW o \in Orders
  PROVE  Kept(o) /\ Room(o)
<1>1. orders'[o] = IF o = p THEN s ELSE orders[o]
  BY InvFacts DEF CommerceTypeOK, SetOrder
<1> QED
  BY <1>1, SameEvaluation DEF Kept

LEMMA AttemptStep ==
  ASSUME CommerceInv, NEW w \in Attempts, Attempt(w), NEW o \in Orders
  PROVE  Kept(o) /\ Room(o)
<1> DEFINE p == tasks[w].order
<1>1. CASE ReadOrder(w) \/ evaluateProvisioningGate(w) \/ countActiveAccounts(w) \/ orderAccountId(w)
  BY <1>1, Untouched DEF ReadOrder, evaluateProvisioningGate, countActiveAccounts, orderAccountId
<1>2. CASE markCommerceEventProcessed(w) \/ holdAccount(w) \/ declineFunding(w)
  BY <1>2, Untouched DEF markCommerceEventProcessed, holdAccount, declineFunding
<1>3. CASE provisionFromEntitlement(w)
  BY <1>3, ConsumeStep
<1>4. CASE grantEntitlement(w)
  <2>1. p \in Orders /\ UNCHANGED <<orders, made>>
    BY <1>4, InvFacts DEF grantEntitlement, At
  <2>2. ents[o] \in {"REVOKED", "CONSUMED"} => ents'[o] = ents[o]
    BY <1>4, <2>1, InvFacts DEF grantEntitlement, OrderOf, CommerceTypeOK
  <2> QED
    BY <2>1, <2>2, SameEvaluation DEF Kept
<1>5. CASE handleRefund(w)
  <2>1. p \in Orders /\ SetOrder(p, "REFUNDED") /\ UNCHANGED made
    BY <1>5, InvFacts DEF handleRefund, At, OrderOf
  <2>2. \A q \in Orders : ents[q] \in {"REVOKED", "CONSUMED"} => ents'[q] = ents[q]
    BY <1>5, <2>1, InvFacts DEF handleRefund, OrderOf, CommerceTypeOK
  <2> QED
    BY <2>1, <2>2, OrderStep
<1>6. CASE markOrderCompleted(w) \/ MarkProvisioned(w) \/ setProvisionState(w)
  <2>1. p \in Orders /\ UNCHANGED <<ents, made>>
    BY <1>6, InvFacts DEF markOrderCompleted, MarkProvisioned, setProvisionState, At
  <2>2. \E s \in {IF orders[p] = "PENDING" THEN "COMPLETED" ELSE orders[p],
                   IF orders[p] \in Unprovisioned THEN "PROVISIONED" ELSE orders[p],
                   IF orders[p] \in Unprovisioned THEN Parked(w) ELSE orders[p]} : SetOrder(p, s)
    BY <1>6 DEF markOrderCompleted, MarkProvisioned, setProvisionState, SetOrder, OrderOf
  <2>3. PICK s : /\ SetOrder(p, s)
                 /\ orders[p] \in {"PROVISIONED", "REFUNDED"} => s = orders[p]
    BY <2>2 DEF Unprovisioned
  <2> HIDE DEF p
  <2> QED
    BY <2>1, <2>3, OrderStep
<1> QED
  BY <1>1, <1>2, <1>3, <1>4, <1>5, <1>6 DEF Attempt

LEMMA FundStep ==
  ASSUME CommerceInv, NEW p \in Orders, approveFunding(p), NEW o \in Orders
  PROVE  Kept(o) /\ Room(o)
<1>1. Create(FundedOf(p)) /\ FundedOf(p) \in Keys /\ UNCHANGED <<orders, ents>>
  BY KeysAre DEF approveFunding
<1>2. EvaluationOf(o) \in Keys /\ EvaluationOf(o) # FundedOf(p)
  BY KeysAre
<1>3. made'[EvaluationOf(o)] = made[EvaluationOf(o)]
  BY <1>1, <1>2, Created
<1> QED
  BY <1>1, <1>3, SameEvaluation DEF Kept

\* An order that is new has no outcome yet.
LEMMA BirthStep ==
  ASSUME CommerceInv, NEW p \in Orders, NEW s, SetOrder(p, s), orders[p] = "none",
         UNCHANGED <<ents, made>>, NEW o \in Orders
  PROVE  Kept(o) /\ Room(o)
BY OrderStep

LEMMA StepKeeps ==
  ASSUME CommerceInv, [CommerceNext]_commerceVars, NEW o \in Orders
  PROVE  Kept(o) /\ Room(o)
<1>1. ASSUME NEW w \in Attempts, Attempt(w) \/ AttemptFails(w) \/ AttemptThrows(w) PROVE Kept(o) /\ Room(o)
  BY <1>1, AttemptStep, Untouched DEF AttemptFails, AttemptThrows
<1>2. ASSUME NEW w \in Workers, Request(w) PROVE Kept(o) /\ Room(o)
  <2>1. ASSUME NEW p \in Orders, acquireEvaluation(w, p) PROVE Kept(o) /\ Room(o)
    BY <2>1, BirthStep DEF acquireEvaluation
  <2>2. CASE UNCHANGED <<orders, ents, made>>
    BY <2>2, Untouched
  <2> QED
    BY <1>2, <2>1, <2>2 DEF Request, retryProvisioning, executeRemediation, handleDispute, ReadFunding, recordCommerceEvent
<1>3. ASSUME NEW p \in Orders, createPendingOrder(p) PROVE Kept(o) /\ Room(o)
  BY <1>3, BirthStep DEF createPendingOrder
<1>4. ASSUME NEW p \in Orders, TakeDue(p) \/ certifyEvaluation(p) PROVE Kept(o) /\ Room(o)
  BY <1>4, Untouched DEF TakeDue, certifyEvaluation
<1>5. ASSUME NEW p \in Orders, approveFunding(p) PROVE Kept(o) /\ Room(o)
  BY <1>5, FundStep
<1>6. CASE \/ \E k \in Keys : Trades(k)
           \/ registerProvisioningRecovery \/ GateCleared \/ GateReopened \/ Restart
  BY <1>6, Untouched DEF Trades, registerProvisioningRecovery, GateCleared, GateReopened, Restart
<1>7. CASE UNCHANGED commerceVars
  BY <1>7, Untouched DEF commerceVars
<1> QED
  BY <1>1, <1>2, <1>3, <1>4, <1>5, <1>6, <1>7 DEF CommerceNext

(* No attempt, however late, parks a provisioned order, reopens a refunded *)
(* one, or makes an account of an entitlement that is used or revoked.     *)
THEOREM LateAttemptsChangeNothing == CommerceSpec => OutcomesStand
<1>1. CommerceInv /\ [CommerceNext]_commerceVars => [\A o \in Orders : Kept(o)]_commerceVars
  BY StepKeeps
<1>2. CommerceSpec => [][\A o \in Orders : Kept(o)]_commerceVars
  BY <1>1, CommerceInvariant, PTL DEF CommerceSpec
<1> QED
  BY <1>2 DEF OutcomesStand, Kept

(* Attempts that all counted a free slot do not take more than there are:  *)
(* the account that is created is within the limit at that moment.         *)
THEOREM PurchasesRespectTheLimit == CommerceSpec => LimitAtPurchase
<1>1. CommerceInv /\ [CommerceNext]_commerceVars => [\A o \in Orders : Room(o)]_commerceVars
  BY StepKeeps
<1>2. CommerceSpec => [][\A o \in Orders : Room(o)]_commerceVars
  BY <1>1, CommerceInvariant, PTL DEF CommerceSpec
<1> QED
  BY <1>2 DEF LimitAtPurchase, Room
===============================================================================
