---------------------------- MODULE PayoutOperations ----------------------------
(***************************************************************************)
(* The rail between an approved payout and the provider that sends the     *)
(* money (platform/payout-operations.ts, its worker and its routes), over  *)
(* the ledger of Payouts: the fast lane, the submission under a stable     *)
(* idempotency key, webhooks, reconciliation and the break-glass           *)
(* resolution.                                                             *)
(*                                                                         *)
(* Apart from the submission none of these is one transaction: each is a   *)
(* task whose statements are steps, a step of any other task may come      *)
(* between two of them, and a task may stop between two of them for good   *)
(* (its process died).  The submission is one transaction that calls the   *)
(* provider: it is two steps, under the operation's row lock and the       *)
(* account's advisory lock, and a crash between them undoes the first one  *)
(* everywhere but at the provider.                                         *)
(***************************************************************************)
EXTENDS Payouts

CONSTANTS
  Callers,                  \* calls of others that may be under way at a time
  Worker,                   \* whoever submits: the worker, a request, an operator
  MAX_SUBMISSION_ATTEMPTS,
  None

Kind == {"fastLane", "submit", "ingest", "reconcile", "manual"}
\* The statement that a task has come to.
Statement == {"claim", "mark", "check", "approve", "route", "payable", "commit", "find", "apply",
              "patch", "ask", "last", "paid", "step", "settle", "book"}

ASSUME RailAssumption ==
  /\ MAX_SUBMISSION_ATTEMPTS \in Nat \ {0} /\ Worker \notin Callers
  /\ None \notin Requests \cup Kind \cup Statement

VARIABLES
  op,        \* payout_operations: opState, providerPayoutId, submission attempts
  provider,  \* the provider's payouts, by idempotency key
  webhooks,  \* every event the provider has sent; it sends them again and late
  seen,      \* payout_provider_events: the events taken in
  tasks

Tasks == Callers \cup {Worker}
rail == <<op, provider, webhooks, seen>>
vars == <<payoutVars, op, provider, webhooks, seen, tasks>>

OpState == {"RECEIVED", "AUTOMATED_CHECKS", "EXCEPTION", "PAYABLE", "SUBMITTED", "PROCESSING",
            "PAID", "RECONCILED", "FAILED", "RETURNED", "CANCELED"}
Early == {"RECEIVED", "AUTOMATED_CHECKS", "EXCEPTION"}
Terminal == {"PAID", "RECONCILED"}
ProviderState == {"ACCEPTED", "PROCESSING", "PAID", "FAILED", "RETURNED", "CANCELED"}
Outcome == {"ACCEPTED", "PROCESSING", "PAID", "DUPLICATE", "LOST_ACK", "RETRY", "FAILED"}

NoTask == [kind |-> None, at |-> None, r |-> None, was |-> None, got |-> None]
NoOp == [state |-> "NONE", ref |-> None, attempts |-> 0]

Keys == Requests \X (1..(MAX_PAYOUT_CYCLES + MAX_SUBMISSION_ATTEMPTS))
KeyOfAttempt(r) == <<r, requests[r].ordinal + op[r].attempts>> \* mutant: a key per attempt
\* The provider and the request's ordinal never change: neither does the key.
idempotencyKeyFor(r) == <<r, requests[r].ordinal>>

\* Two submissions for one account exclude each other by its lock.
Submitting(r) == tasks[Worker].r = r
AdvisoryFree == LockFree /\ tasks[Worker] = NoTask

Start(t, kind, r, at, was, got) ==
  /\ tasks[t] = NoTask
  /\ tasks' = [tasks EXCEPT ![t] = [kind |-> kind, at |-> at, r |-> r, was |-> was, got |-> got]]
Goto(t, at) == tasks' = [tasks EXCEPT ![t].at = at]
Done(t) == tasks' = [tasks EXCEPT ![t] = NoTask]
At(t, kind, step) == tasks[t].kind = kind /\ tasks[t].at = step

\* An update of the operation's row waits for a submission that holds it.
patchOp(r, state) == ~Submitting(r) /\ op' = [op EXCEPT ![r].state = state]

\* markProcessing(...).catch(() => undefined)
TryProcessing(r) ==
  IF requests[r].state = "APPROVED" THEN simpleTransition(r, "PROCESSING") ELSE UNCHANGED payoutVars

-------------------------------------------------------------------------------
(* runFastLane, after a request and after every repetition of it *)

FastLane(t, r) ==
  /\ requests[r].state # "NONE"
  /\ Start(t, "fastLane", r, "claim", requests[r].state, None)
  /\ UNCHANGED <<payoutVars, rail>>

\* ensureOperation, and the early return once the checks are past.
FastLaneClaim(t) ==
  LET r == tasks[t].r IN
  /\ At(t, "fastLane", "claim")
  /\ op' = [op EXCEPT ![r].state = IF @ = "NONE" THEN "RECEIVED" ELSE @]
  /\ IF op'[r].state \in Early THEN Goto(t, "mark") ELSE Done(t)
  /\ UNCHANGED <<payoutVars, provider, webhooks, seen>>

FastLaneMark(t) ==
  /\ At(t, "fastLane", "mark")
  /\ patchOp(tasks[t].r, "AUTOMATED_CHECKS") /\ Goto(t, "check")
  /\ UNCHANGED <<payoutVars, provider, webhooks, seen>>

\* runOperationalChecks judges the request as it was read first; identity,
\* holds, destination and treasury may each send it to review.
FastLaneCheck(t) ==
  /\ At(t, "fastLane", "check")
  /\ Goto(t, "route") \/ (tasks[t].was = "REQUESTED" /\ Goto(t, "approve"))
  /\ UNCHANGED <<payoutVars, rail>>

FastLaneApprove(t) ==
  LET r == tasks[t].r IN
  /\ At(t, "fastLane", "approve")
  /\ IF requests[r].state \in Standing THEN UNCHANGED payoutVars /\ Goto(t, "payable")
     ELSE /\ AdvisoryFree
          /\ IF Approvable(r) THEN approvePayout(r) /\ Goto(t, "payable")
             ELSE UNCHANGED payoutVars /\ Goto(t, "route")
  /\ UNCHANGED rail

\* The exception lane, or the worker's queue.
FastLaneEnds(t) ==
  /\ \/ At(t, "fastLane", "route") /\ patchOp(tasks[t].r, "EXCEPTION")
     \/ At(t, "fastLane", "payable") /\ patchOp(tasks[t].r, "PAYABLE")
  /\ Done(t)
  /\ UNCHANGED <<payoutVars, provider, webhooks, seen>>

-------------------------------------------------------------------------------
(* submitPayable, from the request, the worker or an operator *)

\* What the provider may answer to a key, and what it then knows of it.
Answers(key) ==
  IF provider[key] # "NONE" THEN {<<"DUPLICATE", provider[key]>>}
  ELSE {<<s, s>> : s \in {"ACCEPTED", "PROCESSING", "PAID"}} \cup
       {<<"LOST_ACK", s>> : s \in {"ACCEPTED", "PAID", "NONE"}} \cup
       {<<"RETRY", "NONE">>, <<"FAILED", "NONE">>}

\* While the kill switch or treasuryGate refuses, the operation stays PAYABLE.
SubmitCall(r) ==
  /\ op[r].state = "PAYABLE" /\ AdvisoryFree
  /\ \E answer \in Answers(idempotencyKeyFor(r)) :
       /\ Start(Worker, "submit", r, "commit", None, answer[1])
       /\ provider' = [provider EXCEPT ![idempotencyKeyFor(r)] = answer[2]]
  /\ UNCHANGED <<payoutVars, op, webhooks, seen>>

\* The answer that handleSubmitResult acts on: after a lost acknowledgement
\* it asks the provider by the same key.
Effective(r, outcome) ==
  IF outcome # "LOST_ACK" THEN outcome
  ELSE IF provider[idempotencyKeyFor(r)] = "NONE" THEN "FAILED"
  ELSE IF provider[idempotencyKeyFor(r)] \in {"PAID", "PROCESSING"}
       THEN provider[idempotencyKeyFor(r)] ELSE "ACCEPTED"

\* applyProviderPaid within the transaction: it throws when the request
\* cannot be settled, and the transaction is undone.
SettledAtOnce(r) ==
  \/ requests[r].state \in {"APPROVED", "PROCESSING"} /\ Settled(r)
  \/ requests[r].state = "PAID" /\ UNCHANGED payoutVars

SubmitCommit ==
  LET r == tasks[Worker].r
      outcome == Effective(r, tasks[Worker].got)
      attempt == Min({op[r].attempts + 1, MAX_SUBMISSION_ATTEMPTS})  \* as far as it is compared
      Op(state, ref) == op' = [op EXCEPT ![r] = [state |-> state, ref |-> ref, attempts |-> attempt]]
  IN
  /\ At(Worker, "submit", "commit") /\ Done(Worker)
  /\ \/ outcome \in {"ACCEPTED", "DUPLICATE"} /\ Op("SUBMITTED", "own") /\ TryProcessing(r)
     \/ outcome = "PROCESSING" /\ Op("PROCESSING", "own") /\ TryProcessing(r)
     \/ outcome = "PAID" /\ Op("PAID", "own") /\ SettledAtOnce(r)
     \/ outcome = "RETRY" /\ attempt < MAX_SUBMISSION_ATTEMPTS
          /\ Op("PAYABLE", op[r].ref) /\ UNCHANGED payoutVars
     \/ outcome = "FAILED" /\ Op("EXCEPTION", op[r].ref) /\ UNCHANGED payoutVars
     \/ outcome = "RETRY" /\ attempt >= MAX_SUBMISSION_ATTEMPTS
          /\ Op("EXCEPTION", op[r].ref) /\ UNCHANGED payoutVars
  /\ UNCHANGED <<provider, webhooks, seen>>

-------------------------------------------------------------------------------
(* applyProviderPaid: part of ingestion, reconciliation and resolution *)

Continues(t) == IF tasks[t].kind = "reconcile" THEN Goto(t, "last") ELSE Done(t)

PaidBooksFirst(t) == \* mutant: books before it settles
  /\ tasks[t].at = "paid"
  /\ IF op[tasks[t].r].state \in Terminal THEN Continues(t) ELSE Goto(t, "book")
  /\ UNCHANGED <<payoutVars, rail>>

PaidRead(t) ==
  /\ tasks[t].at = "paid"
  /\ IF op[tasks[t].r].state \in Terminal THEN Continues(t) ELSE Goto(t, "step")
  /\ UNCHANGED <<payoutVars, rail>>

PaidStep(t) ==
  /\ tasks[t].at = "step"
  /\ TryProcessing(tasks[t].r) /\ Goto(t, "settle")
  /\ UNCHANGED rail

PaidSettle(t) ==
  LET r == tasks[t].r IN
  /\ tasks[t].at = "settle"
  /\ \/ markPaid(r) /\ Goto(t, "book")
     \/ requests[r].state = "PAID" /\ UNCHANGED payoutVars /\ Goto(t, "book")
     \/ requests[r].state \notin {"PROCESSING", "PAID"} /\ UNCHANGED payoutVars /\ Done(t)
  /\ UNCHANGED rail

PaidBook(t) ==
  LET r == tasks[t].r IN
  /\ tasks[t].at = "book" /\ ~Submitting(r)
  /\ op' = [op EXCEPT ![r].state = "PAID",
                      ![r].ref = IF tasks[t].kind = "manual" THEN "manual" ELSE "own"]
  /\ Continues(t)
  /\ UNCHANGED <<payoutVars, provider, webhooks, seen>>

-------------------------------------------------------------------------------
(* ingestProviderEvent *)

\* The event's row is committed first: a second delivery stops there.
Ingest(t, event) ==
  /\ event \in webhooks \ seen
  /\ seen' = seen \cup {event}
  /\ Start(t, "ingest", event[1][1], "find", None, event[2])
  /\ UNCHANGED <<payoutVars, op, provider, webhooks>>

\* An event whose payout is not known yet, or that comes too late, is dropped.
IngestFind(t) ==
  LET r == tasks[t].r
      type == tasks[t].got
      dropped == op[r].ref # "own" \/ (op[r].state \in Terminal /\ type \notin {"PAID", "RETURNED"})
  IN
  /\ At(t, "ingest", "find")
  /\ IF dropped THEN Done(t) ELSE Goto(t, IF type = "PAID" THEN "paid" ELSE "apply")
  /\ UNCHANGED <<payoutVars, rail>>

\* What the event does to the request before it does it to the operation.
IngestApply(t) ==
  LET r == tasks[t].r IN
  /\ At(t, "ingest", "apply")
  /\ CASE tasks[t].got = "PROCESSING" -> TryProcessing(r)
       [] tasks[t].got = "FAILED" /\ requests[r].state \in {"APPROVED", "PROCESSING"} -> failPayout(r)
       [] OTHER -> UNCHANGED payoutVars
  /\ IF tasks[t].got = "RETURNED" THEN patchOp(r, "EXCEPTION") ELSE UNCHANGED op
  /\ Goto(t, "patch")
  /\ UNCHANGED <<provider, webhooks, seen>>

IngestPatch(t) ==
  /\ At(t, "ingest", "patch")
  /\ patchOp(tasks[t].r, tasks[t].got) /\ Done(t)
  /\ UNCHANGED <<payoutVars, provider, webhooks, seen>>

-------------------------------------------------------------------------------
(* reconcilePayout and the break-glass resolution, by operators *)

Reconcile(t, r) ==
  /\ op[r].state # "NONE"
  /\ Start(t, "reconcile", r, "ask", op[r].state, op[r].ref)
  /\ UNCHANGED <<payoutVars, rail>>

\* The provider is asked by the reference it gave, if it is its own.
ReconcileAsk(t) ==
  LET r == tasks[t].r
      was == tasks[t].was
      status == IF tasks[t].got = "manual" THEN "NONE" ELSE provider[idempotencyKeyFor(r)]
      Next(at) == tasks' = [tasks EXCEPT ![t].at = at, ![t].got = status]
  IN
  /\ At(t, "reconcile", "ask")
  /\ \/ status = "PAID" /\ was \notin Terminal /\ Next("paid") /\ UNCHANGED op
     \/ status = "RETURNED" /\ was = "PAID" /\ patchOp(r, "EXCEPTION") /\ Next("last")
     \/ status = "PROCESSING" /\ was = "SUBMITTED" /\ patchOp(r, "PROCESSING") /\ Next("last")
     \/ /\ ~(status = "PAID" /\ was \notin Terminal) /\ ~(status = "RETURNED" /\ was = "PAID")
        /\ ~(status = "PROCESSING" /\ was = "SUBMITTED")
        /\ Next("last") /\ UNCHANGED op
  /\ UNCHANGED <<payoutVars, provider, webhooks, seen>>

ReconcileTheirState(t) ==
  /\ At(t, "reconcile", "last")
  /\ patchOp(tasks[t].r, tasks[t].got) /\ Done(t)
  /\ UNCHANGED <<payoutVars, provider, webhooks, seen>>

\* The last statement writes the state that the first one read.
ReconcileLast(t) ==
  /\ At(t, "reconcile", "last")
  /\ patchOp(tasks[t].r, IF tasks[t].was = "PAID" /\ tasks[t].got # "RETURNED"
                         THEN "RECONCILED" ELSE tasks[t].was)
  /\ Done(t)
  /\ UNCHANGED <<payoutVars, provider, webhooks, seen>>

\* MARK_PAID demands the reference of a transfer that took place.
ManualPaid(t, r) ==
  /\ op[r].state # "NONE" /\ provider[idempotencyKeyFor(r)] = "PAID"
  /\ Start(t, "manual", r, "paid", None, None)
  /\ UNCHANGED <<payoutVars, rail>>

-------------------------------------------------------------------------------
(* Surroundings *)

\* The provider goes on with what it has accepted and reports every move.
Moves(status) ==
  CASE status = "ACCEPTED" -> {"PROCESSING", "PAID", "FAILED", "CANCELED"}
    [] status = "PROCESSING" -> {"PAID", "FAILED"}
    [] status = "PAID" -> {"RETURNED"}
    [] OTHER -> {}

ProviderMoves(key) ==
  \E status \in Moves(provider[key]) :
    /\ provider' = [provider EXCEPT ![key] = status]
    /\ webhooks' = webhooks \cup {<<key, status>>}
    /\ UNCHANGED <<payoutVars, op, seen, tasks>>

\* The process of a task dies; the database undoes an open transaction.
Crash(t) ==
  /\ tasks[t] # NoTask /\ Done(t)
  /\ UNCHANGED <<payoutVars, rail>>

\* Traders ask and operators decide beside the rail; nobody settles by hand.
Desk ==
  /\ \/ AdvisoryFree /\ Asking
     \/ \E r \in Requests : (AdvisoryFree /\ approvePayout(r)) \/ simpleTransition(r, "REJECTED")
  /\ UNCHANGED <<rail, tasks>>

Init ==
  /\ PayoutInit
  /\ op = [r \in Requests |-> NoOp]
  /\ provider = [key \in Keys |-> "NONE"]
  /\ webhooks = {} /\ seen = {}
  /\ tasks = [t \in Tasks |-> NoTask]

Submits == \E r \in Requests : SubmitCall(r)
Proceeds(t) ==
  \/ FastLaneClaim(t) \/ FastLaneMark(t) \/ FastLaneCheck(t) \/ FastLaneApprove(t) \/ FastLaneEnds(t)
  \/ PaidRead(t) \/ PaidStep(t) \/ PaidSettle(t) \/ PaidBook(t)
  \/ IngestFind(t) \/ IngestApply(t) \/ IngestPatch(t)
  \/ ReconcileAsk(t) \/ ReconcileLast(t)

Next ==
  \/ Desk \/ Submits \/ SubmitCommit \/ Crash(Worker)
  \/ \E key \in Keys : ProviderMoves(key)
  \/ \E t \in Callers :
       \/ Proceeds(t) \/ Crash(t)
       \/ \E event \in webhooks : Ingest(t, event)
       \/ \E r \in Requests : FastLane(t, r) \/ Reconcile(t, r) \/ ManualPaid(t, r)

Spec == Init /\ [][Next]_vars

\* The worker polls on and on, statements that have begun are carried out
\* unless their process dies, it does not die in every call, the gate
\* is open again and again, and every event is delivered.  Nobody is bound to reconcile:
\* reconcileStaleBatch has no caller.
FairSpec ==
  /\ Spec
  /\ SF_vars(Submits) /\ SF_vars(SubmitCommit)
  /\ \A t \in Callers :
       WF_vars(Proceeds(t)) /\ SF_vars(\E event \in webhooks : Ingest(t, event))

-------------------------------------------------------------------------------

OpRow == [state : OpState \cup {"NONE"}, ref : {None, "own", "manual"},
          attempts : 0..MAX_SUBMISSION_ATTEMPTS]
TaskRow == [kind : Kind, at : Statement, r : Requests,
            was : PayoutState \cup OpState \cup {None},
            got : Outcome \cup ProviderState \cup {"NONE", "own", "manual", None}]

TypeOK ==
  /\ PayoutTypeOK
  /\ op \in [Requests -> OpRow]
  /\ provider \in [Keys -> ProviderState \cup {"NONE"}]
  /\ seen \subseteq webhooks /\ webhooks \subseteq Keys \X ProviderState
  /\ tasks \in [Tasks -> TaskRow \cup {NoTask}]

(* The promise of the payout desk: whatever is retried, lost, repeated or  *)
(* interrupted, the provider sends only what was debited, at most once,    *)
(* only what it sent is booked as settled, and only what it never sent is  *)
(* given back (submitPayable, applyProviderPaid, failPayout).              *)
Sent(r) == Cardinality({n \in 1..(MAX_PAYOUT_CYCLES + MAX_SUBMISSION_ATTEMPTS) :
                          provider[<<r, n>>] \in {"PAID", "RETURNED"}})
moneyOf ==
  [r \in Requests |->
     IF Sent(r) > 1 THEN "sent twice"
     ELSE CASE requests[r].state = "PAID" -> "settled"
            [] requests[r].state = "FAILED" -> IF Sent(r) = 1 THEN "sent and restored" ELSE "restored"
            [] OTHER -> IF Has(r, "DEBIT") THEN (IF Sent(r) = 1 THEN "sent" ELSE "owed")
                        ELSE (IF Sent(r) = 1 THEN "sent unpaid" ELSE "kept")]

Promise == INSTANCE PayoutPromise WITH money <- moneyOf
PromiseKept == Promise!Spec

(* An operation that is shown as paid or reconciled is paid in the ledger, *)
(* whichever of the concurrent writers came last.                          *)
ShownPaidIsPaid == \A r \in Requests : op[r].state \in Terminal => requests[r].state = "PAID"

(* Events that come late or twice never move a PAID payout backwards       *)
(* (ingestProviderEvent): only its return does.                            *)
PaidStaysPaid ==
  [][\A r \in Requests :
       op[r].state \in Terminal => op'[r].state \in Terminal \cup {"EXCEPTION", "RETURNED"}]_vars

(* What waits to be submitted is: the provider refuses it for good, or     *)
(* takes it, or the retries run out.                                       *)
SubmissionEnds == \A r \in Requests : op[r].state = "PAYABLE" ~> op[r].state # "PAYABLE"

(* What the provider has paid is settled here, webhooks being best effort  *)
(* (payout-ops-worker.ts:6).                                               *)
PaidIsSettled ==
  \A r \in Requests :
    (Has(r, "DEBIT") /\ provider[idempotencyKeyFor(r)] = "PAID") ~> requests[r].state = "PAID"

(* A restart picks up what was approved: nothing debited is left in the    *)
(* checks, where no retry will put it in the queue (payout-ops-worker.ts:9)*)
DebitedIsQueued ==
  \A r \in Requests :
    requests[r].state = "APPROVED" /\ (\A t \in Tasks : tasks[t].r # r) => op[r].state # "AUTOMATED_CHECKS"
===============================================================================
