-------------------------------- MODULE Outbox --------------------------------
(***************************************************************************)
(* The transactional outbox (platform/outbox.ts), the read model that it   *)
(* keeps (platform/projection.ts), and those who write what it shows: the  *)
(* engine, the payouts and the operators.                                  *)
(*                                                                         *)
(* A worker's batch is one transaction of several statements, each of      *)
(* which sees what is committed when it runs (READ COMMITTED): its writes  *)
(* stay its own, and the rows it has claimed and written stay locked,      *)
(* until it commits.  Each handler is a savepoint in it, since             *)
(* projectAccount opens a transaction inside the one it is given.          *)
(***************************************************************************)
EXTENDS Integers, Sequences, FiniteSets, SequencesExt

CONSTANTS
  Accounts, Workers,
  Active,              \* the accounts that something happens to
  Backlog,             \* the accounts of the events that wait at the start
  batch, maxAttempts,  \* OutboxWorkerOptions
  PayoutEntries,       \* the payout entries that touch the balance
  Resets,              \* may a transition be a reset?
  MaxEvents, MaxFaults, MaxSeq  \* bounds

ASSUME OutboxAssumption ==
  /\ Active \subseteq Accounts /\ Backlog \in Seq(Accounts)
  /\ batch \in Nat \ {0} /\ maxAttempts \in Nat \ {0}
  /\ PayoutEntries \subseteq {"DEBIT", "REVERSAL"} /\ Resets \subseteq BOOLEAN
  /\ MaxEvents \in Nat /\ MaxFaults \in Nat /\ MaxSeq \in Nat

VARIABLES
  accounts,     \* seq, status, and money: how often the balance has changed
  positions,    \* how often the positions of an account have changed
  announced,    \* money at the last change that was both numbered and enqueued:
                \* history, read by no action
  events,       \* outbox_events, in the order they were created
  projections,  \* account_projections
  workers,      \* the transaction of each worker
  faults        \* crashes and failing handlers so far

outboxVars == <<accounts, positions, announced, events, projections, workers, faults>>
truthVars == <<accounts, positions, announced>>

Idle == [rows |-> <<>>, done |-> <<>>, held |-> <<>>, read |-> <<>>]

Row(a) == [seq |-> accounts[a].seq, money |-> accounts[a].money, status |-> accounts[a].status]
Snapshot(a) == [row |-> Row(a), positions |-> positions[a]]

-------------------------------------------------------------------------------
(* Those who change accounts *)

Event(a) == [account |-> a, attempts |-> 0, state |-> "due"]
enqueueOutbox(a) == events' = Append(events, Event(a))

\* Bounds: the table holds so many events, an account sees so many changes.
Room(a) == Len(events) < MaxEvents /\ accounts[a].seq < MaxSeq

\* An order is written, and its audit row takes a sequence number.
audit(a) ==
  /\ accounts[a].seq < MaxSeq
  /\ accounts' = [accounts EXCEPT ![a].seq = @ + 1]
  /\ UNCHANGED <<positions, announced, events, projections, workers, faults>>

\* An operation has ended: fire and forget, it may come late or never.
enqueueChange(a) ==
  /\ Len(events) < MaxEvents
  /\ enqueueOutbox(a)
  /\ UNCHANGED <<truthVars, projections, workers, faults>>

FillWithoutEvent(a) == \* mutant: no event
  /\ Room(a)
  /\ accounts' = [accounts EXCEPT ![a].seq = @ + 1, ![a].money = @ + 1]
  /\ positions' = [positions EXCEPT ![a] = @ + 1]
  /\ announced' = [announced EXCEPT ![a] = accounts[a].money + 1]
  /\ UNCHANGED <<events, projections, workers, faults>>

\* Fills, positions, balance and the event in one transaction.
Fill(a) ==
  /\ Room(a)
  /\ accounts' = [accounts EXCEPT ![a].seq = @ + 1, ![a].money = @ + 1]
  /\ positions' = [positions EXCEPT ![a] = @ + 1]
  /\ announced' = [announced EXCEPT ![a] = accounts[a].money + 1]
  /\ enqueueOutbox(a)
  /\ UNCHANGED <<projections, workers, faults>>

\* approvePayout tells the outbox of its debit, failPayout not of its reversal.
Payout(a, entry) ==
  /\ Room(a)
  /\ accounts' = [accounts EXCEPT ![a].seq = @ + 1, ![a].money = @ + 1]
  /\ \/ /\ entry = "DEBIT" /\ enqueueOutbox(a)
        /\ announced' = [announced EXCEPT ![a] = accounts[a].money + 1]
     \/ entry = "REVERSAL" /\ UNCHANGED <<events, announced>>
  /\ UNCHANGED <<positions, projections, workers, faults>>

\* applyTransition, and a reset: neither counts the sequence number on.
Transition(a, reset) ==
  /\ Room(a)
  /\ accounts' = [accounts EXCEPT ![a].status = IF @ = "ACTIVE" /\ ~reset THEN "LOCKED" ELSE "ACTIVE",
                                  ![a].money = IF reset THEN @ + 1 ELSE @]
  /\ enqueueOutbox(a)
  /\ UNCHANGED <<positions, announced, projections, workers, faults>>

-------------------------------------------------------------------------------
(* The worker *)

LockedRows == UNION {Range(workers[w].rows) : w \in Workers}
Locked(i) == i \in LockedRows

DueUnexhausted == {i \in 1..Len(events) : \* mutant: a last attempt is never made
  events[i].state = "due" /\ events[i].attempts + 1 < maxAttempts /\ ~Locked(i)}

\* The rows that are due and that no other worker has locked.
Due == {i \in 1..Len(events) : events[i].state = "due" /\ ~Locked(i)}

\* The oldest of them, as many as make a batch.
OldestDue ==
  {rows \in UNION {[1..n -> Due] : n \in 1..batch} :
     /\ \A j, k \in DOMAIN rows : j < k => rows[j] < rows[k]
     /\ \A i \in Due \ Range(rows) : Len(rows) = batch /\ \A k \in DOMAIN rows : rows[k] < i}

Claim(w) ==
  /\ workers[w] = Idle
  /\ \E rows \in OldestDue : workers' = [workers EXCEPT ![w].rows = rows]
  /\ UNCHANGED <<truthVars, events, projections, faults>>

Busy(w) == Len(workers[w].done) < Len(workers[w].rows)
Current(w) == workers[w].rows[Len(workers[w].done) + 1]
Subject(w) == events[Current(w)].account

ReadAccount(w) ==
  /\ Busy(w) /\ workers[w].read = <<>>
  /\ workers' = [workers EXCEPT ![w].read = <<Row(Subject(w))>>]
  /\ UNCHANGED <<truthVars, events, projections, faults>>

\* A later statement than the first.
ReadPositions(w) ==
  /\ Busy(w) /\ Len(workers[w].read) = 1
  /\ workers' = [workers EXCEPT ![w].read = Append(@, positions[Subject(w)])]
  /\ UNCHANGED <<truthVars, events, projections, faults>>

Ready(w) == Busy(w) /\ Len(workers[w].read) = 2
Holds(w, a) == a \in DOMAIN workers[w].held
\* The upsert waits for the row of the projection.
WaitsFor(w, v) == v # w /\ Ready(w) /\ Holds(v, Subject(w))

Stored(w, a) == IF Holds(w, a) THEN workers[w].held[a] ELSE projections[a]
Fresh(w) == [row |-> workers[w].read[1], positions |-> workers[w].read[2]]

UpsertedAlways(w, a) == Fresh(w) \* mutant: no guard
\* The row moves forward only; equal sequence numbers overwrite.
Upserted(w, a) == IF Stored(w, a).row.seq <= Fresh(w).row.seq THEN Fresh(w) ELSE Stored(w, a)

\* The row of w once it has handled an event, and what it holds then.
Marked(w, row, held) ==
  [rows |-> workers[w].rows, done |-> Append(workers[w].done, row), held |-> held, read |-> <<>>]

projectAccount(w) ==
  LET a == Subject(w) IN
  /\ Ready(w) /\ \A v \in Workers : ~WaitsFor(w, v)
  /\ workers' = [workers EXCEPT ![w] =
       Marked(w, [events[Current(w)] EXCEPT !.state = "delivered"],
              [b \in DOMAIN workers[w].held \cup {a} |->
                 IF b = a THEN Upserted(w, a) ELSE workers[w].held[b]])]
  /\ UNCHANGED <<truthVars, events, projections, faults>>

FailedRow(row) ==
  LET attempts == IF row.attempts < maxAttempts THEN row.attempts + 1 ELSE row.attempts IN
    [row EXCEPT !.attempts = attempts, !.state = IF attempts >= maxAttempts THEN "dead" ELSE "backoff"]

\* A statement of the handler fails: back to its savepoint, and on.
Fails(w) ==
  /\ Busy(w)
  /\ workers' = [workers EXCEPT ![w] = Marked(w, FailedRow(events[Current(w)]), workers[w].held)]
  /\ UNCHANGED <<truthVars, events, projections>>

HandlerFails(w) ==
  /\ faults < MaxFaults /\ faults' = faults + 1
  /\ Fails(w)

\* PostgreSQL fails one of two that wait for each other.
DeadlockDetected(w) ==
  /\ \E v \in Workers : WaitsFor(w, v) /\ WaitsFor(v, w)
  /\ Fails(w) /\ UNCHANGED faults

Commit(w) ==
  /\ workers[w].rows # <<>> /\ ~Busy(w)
  /\ events' = [i \in 1..Len(events) |->
       IF \E k \in 1..Len(workers[w].rows) : workers[w].rows[k] = i
       THEN workers[w].done[CHOOSE k \in 1..Len(workers[w].rows) : workers[w].rows[k] = i]
       ELSE events[i]]
  /\ projections' = [a \in Accounts |-> Stored(w, a)]
  /\ workers' = [workers EXCEPT ![w] = Idle]
  /\ UNCHANGED <<truthVars, faults>>

\* The worker or its connection dies: everything of the batch is undone.
Crash(w) ==
  /\ workers[w] # Idle /\ faults < MaxFaults
  /\ workers' = [workers EXCEPT ![w] = Idle]
  /\ faults' = faults + 1
  /\ UNCHANGED <<truthVars, events, projections>>

BackoffOver(i) ==
  /\ i <= Len(events) /\ events[i].state = "backoff" /\ ~Locked(i)
  /\ events' = [events EXCEPT ![i].state = "due"]
  /\ UNCHANGED <<truthVars, projections, workers, faults>>

\* An operator re-arms an event; its attempts stay counted.
retryJob(i) ==
  /\ i <= Len(events) /\ events[i].state \in {"dead", "backoff"} /\ ~Locked(i)
  /\ events' = [events EXCEPT ![i].state = "due"]
  /\ UNCHANGED <<truthVars, projections, workers, faults>>

-------------------------------------------------------------------------------

OutboxInit ==
  /\ accounts = [a \in Accounts |-> [seq |-> 0, money |-> 0, status |-> "ACTIVE"]]
  /\ positions = [a \in Accounts |-> 0] /\ announced = [a \in Accounts |-> 0]
  /\ events = [i \in 1..Len(Backlog) |-> Event(Backlog[i])]
  /\ projections = [a \in Accounts |-> Snapshot(a)]
  /\ workers = [w \in Workers |-> Idle] /\ faults = 0

Changes(a) ==
  \/ audit(a) \/ enqueueChange(a) \/ Fill(a)
  \/ \E entry \in PayoutEntries : Payout(a, entry)
  \/ \E reset \in Resets : Transition(a, reset)
Work(w) == Claim(w) \/ ReadAccount(w) \/ ReadPositions(w) \/ projectAccount(w) \/ Commit(w)
Trouble(w) == HandlerFails(w) \/ DeadlockDetected(w) \/ Crash(w)
Timing == \E i \in 1..MaxEvents : BackoffOver(i) \/ retryJob(i)

OutboxNext ==
  \/ \E a \in Active : Changes(a)
  \/ \E w \in Workers : Work(w) \/ Trouble(w)
  \/ Timing

\* A worker polls for ever, a deadlock is found, time passes.
OutboxFairness ==
  /\ \A w \in Workers : WF_outboxVars(Work(w)) /\ WF_outboxVars(DeadlockDetected(w))
  /\ \A i \in 1..MaxEvents : WF_outboxVars(BackoffOver(i))

OutboxSpec == OutboxInit /\ [][OutboxNext]_outboxVars
OutboxFairSpec == OutboxSpec /\ OutboxFairness

-------------------------------------------------------------------------------

AccountRow == [seq : Nat, money : Nat, status : {"ACTIVE", "LOCKED"}]
Shown == [row : AccountRow, positions : Nat]

OutboxTypeOK ==
  /\ accounts \in [Accounts -> AccountRow]
  /\ positions \in [Accounts -> Nat] /\ announced \in [Accounts -> Nat]
  /\ \A i \in DOMAIN events :
       events[i] \in [account : Accounts, attempts : 0..maxAttempts,
                      state : {"due", "backoff", "delivered", "dead"}]
  /\ projections \in [Accounts -> Shown]
  /\ \A w \in Workers : \A a \in DOMAIN workers[w].held : workers[w].held[a] \in Shown
  /\ faults \in 0..MaxFaults

Outstanding(a) == \E i \in DOMAIN events : events[i].account = a /\ events[i].state # "delivered"

(* Once the events of an account are delivered, the read model shows its   *)
(* positions and a balance that lacks no change up to the last one that    *)
(* was both numbered and enqueued (a fill, the debit of a payout), nor is  *)
(* ahead of the account, whatever crashed, failed, waited, was reset or    *)
(* was read in between; what it does not show yet is outstanding, or       *)
(* parked where an operator sees it (outbox.ts, projection.ts:116).        *)
MoneyIsShown ==
  \A a \in Accounts :
    \/ Outstanding(a)
    \/ /\ announced[a] <= projections[a].row.money
       /\ projections[a].row.money <= accounts[a].money
       /\ projections[a].positions = positions[a]

(* It shows the money as it is: also what a reversal or a reset did to it. *)
MoneyIsExact ==
  \A a \in Accounts : Outstanding(a) \/ projections[a].row.money = accounts[a].money

(* So does it show the status (projection.ts:121).                         *)
StatusIsShown ==
  \A a \in Accounts : Outstanding(a) \/ projections[a].row.status = accounts[a].status

(* What is shown never goes back to an older state, although two workers   *)
(* may commit what they read in the other order (projection.ts:119).       *)
ShownNeverGoesBack ==
  [][\A a \in Accounts : projections'[a].row.seq >= projections[a].row.seq
                      /\ projections'[a].row.money >= projections[a].row.money]_outboxVars

(* Every event is delivered or parked in the end: a deadlock of two        *)
(* workers, a crash, a failure or a redelivery loses none and blocks none. *)
EventsSettle ==
  \A i \in 1..MaxEvents :
    (i <= Len(events)) ~> (i <= Len(events) /\ events[i].state \in {"delivered", "dead"})
=============================================================================
