------------------------------ MODULE OutboxProofs ------------------------------
(***************************************************************************)
(* What is proved of the outbox and its read model, for any number of      *)
(* accounts, workers and events, any batch and any faults.                 *)
(*                                                                         *)
(* An event of an account is owed as long as no handler has applied it.    *)
(* The read model may lack what was announced of an account only while an  *)
(* event is owed whose handler has not read the account yet, or has read   *)
(* it after that.                                                          *)
(* Neither a crash nor a commit changes that, because what a worker has    *)
(* stored and not committed is covered by an event that its batch holds.   *)
(***************************************************************************)
EXTENDS Outbox, TLAPS

EventRow == [account : Accounts, attempts : Nat,
             state : {"due", "backoff", "delivered", "dead"}]

Reading(w) == workers[w].read # <<>>

\* Handled by a batch that has not been committed.
Applied(i) ==
  \E w \in Workers : \E k \in DOMAIN workers[w].done :
    workers[w].rows[k] = i /\ workers[w].done[k].state = "delivered"

Owed(a) == {i \in 1..Len(events) : events[i].account = a /\ events[i].state # "delivered"
                                   /\ ~Applied(i)}

Holders(a) == {w \in Workers : Holds(w, a)}
\* What readers of the projection will see once its holder has committed.
Latest(a) == IF Holders(a) = {} THEN {projections[a]}
             ELSE {workers[w].held[a] : w \in Holders(a)}
Shows(a) == \A x \in Latest(a) : announced[a] <= x.row.money

\* Every version of an account's row that is kept somewhere.
Readers(a) == {w \in Workers : Reading(w) /\ Subject(w) = a}
Seen(a) == {Row(a), projections[a].row} \cup {workers[w].held[a].row : w \in Holders(a)}
             \cup {workers[w].read[1] : w \in Readers(a)}
Snapshots(a) == {projections[a]} \cup {workers[w].held[a] : w \in Holders(a)}
                  \cup {Fresh(w) : w \in {v \in Readers(a) : Len(workers[v].read) = 2}}

WorkerTyped(w) ==
  /\ workers[w] = [rows |-> workers[w].rows, done |-> workers[w].done,
                   held |-> workers[w].held, read |-> workers[w].read]
  /\ workers[w].rows \in Seq(Nat)
  /\ \A k \in DOMAIN workers[w].rows : workers[w].rows[k] \in 1..Len(events)
  /\ workers[w].done \in Seq(EventRow)
  /\ DOMAIN workers[w].held \subseteq Accounts
  /\ \A a \in DOMAIN workers[w].held : workers[w].held[a] \in Shown
  /\ workers[w].read \in Seq(AccountRow \cup Nat) /\ Len(workers[w].read) <= 2
  /\ Reading(w) => workers[w].read[1] \in AccountRow
  /\ Len(workers[w].read) = 2 => workers[w].read[2] \in Nat

Typed ==
  /\ accounts \in [Accounts -> AccountRow]
  /\ positions \in [Accounts -> Nat] /\ announced \in [Accounts -> Nat]
  /\ events \in Seq(EventRow)
  /\ projections \in [Accounts -> Shown]
  /\ workers = [w \in Workers |-> workers[w]]
  /\ \A w \in Workers : WorkerTyped(w)

\* The rows of a batch are its own, and wait as they were claimed.
InOrder(w) ==
  /\ Len(workers[w].done) <= Len(workers[w].rows)
  /\ Reading(w) => Busy(w)
  /\ \A k \in DOMAIN workers[w].rows : events[workers[w].rows[k]].state = "due"
  /\ \A j, k \in DOMAIN workers[w].rows : workers[w].rows[j] = workers[w].rows[k] => j = k
  /\ \A k \in DOMAIN workers[w].done :
       workers[w].done[k].account = events[workers[w].rows[k]].account
Apart(v, w) ==
  \A j \in DOMAIN workers[v].rows : \A k \in DOMAIN workers[w].rows :
    workers[v].rows[j] # workers[w].rows[k]

Batches ==
  /\ \A w \in Workers : InOrder(w)
  /\ \A v, w \in Workers : v # w => Apart(v, w)

\* A projection has one holder, on account of an event that it has handled,
\* and what the holder keeps is not older than what it will replace.
Holding ==
  /\ \A a \in Accounts : \A v, w \in Holders(a) : v = w
  /\ \A a \in Accounts : \A w \in Holders(a) :
       /\ \E k \in DOMAIN workers[w].done :
            workers[w].done[k].state = "delivered" /\ workers[w].done[k].account = a
       /\ projections[a].row.seq <= workers[w].held[a].row.seq

\* No version of a row is ahead of the account, and one that is numbered
\* like a version with the announced changes, or higher, has them as well.
\* Where nothing is reset, the one with the higher number is the newer one.
Ordered ==
  \A a \in Accounts :
    /\ announced[a] <= accounts[a].money
    /\ \A x \in Seen(a) : x.seq <= accounts[a].seq /\ x.money <= accounts[a].money
    /\ \A x, y \in Seen(a) : x.seq <= y.seq =>
         /\ announced[a] <= x.money => announced[a] <= y.money
         /\ TRUE \notin Resets => x.money <= y.money

\* The positions were read after the row, and change with an announced fill.
PositionsFollow ==
  \A a \in Accounts : \A x \in Snapshots(a) :
    announced[a] <= x.row.money => x.positions = positions[a]

\* The owed events whose handler, if it has read the account, has read what
\* was announced.
Pending(a) ==
  {i \in Owed(a) : \A w \in Readers(a) : Current(w) = i => announced[a] <= workers[w].read[1].money}
Covered == \A a \in Accounts : Pending(a) # {} \/ Shows(a)

OutboxInv == Typed /\ Batches /\ Holding /\ Ordered /\ PositionsFollow /\ Covered

-------------------------------------------------------------------------------
(* What readers of the proof need to know of a batch *)

LEMMA CurrentIsDue ==
  ASSUME Typed, Batches, NEW w \in Workers, Busy(w)
  PROVE  /\ Len(workers[w].done) + 1 \in DOMAIN workers[w].rows
         /\ Current(w) \in 1..Len(events)
         /\ events[Current(w)] \in EventRow /\ events[Current(w)].state = "due"
         /\ Subject(w) \in Accounts
<1>1. workers[w].rows \in Seq(Nat) /\ workers[w].done \in Seq(EventRow)
  BY DEF Typed, WorkerTyped
<1>2. Len(workers[w].done) + 1 \in DOMAIN workers[w].rows
  BY <1>1 DEF Busy
<1>3. Current(w) \in 1..Len(events) /\ events[Current(w)].state = "due"
  BY <1>2 DEF Current, Typed, WorkerTyped, Batches, InOrder, Apart
<1>4. events[Current(w)] \in EventRow
  BY <1>3 DEF Typed, WorkerTyped
<1>. QED BY <1>2, <1>3, <1>4 DEF Subject, EventRow

\* An event under work, or that no batch has locked, is not applied.
LEMMA CurrentIsOwed ==
  ASSUME Typed, Batches, NEW w \in Workers, Busy(w)
  PROVE  Current(w) \in Owed(Subject(w))
<1>1. /\ Len(workers[w].done) + 1 \in DOMAIN workers[w].rows
      /\ Current(w) \in 1..Len(events) /\ events[Current(w)].state = "due"
  BY CurrentIsDue
<1>2. ASSUME NEW v \in Workers, NEW k \in DOMAIN workers[v].done, workers[v].rows[k] = Current(w)
      PROVE  FALSE
  <2>1. workers[v].done \in Seq(EventRow) /\ workers[v].rows \in Seq(Nat)
    BY DEF Typed, WorkerTyped
  <2>2. k \in DOMAIN workers[v].rows /\ k <= Len(workers[v].done)
    BY <2>1 DEF Batches, InOrder, Apart
  <2>3. v = w
    BY <1>1, <1>2, <2>2 DEF Batches, InOrder, Apart, Current
  <2>4. k = Len(workers[w].done) + 1
    BY <1>1, <1>2, <2>2, <2>3 DEF Batches, InOrder, Apart, Current
  <2>. QED BY <2>1, <2>2, <2>3, <2>4
<1>. QED BY <1>1, <1>2 DEF Owed, Applied, Subject

\* What is applied is locked, and waits in the table as it was claimed.
LEMMA AppliedIsLocked ==
  ASSUME Typed, Batches, NEW i, Applied(i)
  PROVE  i \in 1..Len(events) /\ events[i].state = "due" /\ Locked(i)
<1>0. PICK w \in Workers : \E k \in DOMAIN workers[w].done :
        workers[w].rows[k] = i /\ workers[w].done[k].state = "delivered"
  BY DEF Applied
<1>1. PICK k \in DOMAIN workers[w].done :
        workers[w].rows[k] = i /\ workers[w].done[k].state = "delivered"
  BY <1>0
<1>2. workers[w].done \in Seq(EventRow) /\ workers[w].rows \in Seq(Nat)
  BY DEF Typed, WorkerTyped
<1>3. k \in DOMAIN workers[w].rows
  BY <1>2 DEF Batches, InOrder, Apart
<1>4. i \in 1..Len(events) /\ events[i].state = "due"
  BY <1>1, <1>3 DEF Typed, WorkerTyped, Batches, InOrder, Apart
<1>5. i \in Range(workers[w].rows)
  BY <1>1, <1>3 DEF Range
<1>. QED BY <1>4, <1>5 DEF Locked, LockedRows

LEMMA OwedIsOutstanding == \A a : Owed(a) # {} => Outstanding(a)
BY DEF Owed, Outstanding

(* Once nothing of an account is outstanding, what is shown is the truth.  *)
LEMMA CoveredIsShown == OutboxInv => MoneyIsShown
<1>. SUFFICES ASSUME OutboxInv, NEW a \in Accounts, ~Outstanding(a)
              PROVE  /\ announced[a] <= projections[a].row.money
                     /\ projections[a].row.money <= accounts[a].money
                     /\ projections[a].positions = positions[a]
  BY DEF MoneyIsShown
<1>1. Shows(a)
  BY OwedIsOutstanding DEF OutboxInv, Covered, Pending
<1>2. Holders(a) = {}
  <2>. SUFFICES ASSUME NEW w \in Holders(a) PROVE FALSE
    OBVIOUS
  <2>1. w \in Workers
    BY DEF Holders
  <2>2. PICK k \in DOMAIN workers[w].done :
          workers[w].done[k].state = "delivered" /\ workers[w].done[k].account = a
    BY DEF OutboxInv, Holding
  <2>3. Applied(workers[w].rows[k])
    BY <2>1, <2>2 DEF Applied
  <2>4. events[workers[w].rows[k]].account = a
    BY <2>1, <2>2 DEF OutboxInv, Batches, InOrder, Apart
  <2>5. workers[w].rows[k] \in 1..Len(events) /\ events[workers[w].rows[k]].state = "due"
    BY <2>3, AppliedIsLocked DEF OutboxInv
  <2>6. 1..Len(events) = DOMAIN events
    BY DEF OutboxInv, Typed, WorkerTyped
  <2>. QED BY <2>4, <2>5, <2>6 DEF Outstanding
<1>3. announced[a] <= projections[a].row.money
  BY <1>1, <1>2 DEF Shows, Latest
<1>4. projections[a] \in Snapshots(a) /\ projections[a].row \in Seen(a)
  BY DEF Snapshots, Seen
<1>. QED BY <1>3, <1>4 DEF OutboxInv, PositionsFollow, Ordered

\* Every version that is kept is a row, and not newer than the account.
LEMMA SeenType ==
  ASSUME Typed, Batches, NEW a \in Accounts, NEW x \in Seen(a)
  PROVE  x.seq \in Nat /\ x.money \in Nat
<1>1. accounts[a] \in AccountRow /\ projections[a] \in Shown
  BY DEF Typed, WorkerTyped
<1>2. CASE x = Row(a) \/ x = projections[a].row
  BY <1>1, <1>2 DEF Row, Shown, AccountRow
<1>4. ASSUME NEW w \in Holders(a), x = workers[w].held[a].row PROVE x \in AccountRow
  BY <1>4 DEF Holders, Holds, Typed, WorkerTyped, Shown
<1>5. ASSUME NEW w \in Readers(a), x = workers[w].read[1] PROVE x \in AccountRow
  <2>1. w \in Workers /\ workers[w].read # <<>>
    BY DEF Readers, Reading
  <2>. QED BY <1>5, <2>1 DEF Typed, WorkerTyped, Reading
<1>. QED BY <1>2, <1>4, <1>5 DEF Seen, AccountRow

LEMMA SeenIsPast ==
  ASSUME Typed, Batches, Ordered, NEW a \in Accounts, NEW x \in Seen(a)
  PROVE  x.money <= accounts[a].money /\ x.money \in Nat
BY SeenType DEF Ordered

LEMMA SnapshotsAreSeen ==
  ASSUME NEW a \in Accounts, NEW x \in Snapshots(a)
  PROVE  x.row \in Seen(a)
BY DEF Snapshots, Seen, Fresh

-------------------------------------------------------------------------------
(* Those who change accounts *)

\* An account moves on; what is announced takes a number and an event.
OnlyOf(a) ==
  /\ UNCHANGED <<projections, workers>>
  /\ accounts' \in [Accounts -> AccountRow] /\ positions' \in [Accounts -> Nat]
  /\ announced' \in [Accounts -> Nat]
  /\ \A b \in Accounts \ {a} : /\ accounts'[b] = accounts[b] /\ positions'[b] = positions[b]
                              /\ announced'[b] = announced[b]
MovesOn(a) ==
  /\ accounts[a].seq <= accounts'[a].seq /\ accounts[a].money <= accounts'[a].money
  /\ \/ TRUE \in Resets \/ accounts'[a].money = accounts[a].money
     \/ accounts[a].seq < accounts'[a].seq
  /\ \/ announced'[a] = announced[a] /\ positions'[a] = positions[a]
     \/ /\ announced'[a] = accounts'[a].money /\ accounts[a].money < accounts'[a].money
        /\ accounts[a].seq < accounts'[a].seq
Tells(a) ==
  \/ events' = Append(events, Event(a))
  \/ events' = events /\ announced'[a] = announced[a]

LEMMA ChangeKeeps ==
  ASSUME OutboxInv, NEW a \in Accounts, OnlyOf(a), MovesOn(a), Tells(a)
  PROVE  OutboxInv'
<1>0. Event(a) \in EventRow /\ events \in Seq(EventRow)
  BY DEF Event, EventRow, OutboxInv, Typed, WorkerTyped
<1>1. /\ events' \in Seq(EventRow) /\ Len(events) <= Len(events')
      /\ Len(events) \in Nat /\ Len(events') \in Nat
      /\ \A i \in 1..Len(events) : events'[i] = events[i]
  <2>. DEFINE e == Event(a)
  <2>1. e \in EventRow /\ (events' = events \/ events' = Append(events, e))
    BY <1>0 DEF Tells
  <2>. HIDE DEF e
  <2>2. CASE events' = events
    BY <1>0, <2>2
  <2>3. CASE events' = Append(events, e)
    BY <1>0, <2>1, <2>3
  <2>. QED BY <2>1, <2>2, <2>3
<1>2. /\ \A w \in Workers : /\ Busy(w)' = Busy(w) /\ Reading(w)' = Reading(w)
                            /\ Current(w)' = Current(w) /\ Fresh(w)' = Fresh(w)
      /\ \A w \in Workers : \A b : Holds(w, b)' = Holds(w, b)
      /\ \A b : Holders(b)' = Holders(b)
      /\ \A i : Applied(i)' = Applied(i)
      /\ UNCHANGED <<projections, workers>>
  BY DEF Busy, Reading, Current, Fresh, Holds, Holders, Applied, OnlyOf
<1>3. \A w \in Workers : Reading(w) => Subject(w)' = Subject(w)
  BY <1>1, <1>2, CurrentIsDue DEF Subject, OutboxInv, Batches, InOrder, Apart
<1>4. Typed'
  <2>1. \A i \in 1..Len(events) : i \in 1..Len(events')
    BY <1>1
  <2>2. \A w \in Workers : WorkerTyped(w)'
    BY <1>2, <2>1 DEF OutboxInv, Typed, WorkerTyped
  <2>. QED BY <1>1, <1>2, <2>2 DEF OutboxInv, Typed, OnlyOf
<1>5. Batches'
  <2>1. \A w \in Workers : \A k \in DOMAIN workers[w].rows :
          events'[workers[w].rows[k]] = events[workers[w].rows[k]]
    BY <1>1 DEF OutboxInv, Typed, WorkerTyped
  <2>2. \A w \in Workers : DOMAIN workers[w].done \subseteq DOMAIN workers[w].rows
    BY DEF OutboxInv, Typed, WorkerTyped, Batches, InOrder, Apart
  <2>3. \A w \in Workers : InOrder(w)'
    BY <1>2, <2>1, <2>2 DEF OutboxInv, Batches, InOrder
  <2>4. \A v, w \in Workers : v # w => Apart(v, w)'
    BY <1>2 DEF OutboxInv, Batches, Apart
  <2>. QED BY <2>3, <2>4 DEF Batches
<1>6. Holding'
  BY <1>2 DEF OutboxInv, Holding
<1>7. \A b : Readers(b)' = Readers(b)
  BY <1>2, <1>3 DEF Readers
<1>8. \A b \in Accounts : Seen(b)' \subseteq Seen(b) \cup {Row(b)'}
  BY <1>2, <1>7 DEF Seen
<1>9. Ordered'
  <2>. SUFFICES ASSUME NEW b \in Accounts
                PROVE  /\ announced'[b] <= accounts'[b].money
                       /\ \A x \in Seen(b)' : x.seq <= accounts'[b].seq /\ x.money <= accounts'[b].money
                       /\ \A x, y \in Seen(b)' : x.seq <= y.seq =>
                            /\ announced'[b] <= x.money => announced'[b] <= y.money
                            /\ TRUE \notin Resets => x.money <= y.money
    BY Zenon DEF Ordered
  <2>1. /\ accounts[b].seq \in Nat /\ accounts[b].money \in Nat /\ announced[b] \in Nat
        /\ accounts'[b].seq \in Nat /\ accounts'[b].money \in Nat /\ announced'[b] \in Nat
        /\ accounts[b].seq <= accounts'[b].seq /\ accounts[b].money <= accounts'[b].money
        /\ \/ TRUE \in Resets \/ accounts'[b].money = accounts[b].money
           \/ accounts[b].seq < accounts'[b].seq
        /\ \/ announced'[b] = announced[b]
           \/ /\ announced'[b] = accounts'[b].money /\ accounts[b].money < accounts'[b].money
              /\ accounts[b].seq < accounts'[b].seq
    <3>1. /\ accounts[b] \in AccountRow /\ accounts'[b] \in AccountRow
          /\ announced[b] \in Nat /\ announced'[b] \in Nat
      BY DEF OutboxInv, Typed, OnlyOf
    <3>2. /\ accounts[b].seq \in Nat /\ accounts[b].money \in Nat
          /\ accounts'[b].seq \in Nat /\ accounts'[b].money \in Nat
      BY <3>1 DEF AccountRow
    <3>3. CASE b = a
      BY <3>1, <3>2, <3>3 DEF MovesOn
    <3>4. CASE b # a
      <4>1. accounts'[b] = accounts[b] /\ announced'[b] = announced[b]
        BY <3>4 DEF OnlyOf
      <4>. QED BY <3>1, <3>2, <4>1
    <3>. QED BY <3>3, <3>4
  <2>2. Row(b)'.seq = accounts'[b].seq /\ Row(b)'.money = accounts'[b].money
    BY DEF Row
  <2>3. \A z \in Seen(b) : /\ z.seq <= accounts[b].seq /\ z.money <= accounts[b].money
                           /\ z.seq \in Nat /\ z.money \in Nat
                           /\ accounts[b].seq <= z.seq =>
                                /\ announced[b] <= z.money
                                /\ TRUE \notin Resets => accounts[b].money <= z.money
    <3>1. Row(b) \in Seen(b) /\ Row(b).seq = accounts[b].seq /\ Row(b).money = accounts[b].money
      BY DEF Seen, Row
    <3>2. \A z \in Seen(b) : z.seq \in Nat /\ z.money \in Nat
      BY SeenType DEF OutboxInv
    <3>. QED BY <3>1, <3>2 DEF OutboxInv, Ordered
  <2>4. announced[b] <= accounts[b].money
    BY DEF OutboxInv, Ordered
  <2>5. announced'[b] <= accounts'[b].money
    BY <2>1, <2>4
  <2>6. \A x \in Seen(b)' : x \in Seen(b) \/ x = Row(b)'
    BY <1>8
  <2>7. ASSUME NEW x \in Seen(b)'
        PROVE  /\ x.seq <= accounts'[b].seq /\ x.money <= accounts'[b].money
               /\ x.seq \in Nat /\ x.money \in Nat
    <3>1. CASE x \in Seen(b)
      <4>1. /\ x.seq <= accounts[b].seq /\ x.money <= accounts[b].money
            /\ x.seq \in Nat /\ x.money \in Nat
        BY <2>3, <3>1
      <4>. QED BY <2>1, <4>1
    <3>2. CASE x = Row(b)'
      BY <2>1, <2>2, <3>2
    <3>. QED BY <2>6, <3>1, <3>2
  <2>8. ASSUME NEW x \in Seen(b)', NEW y \in Seen(b)', x.seq <= y.seq
        PROVE  /\ announced'[b] <= x.money => announced'[b] <= y.money
               /\ TRUE \notin Resets => x.money <= y.money
    <3>1. CASE y = Row(b)'
      BY <2>2, <2>5, <2>7, <3>1
    <3>2. CASE x \in Seen(b) /\ y \in Seen(b)
      <4>1. /\ announced[b] <= x.money => announced[b] <= y.money
            /\ TRUE \notin Resets => x.money <= y.money
        BY <2>8, <3>2 DEF OutboxInv, Ordered
      <4>2. x.money <= accounts[b].money /\ x.money \in Nat
        BY <2>3, <3>2
      <4>3. ASSUME announced'[b] <= x.money PROVE announced'[b] = announced[b]
        BY <2>1, <4>2, <4>3
      <4>. QED BY <4>1, <4>3
    <3>3. CASE x = Row(b)' /\ y \in Seen(b)
      <4>1. y.seq <= accounts[b].seq /\ y.seq \in Nat /\ y.money \in Nat
        BY <2>3, <3>3
      <4>2. accounts'[b].seq <= y.seq
        BY <2>2, <2>8, <3>3
      <4>3. ~(accounts[b].seq < accounts'[b].seq) /\ accounts[b].seq <= y.seq
        BY <2>1, <4>1, <4>2
      <4>4. announced'[b] = announced[b] /\ (TRUE \notin Resets => accounts'[b].money = accounts[b].money)
        BY <2>1, <4>3
      <4>5. announced[b] <= y.money /\ (TRUE \notin Resets => accounts[b].money <= y.money)
        BY <2>3, <3>3, <4>3
      <4>6. x.money = accounts'[b].money
        BY <2>2, <3>3
      <4>. QED BY <4>4, <4>5, <4>6
    <3>. QED BY <2>6, <3>1, <3>2, <3>3
  <2>. QED BY <2>5, <2>7, <2>8
<1>10. PositionsFollow'
  <2>. SUFFICES ASSUME NEW b \in Accounts, NEW x \in Snapshots(b)', announced'[b] <= x.row.money
                PROVE  x.positions = positions'[b]
    BY DEF PositionsFollow
  <2>1. x \in Snapshots(b)
    <3>1. ASSUME NEW w \in Readers(b)', Len(workers'[w].read) = 2 PROVE Fresh(w)' \in Snapshots(b)
      <4>1. w \in Workers /\ w \in Readers(b) /\ Fresh(w)' = Fresh(w) /\ workers'[w] = workers[w]
        BY <1>2, <1>7, <3>1 DEF Readers
      <4>. QED BY <3>1, <4>1 DEF Snapshots
    <3>. QED BY <1>2, <3>1 DEF Snapshots
  <2>2. x.row.money <= accounts[b].money /\ x.row.money \in Nat
    BY <2>1, SnapshotsAreSeen, SeenIsPast DEF OutboxInv
  <2>3. accounts[b].money \in Nat /\ accounts'[b].money \in Nat
    BY DEF OutboxInv, Typed, OnlyOf, AccountRow
  <2>4. announced'[b] = announced[b] /\ positions'[b] = positions[b]
    BY <2>2, <2>3 DEF MovesOn, OnlyOf
  <2>. QED BY <2>1, <2>4 DEF OutboxInv, PositionsFollow
<1>11. Covered'
  <2>. SUFFICES ASSUME NEW b \in Accounts PROVE Pending(b)' # {} \/ Shows(b)'
    BY DEF Covered
  <2>1. Owed(b) \subseteq Owed(b)'
    BY <1>1, <1>2 DEF Owed
  <2>2. CASE announced'[b] = announced[b]
    <3>1. Pending(b) \subseteq Pending(b)'
      BY <1>2, <1>7, <2>1, <2>2 DEF Pending, Readers
    <3>2. Shows(b) => Shows(b)'
      BY <1>2, <2>2 DEF Shows, Latest
    <3>. QED BY <3>1, <3>2 DEF OutboxInv, Covered
  <2>3. CASE announced'[b] # announced[b]
    <3>1. events' = Append(events, Event(a)) /\ b = a
      BY <2>3 DEF Tells, OnlyOf
    <3>2. Len(events) + 1 \in 1..Len(events') /\ events'[Len(events) + 1] = Event(a)
      <4>. HIDE DEF Event
      <4>. QED BY <1>0, <3>1
    <3>3. ~Applied(Len(events) + 1)
      BY <1>1, AppliedIsLocked DEF OutboxInv
    <3>4. \A w \in Readers(a)' : Current(w)' # Len(events) + 1
      BY <1>1, <1>2, <1>7, CurrentIsDue DEF Readers, OutboxInv, Batches, InOrder, Apart
    <3>5. Len(events) + 1 \in Pending(a)'
      BY <1>1, <1>2, <3>2, <3>3, <3>4 DEF Pending, Owed, Event
    <3>. QED BY <3>1, <3>5
  <2>. QED BY <2>2, <2>3
<1>. QED BY <1>4, <1>5, <1>6, <1>9, <1>10, <1>11 DEF OutboxInv

LEMMA ChangesKeep ==
  ASSUME OutboxInv, NEW a \in Accounts, Changes(a)
  PROVE  OutboxInv'
<1>0. /\ accounts \in [Accounts -> AccountRow] /\ positions \in [Accounts -> Nat]
      /\ accounts[a].seq \in Nat /\ accounts[a].money \in Nat
      /\ accounts[a].status \in {"ACTIVE", "LOCKED"} /\ announced \in [Accounts -> Nat]
  BY DEF OutboxInv, Typed, WorkerTyped, AccountRow
<1>1. ASSUME audit(a) PROVE OutboxInv'
  <2>1. accounts' = [accounts EXCEPT ![a] = [accounts[a] EXCEPT !.seq = accounts[a].seq + 1]]
    BY <1>1 DEF audit
  <2>2. [accounts[a] EXCEPT !.seq = accounts[a].seq + 1] \in AccountRow
    BY <1>0 DEF AccountRow
  <2>3. accounts'[a].seq = accounts[a].seq + 1 /\ accounts'[a].money = accounts[a].money
    BY <1>0, <2>1 DEF AccountRow
  <2>4. accounts' \in [Accounts -> AccountRow]
        /\ \A b \in Accounts \ {a} : accounts'[b] = accounts[b]
    BY <1>0, <2>1, <2>2
  <2>5. UNCHANGED <<positions, announced, events, projections, workers>>
    BY <1>1 DEF audit
  <2>6. OnlyOf(a)
    BY <1>0, <2>4, <2>5 DEF OnlyOf
  <2>7. MovesOn(a) /\ Tells(a)
    BY <1>0, <2>3, <2>5 DEF MovesOn, Tells
  <2>. QED BY <2>6, <2>7, ChangeKeeps
<1>2. ASSUME enqueueChange(a) PROVE OutboxInv'
  <2>1. UNCHANGED <<accounts, positions, announced, projections, workers>>
        /\ events' = Append(events, Event(a))
    BY <1>2 DEF enqueueChange, enqueueOutbox, truthVars
  <2>2. OnlyOf(a)
    BY <1>0, <2>1 DEF OnlyOf
  <2>3. MovesOn(a) /\ Tells(a)
    BY <1>0, <2>1 DEF MovesOn, Tells
  <2>. QED BY <2>2, <2>3, ChangeKeeps
<1>3. ASSUME Fill(a) \/ \E entry \in PayoutEntries : Payout(a, entry) PROVE OutboxInv'
  <2>. DEFINE row == [accounts[a] EXCEPT !.seq = accounts[a].seq + 1, !.money = accounts[a].money + 1]
  <2>1. /\ accounts' = [accounts EXCEPT ![a] = row]
        /\ UNCHANGED <<projections, workers>>
        /\ \/ /\ events' = Append(events, Event(a))
              /\ announced' = [announced EXCEPT ![a] = accounts[a].money + 1]
              /\ positions' \in {positions, [positions EXCEPT ![a] = positions[a] + 1]}
           \/ events' = events /\ announced' = announced /\ positions' = positions
    BY <1>3 DEF Fill, Payout, enqueueOutbox
  <2>2. row \in AccountRow /\ row.seq = accounts[a].seq + 1 /\ row.money = accounts[a].money + 1
    <3>1. accounts[a].seq + 1 \in Nat /\ accounts[a].money + 1 \in Nat /\ accounts[a] \in AccountRow
      BY <1>0
    <3>. QED BY <3>1, Zenon DEF AccountRow
  <2>. HIDE DEF row
  <2>3. accounts'[a] = row /\ accounts' \in [Accounts -> AccountRow]
    BY <1>0, <2>1, <2>2
  <2>4. OnlyOf(a)
    <3>1. positions[a] + 1 \in Nat /\ accounts[a].money + 1 \in Nat
      BY <1>0
    <3>. QED BY <1>0, <2>1, <2>3, <3>1 DEF OnlyOf
  <2>5. \/ announced'[a] = announced[a] /\ positions'[a] = positions[a] /\ events' = events
        \/ announced'[a] = accounts[a].money + 1 /\ events' = Append(events, Event(a))
    <3>. HIDE DEF Event
    <3>. QED BY <1>0, <2>1
  <2>6. /\ accounts[a].seq < accounts'[a].seq /\ accounts[a].money < accounts'[a].money
        /\ accounts'[a].money = accounts[a].money + 1
    BY <1>0, <2>2, <2>3
  <2>7. accounts[a].seq <= accounts'[a].seq /\ accounts[a].money <= accounts'[a].money
    BY <1>0, <2>2, <2>3
  <2>8. MovesOn(a) /\ Tells(a)
    BY <2>5, <2>6, <2>7, Zenon DEF MovesOn, Tells
  <2>. QED BY <2>4, <2>8, ChangeKeeps
<1>4. ASSUME NEW reset \in Resets, Transition(a, reset) PROVE OutboxInv'
  <2>. DEFINE status == IF accounts[a].status = "ACTIVE" /\ ~reset THEN "LOCKED" ELSE "ACTIVE"
              money == IF reset THEN accounts[a].money + 1 ELSE accounts[a].money
              row == [accounts[a] EXCEPT !.status = status, !.money = money]
  <2>1. accounts' = [accounts EXCEPT ![a] = row]
    BY <1>0, <1>4 DEF Transition, AccountRow
  <2>2. status \in {"ACTIVE", "LOCKED"} /\ money \in Nat /\ accounts[a].money <= money
        /\ (money # accounts[a].money => TRUE \in Resets)
    <3>1. money # accounts[a].money => TRUE \in Resets
      BY OutboxAssumption
    <3>2. money \in Nat /\ accounts[a].money <= money
      BY <1>0
    <3>. QED BY <3>1, <3>2
  <2>. HIDE DEF status, money
  <2>3. row \in AccountRow /\ row.seq = accounts[a].seq /\ row.money = money
    BY <1>0, <2>2 DEF AccountRow
  <2>. HIDE DEF row
  <2>4. accounts'[a] = row /\ accounts' \in [Accounts -> AccountRow]
    BY <1>0, <2>1, <2>3
  <2>5. /\ events' = Append(events, Event(a))
        /\ UNCHANGED <<positions, announced, projections, workers>>
        /\ \A b \in Accounts \ {a} : accounts'[b] = accounts[b]
    BY <1>0, <1>4, <2>1 DEF Transition, enqueueOutbox
  <2>6. OnlyOf(a)
    BY <1>0, <2>4, <2>5 DEF OnlyOf
  <2>7. accounts'[a].money = money /\ accounts'[a].seq = accounts[a].seq
    BY <2>3, <2>4
  <2>8. accounts[a].seq <= accounts'[a].seq /\ accounts[a].money <= accounts'[a].money
    BY <1>0, <2>2, <2>7
  <2>9. MovesOn(a) /\ Tells(a)
    BY <2>2, <2>5, <2>7, <2>8, Zenon DEF MovesOn, Tells
  <2>. QED BY <2>6, <2>9, ChangeKeeps
<1>. QED BY <1>1, <1>2, <1>3, <1>4 DEF Changes

-------------------------------------------------------------------------------
(* The workers *)

\* A step of a batch that stores nothing: it claims, reads or gives up.
LEMMA WorkerKeeps ==
  ASSUME OutboxInv, NEW w \in Workers, UNCHANGED <<truthVars, events, projections>>,
         \A v \in Workers \ {w} : workers'[v] = workers[v],
         workers'[w].held = workers[w].held,
         DOMAIN workers[w].done \subseteq DOMAIN workers'[w].done,
         \A k \in DOMAIN workers[w].done :
           workers'[w].done[k] = workers[w].done[k] /\ workers'[w].rows[k] = workers[w].rows[k],
         \A k \in DOMAIN workers'[w].done :
           k \in DOMAIN workers[w].done \/ workers'[w].done[k].state # "delivered",
         Reading(w)' =>
           /\ Busy(w) /\ workers'[w].rows = workers[w].rows /\ workers'[w].done = workers[w].done
           /\ \/ workers'[w].read[1] = Row(Subject(w))
              \/ Reading(w) /\ workers'[w].read[1] = workers[w].read[1]
           /\ Len(workers'[w].read) = 2 =>
                \/ workers'[w].read[2] = positions[Subject(w)]
                \/ workers'[w].read = workers[w].read,
         Typed', Batches'
  PROVE  OutboxInv'
<1>1. /\ \A v \in Workers : \A b : Holds(v, b)' = Holds(v, b)
      /\ \A b : Holders(b)' = Holders(b)
      /\ \A v \in Workers : workers'[v].held = workers[v].held
      /\ \A b : \A v \in Holders(b) : v \in Workers
      /\ UNCHANGED <<accounts, positions, announced, events, projections>>
  <2>1. \A v \in Workers : workers'[v].held = workers[v].held
    OBVIOUS
  <2>. QED BY <2>1 DEF Holds, Holders, truthVars
<1>2. \A i : Applied(i)' <=> Applied(i)
  <2>1. ASSUME NEW i, Applied(i) PROVE Applied(i)'
    <3>1. PICK v \in Workers : \E k \in DOMAIN workers[v].done :
            workers[v].rows[k] = i /\ workers[v].done[k].state = "delivered"
      BY <2>1 DEF Applied
    <3>. QED BY <3>1 DEF Applied
  <2>2. ASSUME NEW i, Applied(i)' PROVE Applied(i)
    <3>1. PICK v \in Workers : \E k \in DOMAIN workers'[v].done :
            workers'[v].rows[k] = i /\ workers'[v].done[k].state = "delivered"
      BY <2>2 DEF Applied
    <3>. QED BY <3>1 DEF Applied
  <2>. QED BY <2>1, <2>2
<1>3. \A b : Owed(b)' = Owed(b)
  BY <1>2 DEF Owed
<1>4. \A b : Shows(b)' = Shows(b)
  <2>0. \A b : {workers'[v].held[b] : v \in Holders(b)'} = {workers[v].held[b] : v \in Holders(b)}
    BY <1>1
  <2>1. \A b : Latest(b)' = Latest(b)
    BY <1>1, <2>0 DEF Latest
  <2>. QED BY <1>1, <2>1 DEF Shows
<1>5. \A v \in Workers : Reading(v)' => Current(v)' = Current(v) /\ Subject(v)' = Subject(v)
  BY DEF Current, Subject
<1>6. \A v \in Workers \ {w} : Reading(v)' = Reading(v) /\ Fresh(v)' = Fresh(v)
  BY DEF Reading, Fresh
<1>7. Holding'
  <2>1. \A v \in Workers : \A k \in DOMAIN workers[v].done :
          k \in DOMAIN workers'[v].done /\ workers'[v].done[k] = workers[v].done[k]
    OBVIOUS
  <2>. QED BY <1>1, <2>1 DEF OutboxInv, Holding
<1>8. \A b \in Accounts : Seen(b)' \subseteq Seen(b)
  <2>. SUFFICES ASSUME NEW b \in Accounts, NEW v \in Readers(b)' PROVE workers'[v].read[1] \in Seen(b)
    <3>1. \A b : {workers'[v].held[b].row : v \in Holders(b)'} = {workers[v].held[b].row : v \in Holders(b)}
      BY <1>1
    <3>. QED BY <1>1, <3>1 DEF Seen, Row
  <2>1. v \in Workers /\ Reading(v)' /\ Subject(v) = b
    BY <1>5 DEF Readers
  <2>2. CASE v # w
    BY <1>6, <2>1, <2>2 DEF Seen, Readers
  <2>3. CASE v = w
    BY <2>1, <2>3 DEF Seen, Readers
  <2>. QED BY <2>2, <2>3
<1>9. Ordered'
  BY <1>8 DEF OutboxInv, Ordered, truthVars
<1>10. PositionsFollow'
  <2>. SUFFICES ASSUME NEW b \in Accounts, NEW v \in Readers(b)', Len(workers'[v].read) = 2,
                       announced[b] <= workers'[v].read[1].money
                PROVE  workers'[v].read[2] = positions[b]
    <3>1. \A b \in Accounts : {workers'[v].held[b] : v \in Holders(b)'} = {workers[v].held[b] : v \in Holders(b)}
      BY <1>1
    <3>2. \A b \in Accounts : \A x \in Snapshots(b)' :
            x \in Snapshots(b) \/ \E v \in Readers(b)' : Len(workers'[v].read) = 2 /\ x = Fresh(v)'
      BY <1>1, <3>1 DEF Snapshots
    <3>. QED BY <1>1, <3>2 DEF PositionsFollow, Fresh, OutboxInv
  <2>1. v \in Workers /\ Reading(v)' /\ Subject(v) = b
    BY <1>5 DEF Readers
  <2>2. CASE workers'[v].read = workers[v].read
    <3>1. v \in Readers(b) /\ Fresh(v) \in Snapshots(b)
      BY <2>1, <2>2 DEF Readers, Reading, Snapshots
    <3>. QED BY <2>2, <3>1 DEF OutboxInv, PositionsFollow, Fresh
  <2>. QED BY <2>1, <2>2
<1>11. Covered'
  <2>1. ASSUME NEW b \in Accounts, NEW i \in Pending(b) PROVE i \in Pending(b)'
    <3>1. ASSUME NEW v \in Readers(b)', Current(v)' = i
          PROVE  announced[b] <= workers'[v].read[1].money
      <4>1. v \in Workers /\ Reading(v)' /\ Current(v) = i /\ Subject(v) = b
        BY <1>5, <3>1 DEF Readers
      <4>2. CASE Reading(v) /\ workers'[v].read[1] = workers[v].read[1]
        BY <2>1, <4>1, <4>2 DEF Pending, Readers
      <4>3. CASE workers'[v].read[1] = Row(b)
        <5>1. announced[b] <= accounts[b].money
          BY DEF OutboxInv, Ordered
        <5>. QED BY <4>3, <5>1 DEF Row
      <4>. QED BY <1>6, <4>1, <4>2, <4>3
    <3>. QED BY <1>1, <1>3, <2>1, <3>1 DEF Pending
  <2>. QED BY <1>1, <1>4, <2>1 DEF OutboxInv, Covered
<1>. QED BY <1>7, <1>9, <1>10, <1>11 DEF OutboxInv

LEMMA Replaced ==
  ASSUME Typed, NEW w \in Workers, NEW row, workers' = [workers EXCEPT ![w] = row]
  PROVE  /\ workers'[w] = row /\ workers' = [v \in Workers |-> workers'[v]]
         /\ \A v \in Workers \ {w} : workers'[v] = workers[v]
BY DEF Typed, WorkerTyped

LEMMA RowForm ==
  ASSUME Typed, NEW w \in Workers, NEW x
  PROVE  [workers[w] EXCEPT !.read = x] = [rows |-> workers[w].rows, done |-> workers[w].done,
                                           held |-> workers[w].held, read |-> x]
<1>1. PICK r, d, h, q : workers[w] = [rows |-> r, done |-> d, held |-> h, read |-> q]
  BY DEF Typed, WorkerTyped
<1>2. [workers[w] EXCEPT !.read = x] = [rows |-> r, done |-> d, held |-> h, read |-> x]
  BY <1>1
<1>. QED BY <1>1, <1>2

\* What is left to show when only the row of one worker changes.
LEMMA TypedKept ==
  ASSUME Typed, NEW w \in Workers, UNCHANGED <<accounts, positions, announced, events, projections>>,
         workers' = [v \in Workers |-> workers'[v]],
         \A v \in Workers \ {w} : workers'[v] = workers[v], WorkerTyped(w)'
  PROVE  Typed'
<1>1. \A v \in Workers \ {w} : WorkerTyped(v)'
  BY DEF Typed, WorkerTyped, Reading
<1>. QED BY <1>1 DEF Typed

LEMMA BatchesKept ==
  ASSUME Batches, NEW w \in Workers, UNCHANGED events,
         \A v \in Workers \ {w} : workers'[v] = workers[v], InOrder(w)',
         \A v \in Workers \ {w} : Apart(v, w)'
  PROVE  Batches'
<1>1. \A v \in Workers \ {w} : InOrder(v)'
  BY DEF Batches, InOrder, Reading, Busy
<1>2. \A v, u \in Workers \ {w} : v # u => Apart(v, u)'
  BY DEF Batches, Apart
<1>3. \A v \in Workers \ {w} : Apart(w, v)'
  BY DEF Apart
<1>. QED BY <1>1, <1>2, <1>3 DEF Batches

LEMMA ClaimKeeps == ASSUME OutboxInv, NEW w \in Workers, Claim(w) PROVE OutboxInv'
<1>1. PICK rows \in OldestDue : workers' = [workers EXCEPT ![w] = [Idle EXCEPT !.rows = rows]]
  BY DEF Claim
<1>2. /\ workers[w] = Idle /\ UNCHANGED <<truthVars, events, projections>>
      /\ UNCHANGED <<accounts, positions, announced>>
  BY DEF Claim, truthVars
<1>3. [Idle EXCEPT !.rows = rows] = [rows |-> rows, done |-> <<>>, held |-> <<>>, read |-> <<>>]
  BY DEF Idle
<1>4. /\ workers'[w] = [rows |-> rows, done |-> <<>>, held |-> <<>>, read |-> <<>>]
      /\ workers' = [v \in Workers |-> workers'[v]]
      /\ \A v \in Workers \ {w} : workers'[v] = workers[v]
  BY <1>1, <1>3, Replaced DEF OutboxInv
<1>5. PICK n \in 1..batch : rows \in [1..n -> Due]
  BY DEF OldestDue
<1>6. /\ \A k \in 1..n : /\ rows[k] \in 1..Len(events) /\ events[rows[k]].state = "due"
                         /\ ~Locked(rows[k])
      /\ rows \in Seq(Nat) /\ DOMAIN rows = 1..n
  <2>1. Len(events) \in Nat /\ n \in Nat
    BY OutboxAssumption DEF OutboxInv, Typed, WorkerTyped
  <2>2. \A k \in 1..n : rows[k] \in 1..Len(events) /\ events[rows[k]].state = "due" /\ ~Locked(rows[k])
    BY <1>5 DEF Due
  <2>3. \A k \in 1..n : rows[k] \in Nat
    BY <2>1, <2>2
  <2>. QED BY <1>5, <2>1, <2>2, <2>3
<1>7. \A j, k \in DOMAIN rows : rows[j] = rows[k] => j = k
  <2>1. \A j, k \in DOMAIN rows : j < k => rows[j] < rows[k]
    BY DEF OldestDue
  <2>. QED BY <1>6, <2>1
<1>8. \A v \in Workers : \A j \in DOMAIN workers[v].rows : \A k \in DOMAIN rows : workers[v].rows[j] # rows[k]
  BY <1>6 DEF Locked, LockedRows, Range
<1>9. Typed'
  <2>1. WorkerTyped(w)'
    BY <1>2, <1>4, <1>6 DEF WorkerTyped, Reading
  <2>. QED BY <1>2, <1>4, <2>1, TypedKept DEF OutboxInv
<1>10. Batches'
  <2>1. InOrder(w)'
    BY <1>2, <1>4, <1>6, <1>7 DEF InOrder, Reading
  <2>2. \A v \in Workers \ {w} : Apart(v, w)'
    BY <1>4, <1>8 DEF Apart
  <2>. QED BY <1>2, <1>4, <2>1, <2>2, BatchesKept DEF OutboxInv
<1>11. ~Reading(w)' /\ workers[w].held = <<>> /\ workers[w].done = <<>>
  BY <1>2, <1>4 DEF Reading, Idle
<1>. QED BY <1>2, <1>4, <1>9, <1>10, <1>11, WorkerKeeps

LEMMA ReadsKeep ==
  ASSUME OutboxInv, NEW w \in Workers, ReadAccount(w) \/ ReadPositions(w)
  PROVE  OutboxInv'
<1>1. PICK read : /\ workers' = [workers EXCEPT ![w].read = read]
                  /\ Busy(w) /\ UNCHANGED <<truthVars, events, projections>>
                  /\ \/ workers[w].read = <<>> /\ read = <<Row(Subject(w))>>
                     \/ Len(workers[w].read) = 1 /\ read = Append(workers[w].read, positions[Subject(w)])
  BY DEF ReadAccount, ReadPositions
<1>2. UNCHANGED <<accounts, positions, announced>> /\ Subject(w) \in Accounts
  BY <1>1, CurrentIsDue DEF truthVars, OutboxInv
<1>3. /\ workers'[w] = [rows |-> workers[w].rows, done |-> workers[w].done,
                        held |-> workers[w].held, read |-> read]
      /\ workers' = [v \in Workers |-> workers'[v]]
      /\ \A v \in Workers \ {w} : workers'[v] = workers[v]
  <2>1. workers' = [workers EXCEPT ![w] = [workers[w] EXCEPT !.read = read]]
    BY <1>1
  <2>. QED BY <2>1, RowForm, Replaced DEF OutboxInv
<1>4. Row(Subject(w)) \in AccountRow /\ positions[Subject(w)] \in Nat
  BY <1>2 DEF OutboxInv, Typed, WorkerTyped, AccountRow, Row
<1>5. /\ read \in Seq(AccountRow \cup Nat) /\ Len(read) <= 2 /\ read # <<>>
      /\ read[1] \in AccountRow /\ Len(read) = 2 => read[2] = positions[Subject(w)]
      /\ read[1] = Row(Subject(w)) \/ (Reading(w) /\ read[1] = workers[w].read[1])
  <2>. DEFINE row == Row(Subject(w))
  <2>0. row \in AccountRow
    BY <1>4
  <2>. HIDE DEF row
  <2>1. CASE workers[w].read = <<>> /\ read = <<row>>
    BY <2>0, <2>1 DEF row
  <2>2. CASE Len(workers[w].read) = 1 /\ read = Append(workers[w].read, positions[Subject(w)])
    <3>1. workers[w].read \in Seq(AccountRow \cup Nat)
      BY DEF OutboxInv, Typed, WorkerTyped
    <3>2. Reading(w)
      BY <2>2 DEF Reading
    <3>3. workers[w].read[1] \in AccountRow
      BY <3>2 DEF OutboxInv, Typed, WorkerTyped
    <3>. QED BY <1>4, <2>2, <3>1, <3>2, <3>3
  <2>. QED BY <1>1, <2>1, <2>2 DEF row
<1>6. Typed'
  <2>1. /\ workers'[w].rows = workers[w].rows /\ workers'[w].done = workers[w].done
        /\ workers'[w].held = workers[w].held /\ workers'[w].read = read
        /\ workers'[w] = [rows |-> workers'[w].rows, done |-> workers'[w].done,
                          held |-> workers'[w].held, read |-> workers'[w].read]
    BY <1>3
  <2>2. WorkerTyped(w)
    BY DEF OutboxInv, Typed
  <2>3. WorkerTyped(w)'
    BY <1>1, <1>4, <1>5, <2>1, <2>2 DEF WorkerTyped, Reading
  <2>. QED BY <1>1, <1>2, <1>3, <2>3, TypedKept DEF OutboxInv
<1>7. Batches'
  <2>1. InOrder(w)'
    BY <1>1, <1>3 DEF OutboxInv, Batches, InOrder, Reading, Busy
  <2>2. \A v \in Workers \ {w} : Apart(v, w)'
    BY <1>3 DEF OutboxInv, Batches, Apart
  <2>. QED BY <1>1, <1>3, <2>1, <2>2, BatchesKept DEF OutboxInv
<1>. QED BY <1>1, <1>3, <1>5, <1>6, <1>7, WorkerKeeps

\* What a handler leaves: a row that says how it ended, and nothing read.
Handled(w, row, held) ==
  /\ workers'[w].rows = workers[w].rows /\ workers'[w].held = held /\ ~Reading(w)'
  /\ \A v \in Workers \ {w} : workers'[v] = workers[v]
  /\ \A k \in DOMAIN workers[w].done :
       k \in DOMAIN workers'[w].done /\ workers'[w].done[k] = workers[w].done[k]
  /\ \A k \in DOMAIN workers'[w].done :
       \/ k \in DOMAIN workers[w].done
       \/ workers'[w].done[k] = row /\ workers[w].rows[k] = Current(w)
  /\ \E k \in DOMAIN workers'[w].done :
       workers'[w].done[k] = row /\ workers[w].rows[k] = Current(w)

LEMMA MarkedKeeps ==
  ASSUME OutboxInv, NEW w \in Workers, Busy(w), UNCHANGED <<truthVars, events, projections>>,
         NEW row \in EventRow, row.account = Subject(w),
         NEW held, DOMAIN held \subseteq Accounts, \A a \in DOMAIN held : held[a] \in Shown,
         workers' = [workers EXCEPT ![w] = Marked(w, row, held)]
  PROVE  Handled(w, row, held) /\ Typed' /\ Batches'
<1>. DEFINE done == Append(workers[w].done, row)
<1>1. UNCHANGED <<accounts, positions, announced, events, projections>>
  BY DEF truthVars
<1>2. /\ workers'[w] = [rows |-> workers[w].rows, done |-> done, held |-> held, read |-> <<>>]
      /\ workers' = [v \in Workers |-> workers'[v]]
      /\ \A v \in Workers \ {w} : workers'[v] = workers[v]
  <2>1. workers' = [workers EXCEPT ![w] = [rows |-> workers[w].rows, done |-> done,
                                           held |-> held, read |-> <<>>]]
    BY DEF Marked
  <2>. HIDE DEF done
  <2>. QED BY <2>1, Replaced DEF OutboxInv
<1>4. /\ workers[w].done \in Seq(EventRow) /\ done \in Seq(EventRow)
      /\ Len(done) = Len(workers[w].done) + 1 /\ Len(done) \in DOMAIN done /\ done[Len(done)] = row
      /\ \A k \in DOMAIN workers[w].done : k \in DOMAIN done /\ done[k] = workers[w].done[k]
      /\ \A k \in DOMAIN done : k \in DOMAIN workers[w].done \/ k = Len(done)
  BY DEF OutboxInv, Typed, WorkerTyped
<1>5. Len(done) \in DOMAIN workers[w].rows /\ workers[w].rows[Len(done)] = Current(w)
      /\ Len(done) <= Len(workers[w].rows)
  <2>1. workers[w].rows \in Seq(Nat)
    BY DEF OutboxInv, Typed, WorkerTyped
  <2>. QED BY <1>4, <2>1, CurrentIsDue DEF OutboxInv, Current
<1>. HIDE DEF done
<1>6. Typed'
  <2>1. /\ workers'[w].rows = workers[w].rows /\ workers'[w].done = done
        /\ workers'[w].held = held /\ workers'[w].read = <<>>
        /\ workers'[w] = [rows |-> workers'[w].rows, done |-> workers'[w].done,
                          held |-> workers'[w].held, read |-> workers'[w].read]
    BY <1>2
  <2>2. /\ workers[w].rows \in Seq(Nat)
        /\ \A k \in DOMAIN workers[w].rows : workers[w].rows[k] \in 1..Len(events')
    BY <1>1 DEF OutboxInv, Typed, WorkerTyped
  <2>3. workers'[w].read \in Seq(AccountRow \cup Nat) /\ Len(workers'[w].read) = 0
    <3>1. <<>> \in Seq(AccountRow \cup Nat) /\ Len(<<>>) = 0
      OBVIOUS
    <3>. QED BY <2>1, <3>1, Zenon
  <2>4. WorkerTyped(w)'
    BY <1>4, <2>1, <2>2, <2>3 DEF WorkerTyped, Reading
  <2>. QED BY <1>1, <1>2, <2>4, TypedKept DEF OutboxInv
<1>7. Batches'
  <2>1. \A k \in DOMAIN done : done[k].account = events[workers[w].rows[k]].account
    BY <1>4, <1>5 DEF OutboxInv, Batches, InOrder, Subject
  <2>2. InOrder(w)'
    BY <1>1, <1>2, <1>5, <2>1 DEF OutboxInv, Batches, InOrder, Reading
  <2>3. \A v \in Workers \ {w} : Apart(v, w)'
    BY <1>2 DEF OutboxInv, Batches, Apart
  <2>. QED BY <1>1, <1>2, <2>2, <2>3, BatchesKept DEF OutboxInv
<1>8. ~Reading(w)'
  BY <1>2 DEF Reading
<1>. QED BY <1>2, <1>4, <1>5, <1>6, <1>7, <1>8 DEF Handled

\* A handler that fails leaves its event to be tried again, or parked.
LEMMA FailsKeeps == ASSUME OutboxInv, NEW w \in Workers, Fails(w) PROVE OutboxInv'
<1>. DEFINE row == FailedRow(events[Current(w)])
<1>1. /\ UNCHANGED <<truthVars, events, projections>> /\ Busy(w)
      /\ workers' = [workers EXCEPT ![w] = Marked(w, row, workers[w].held)]
  BY DEF Fails
<1>2. DOMAIN workers[w].held \subseteq Accounts /\ \A a \in DOMAIN workers[w].held : workers[w].held[a] \in Shown
  BY DEF OutboxInv, Typed, WorkerTyped
<1>3. row \in EventRow /\ row.account = Subject(w) /\ row.state # "delivered"
  <2>1. events[Current(w)] \in EventRow
    BY <1>1, CurrentIsDue DEF OutboxInv
  <2>. DEFINE e == events[Current(w)]
              attempts == IF e.attempts < maxAttempts THEN e.attempts + 1 ELSE e.attempts
              state == IF attempts >= maxAttempts THEN "dead" ELSE "backoff"
  <2>2. attempts \in Nat /\ state \in {"dead", "backoff"}
    BY <2>1, OutboxAssumption DEF EventRow
  <2>3. row = [e EXCEPT !.attempts = attempts, !.state = state]
    BY DEF FailedRow
  <2>. HIDE DEF attempts, state, row
  <2>. QED BY <2>1, <2>2, <2>3, Zenon DEF EventRow, Subject
<1>. HIDE DEF row
<1>4. Handled(w, row, workers[w].held) /\ Typed' /\ Batches'
  <2>1. PICK r \in EventRow : r = row
    BY <1>3
  <2>2. PICK held : held = workers[w].held
    OBVIOUS
  <2>3. /\ workers' = [workers EXCEPT ![w] = Marked(w, r, held)] /\ r.account = Subject(w)
        /\ DOMAIN held \subseteq Accounts /\ \A a \in DOMAIN held : held[a] \in Shown
    BY <1>1, <1>2, <1>3, <2>1, <2>2
  <2>. QED BY <1>1, <2>1, <2>2, <2>3, MarkedKeeps
<1>. QED BY <1>1, <1>3, <1>4, WorkerKeeps DEF Handled

\* A worker that is about to write what it has read: nobody else holds the
\* projection, and of what is stored and what it has read the newer is kept.
LEMMA UpsertedIsNewer ==
  ASSUME OutboxInv, NEW w \in Workers, Ready(w), \A v \in Workers : ~WaitsFor(w, v),
         NEW a, a = Subject(w)
  PROVE  /\ a \in Accounts /\ w \in Readers(a)
         /\ Holders(a) \subseteq {w} /\ Latest(a) = {Stored(w, a)}
         /\ Upserted(w, a) \in Snapshots(a) /\ Upserted(w, a) \in Shown
         /\ projections[a].row.seq <= Upserted(w, a).row.seq
         /\ \/ announced[a] <= Stored(w, a).row.money
            \/ announced[a] <= Fresh(w).row.money
            => announced[a] <= Upserted(w, a).row.money
<1>1. a \in Accounts /\ Reading(w) /\ w \in Readers(a)
  BY CurrentIsDue DEF Ready, OutboxInv, Reading, Readers
<1>2. Holders(a) \subseteq {w}
  BY DEF Holders, WaitsFor
<1>3. Latest(a) = {Stored(w, a)}
  <2>1. CASE Holders(a) = {}
    BY <2>1 DEF Latest, Stored, Holders
  <2>2. CASE Holders(a) = {w}
    <3>1. {workers[v].held[a] : v \in Holders(a)} = {workers[w].held[a]}
      BY <2>2
    <3>2. Holds(w, a)
      BY <2>2 DEF Holders
    <3>. QED BY <2>2, <3>1, <3>2 DEF Latest, Stored
  <2>. QED BY <1>2, <2>1, <2>2
<1>4. Stored(w, a) \in Snapshots(a) /\ Stored(w, a) \in Shown /\ projections[a] \in Shown
      /\ projections[a] \in Snapshots(a)
  BY <1>1 DEF Stored, Snapshots, Holders, OutboxInv, Typed, WorkerTyped, Holds
<1>5. Fresh(w) \in Snapshots(a) /\ Fresh(w) \in Shown
  BY <1>1 DEF Ready, Snapshots, Fresh, Shown, OutboxInv, Typed, WorkerTyped
<1>6. projections[a].row.seq <= Stored(w, a).row.seq
  <2>1. CASE Holds(w, a)
    BY <1>1, <2>1 DEF Stored, OutboxInv, Holding, Holders
  <2>2. CASE ~Holds(w, a)
    BY <1>4, <2>2 DEF Stored, Shown, AccountRow
  <2>. QED BY <2>1, <2>2
<1>7. Upserted(w, a) \in {Stored(w, a), Fresh(w)}
  BY DEF Upserted
<1>8. Stored(w, a).row \in Seen(a) /\ Fresh(w).row \in Seen(a)
  BY <1>1, <1>4, <1>5, SnapshotsAreSeen
<1>9. /\ Stored(w, a).row.seq \in Nat /\ Fresh(w).row.seq \in Nat /\ projections[a].row.seq \in Nat
      /\ Stored(w, a).row.money \in Nat /\ Fresh(w).row.money \in Nat
  BY <1>4, <1>5 DEF Shown, AccountRow
<1>10. /\ Stored(w, a).row.seq <= Fresh(w).row.seq /\ announced[a] <= Stored(w, a).row.money
            => announced[a] <= Fresh(w).row.money
       /\ Fresh(w).row.seq <= Stored(w, a).row.seq /\ announced[a] <= Fresh(w).row.money
            => announced[a] <= Stored(w, a).row.money
  BY <1>1, <1>8 DEF OutboxInv, Ordered
<1>11. CASE Stored(w, a).row.seq <= Fresh(w).row.seq
  <2>1. Upserted(w, a) = Fresh(w)
    BY <1>11 DEF Upserted
  <2>. QED BY <1>1, <1>2, <1>3, <1>5, <1>6, <1>9, <1>10, <1>11, <2>1
<1>12. CASE ~(Stored(w, a).row.seq <= Fresh(w).row.seq)
  <2>1. Upserted(w, a) = Stored(w, a)
    BY <1>12 DEF Upserted
  <2>. QED BY <1>1, <1>2, <1>3, <1>4, <1>6, <1>9, <1>10, <1>12, <2>1
<1>. QED BY <1>11, <1>12

\* A handler that succeeds owes its event no longer, and has shown the account.
LEMMA ProjectKeeps == ASSUME OutboxInv, NEW w \in Workers, projectAccount(w) PROVE OutboxInv'
<1>1. PICK a : a = Subject(w)
  OBVIOUS
<1>2. PICK up : up = Upserted(w, a)
  OBVIOUS
<1>3. PICK i : i = Current(w)
  OBVIOUS
<1>4. /\ a \in Accounts /\ w \in Readers(a) /\ Busy(w) /\ Holders(a) \subseteq {w}
      /\ Latest(a) = {Stored(w, a)} /\ up \in Snapshots(a) /\ up \in Shown
      /\ projections[a].row.seq <= up.row.seq
      /\ \/ announced[a] <= Stored(w, a).row.money \/ announced[a] <= Fresh(w).row.money
         => announced[a] <= up.row.money
  BY <1>1, <1>2, UpsertedIsNewer DEF projectAccount, Ready
<1>5. PICK row \in EventRow : /\ row = [events[i] EXCEPT !.state = "delivered"]
                             /\ row.account = a /\ row.state = "delivered"
  <2>1. events[i] \in EventRow /\ events[i].account = a
    BY <1>1, <1>3, <1>4, CurrentIsDue DEF OutboxInv, Subject
  <2>2. /\ [events[i] EXCEPT !.state = "delivered"] \in EventRow
        /\ [events[i] EXCEPT !.state = "delivered"].account = a
        /\ [events[i] EXCEPT !.state = "delivered"].state = "delivered"
    BY <2>1 DEF EventRow
  <2>. QED BY <2>2
<1>6. PICK held : held = [b \in DOMAIN workers[w].held \cup {a} |->
                            IF b = a THEN up ELSE workers[w].held[b]]
  OBVIOUS
<1>7. /\ UNCHANGED <<truthVars, events, projections>> /\ UNCHANGED <<accounts, positions, announced>>
      /\ workers' = [workers EXCEPT ![w] = Marked(w, row, held)]
  BY <1>1, <1>2, <1>3, <1>5, <1>6 DEF projectAccount, truthVars
<1>8. DOMAIN held \subseteq Accounts /\ \A b \in DOMAIN held : held[b] \in Shown
  BY <1>4, <1>6 DEF OutboxInv, Typed, WorkerTyped
<1>9. Handled(w, row, held) /\ Typed' /\ Batches'
  BY <1>1, <1>4, <1>5, <1>7, <1>8, MarkedKeeps
<1>10. /\ \A v \in Workers \ {w} : workers'[v] = workers[v]
       /\ \A v \in Workers : \A b \in Accounts \ {a} : Holds(v, b)' = Holds(v, b)
       /\ \A b \in Accounts \ {a} : Holders(b)' = Holders(b)
       /\ Holders(a)' = {w} /\ workers'[w].held[a] = up
       /\ \A b \in Accounts \ {a} : \A v \in Holders(b) : workers'[v].held[b] = workers[v].held[b]
  <2>1. workers'[w].held = held /\ \A v \in Workers \ {w} : workers'[v] = workers[v]
    BY <1>9 DEF Handled
  <2>2. DOMAIN held = DOMAIN workers[w].held \cup {a} /\ held[a] = up
        /\ \A b \in DOMAIN workers[w].held \ {a} : held[b] = workers[w].held[b]
    BY <1>6
  <2>3. \A v \in Workers : \A b \in Accounts \ {a} : Holds(v, b)' = Holds(v, b)
    BY <2>1, <2>2 DEF Holds
  <2>4. Holders(a)' = {w}
    BY <1>4, <2>1, <2>2 DEF Holders, Holds
  <2>5. \A b \in Accounts \ {a} : \A v \in Holders(b) : workers'[v].held[b] = workers[v].held[b]
    BY <2>1, <2>2 DEF Holders, Holds
  <2>6. \A b \in Accounts \ {a} : Holders(b)' = Holders(b)
    BY <2>3 DEF Holders
  <2>. QED BY <2>1, <2>2, <2>3, <2>4, <2>5, <2>6
<1>11. \A j : Applied(j)' <=> Applied(j) \/ j = i
  <2>1. ASSUME NEW j, Applied(j) PROVE Applied(j)'
    <3>1. PICK v \in Workers : \E k \in DOMAIN workers[v].done :
            workers[v].rows[k] = j /\ workers[v].done[k].state = "delivered"
      BY <2>1 DEF Applied
    <3>. QED BY <1>9, <3>1 DEF Applied, Handled
  <2>2. ASSUME NEW j, Applied(j)' PROVE Applied(j) \/ j = i
    <3>1. PICK v \in Workers : \E k \in DOMAIN workers'[v].done :
            workers'[v].rows[k] = j /\ workers'[v].done[k].state = "delivered"
      BY <2>2 DEF Applied
    <3>2. CASE v # w
      BY <1>10, <3>1, <3>2 DEF Applied
    <3>3. CASE v = w
      BY <1>3, <1>9, <3>1, <3>3 DEF Applied, Handled
    <3>. QED BY <3>2, <3>3
  <2>3. Applied(i)'
    <3>1. PICK k \in DOMAIN workers'[w].done : workers'[w].done[k] = row /\ workers[w].rows[k] = i
      BY <1>3, <1>9 DEF Handled
    <3>2. workers'[w].rows = workers[w].rows
      BY <1>9 DEF Handled
    <3>3. workers'[w].rows[k] = i /\ workers'[w].done[k].state = "delivered"
      BY <1>5, <3>1, <3>2
    <3>. QED BY <3>3, Zenon DEF Applied
  <2>. QED BY <2>1, <2>2, <2>3
<1>12. /\ i \in Owed(a) /\ \A b \in Accounts \ {a} : Owed(b)' = Owed(b)
       /\ Owed(a)' = Owed(a) \ {i}
  <2>1. i \in Owed(a)
    BY <1>1, <1>3, <1>4, CurrentIsOwed DEF OutboxInv
  <2>2. \A b \in Accounts \ {a} : i \notin Owed(b)
    BY <1>1, <1>3 DEF Owed, Subject
  <2>. QED BY <1>7, <1>11, <2>1, <2>2 DEF Owed
<1>13. /\ \A b : Readers(b)' = Readers(b) \ {w}
       /\ \A v \in Workers \ {w} : /\ Reading(v)' = Reading(v) /\ Fresh(v)' = Fresh(v)
                                  /\ Current(v)' = Current(v) /\ Subject(v)' = Subject(v)
  <2>1. \A v \in Workers \ {w} : /\ Reading(v)' = Reading(v) /\ Fresh(v)' = Fresh(v)
                                 /\ Current(v)' = Current(v) /\ Subject(v)' = Subject(v)
    BY <1>7, <1>10 DEF Reading, Fresh, Current, Subject
  <2>2. ~Reading(w)'
    BY <1>9 DEF Handled
  <2>. QED BY <2>1, <2>2 DEF Readers
<1>14. Holding'
  <2>1. \A b \in Accounts : \A v, u \in Holders(b)' : v = u
    BY <1>10 DEF OutboxInv, Holding
  <2>2. ASSUME NEW b \in Accounts, NEW v \in Holders(b)'
        PROVE  /\ \E k \in DOMAIN workers'[v].done :
                    workers'[v].done[k].state = "delivered" /\ workers'[v].done[k].account = b
               /\ projections'[b].row.seq <= workers'[v].held[b].row.seq
    <3>1. CASE b = a
      <4>1. v = w /\ workers'[v].held[b] = up
        BY <1>10, <2>2, <3>1
      <4>2. PICK k \in DOMAIN workers'[w].done : workers'[w].done[k] = row
        BY <1>9 DEF Handled
      <4>. QED BY <1>4, <1>5, <1>7, <3>1, <4>1, <4>2
    <3>2. CASE b # a
      <4>1. v \in Holders(b) /\ workers'[v].held[b] = workers[v].held[b] /\ v \in Workers
        BY <1>10, <2>2, <3>2 DEF Holders
      <4>2. \A k \in DOMAIN workers[v].done :
              k \in DOMAIN workers'[v].done /\ workers'[v].done[k] = workers[v].done[k]
        BY <1>9, <4>1 DEF Handled
      <4>. QED BY <1>7, <4>1, <4>2 DEF OutboxInv, Holding
    <3>. QED BY <3>1, <3>2
  <2>. QED BY <2>1, <2>2 DEF Holding
<1>15. \A b \in Accounts : Snapshots(b)' \subseteq Snapshots(b)
  <2>. SUFFICES ASSUME NEW b \in Accounts, NEW x \in Snapshots(b)' PROVE x \in Snapshots(b)
    OBVIOUS
  <2>1. ASSUME NEW v \in Holders(b)', x = workers'[v].held[b] PROVE x \in Snapshots(b)
    <3>1. CASE b = a
      BY <1>4, <1>10, <2>1, <3>1
    <3>2. CASE b # a
      BY <1>10, <2>1, <3>2 DEF Snapshots
    <3>. QED BY <3>1, <3>2
  <2>2. ASSUME NEW v \in Readers(b)', Len(workers'[v].read) = 2, x = Fresh(v)'
        PROVE  x \in Snapshots(b)
    <3>1. v \in Readers(b) /\ v # w /\ v \in Workers
      BY <1>13, <2>2 DEF Readers
    <3>. QED BY <1>10, <1>13, <2>2, <3>1 DEF Snapshots
  <2>. QED BY <1>7, <2>1, <2>2 DEF Snapshots
<1>16. \A b \in Accounts : Seen(b)' \subseteq Seen(b)
  <2>. SUFFICES ASSUME NEW b \in Accounts, NEW x \in Seen(b)' PROVE x \in Seen(b)
    OBVIOUS
  <2>1. ASSUME NEW v \in Holders(b)', x = workers'[v].held[b].row PROVE x \in Seen(b)
    <3>1. workers'[v].held[b] \in Snapshots(b)'
      BY <2>1 DEF Snapshots
    <3>. QED BY <1>15, <2>1, <3>1, SnapshotsAreSeen
  <2>2. ASSUME NEW v \in Readers(b)', x = workers'[v].read[1] PROVE x \in Seen(b)
    <3>1. v \in Readers(b) /\ v # w /\ v \in Workers
      BY <1>13, <2>2 DEF Readers
    <3>. QED BY <1>10, <2>2, <3>1 DEF Seen
  <2>. QED BY <1>7, <2>1, <2>2 DEF Seen, Row
<1>17. Ordered' /\ PositionsFollow'
  BY <1>7, <1>15, <1>16 DEF OutboxInv, Ordered, PositionsFollow
<1>18. Covered'
  <2>. SUFFICES ASSUME NEW b \in Accounts PROVE Pending(b)' # {} \/ Shows(b)'
    BY DEF Covered
  <2>1. ASSUME NEW j \in Pending(b), j # i \/ b # a PROVE j \in Pending(b)'
    <3>1. \A v \in Readers(b)' : v \in Readers(b) /\ workers'[v] = workers[v] /\ Current(v)' = Current(v)
      BY <1>10, <1>13 DEF Readers
    <3>2. j \in Owed(b)'
      BY <1>12, <2>1 DEF Pending
    <3>. QED BY <1>7, <2>1, <3>1, <3>2 DEF Pending
  <2>2. CASE b # a
    <3>1. Shows(b)' = Shows(b)
      <4>1. {workers'[v].held[b] : v \in Holders(b)'} = {workers[v].held[b] : v \in Holders(b)}
        BY <1>10, <2>2
      <4>2. Latest(b)' = Latest(b)
        BY <1>7, <1>10, <2>2, <4>1 DEF Latest
      <4>. QED BY <1>7, <4>2 DEF Shows
    <3>. QED BY <2>1, <2>2, <3>1 DEF OutboxInv, Covered
  <2>3. CASE b = a
    <3>1. Shows(a)' <=> announced[a] <= up.row.money
      <4>1. {workers'[v].held[a] : v \in Holders(a)'} = {up}
        BY <1>10
      <4>2. Latest(a)' = {up}
        BY <1>10, <4>1 DEF Latest
      <4>. QED BY <1>7, <4>2 DEF Shows
    <3>3. CASE Shows(a)
      BY <1>4, <2>3, <3>1, <3>3 DEF Shows
    <3>4. CASE i \in Pending(a)
      <4>1. announced[a] <= Fresh(w).row.money
        BY <1>3, <1>4, <3>4 DEF Pending, Fresh
      <4>. QED BY <1>4, <2>3, <3>1, <4>1
    <3>5. CASE Pending(a) # {} /\ i \notin Pending(a)
      BY <2>1, <2>3, <3>5
    <3>. QED BY <1>4, <2>3, <3>3, <3>4, <3>5 DEF OutboxInv, Covered
  <2>. QED BY <2>2, <2>3
<1>. QED BY <1>9, <1>14, <1>17, <1>18 DEF OutboxInv

\* A batch that has ended holds nothing any more.
LEMMA LetGo ==
  ASSUME Typed, Batches, NEW w \in Workers, workers' = [workers EXCEPT ![w] = Idle]
  PROVE  /\ workers'[w] = Idle /\ workers' = [v \in Workers |-> workers'[v]]
         /\ \A v \in Workers \ {w} : workers'[v] = workers[v]
         /\ ~Reading(w)' /\ WorkerTyped(w)' /\ InOrder(w)' /\ \A v \in Workers : Apart(v, w)' /\ Apart(w, v)'
         /\ \A b : Holders(b)' = Holders(b) \ {w}
         /\ \A j : Applied(j)' <=> \E v \in Workers \ {w} : \E k \in DOMAIN workers[v].done :
                     workers[v].rows[k] = j /\ workers[v].done[k].state = "delivered"
<1>1. /\ workers'[w] = Idle /\ workers' = [v \in Workers |-> workers'[v]]
      /\ \A v \in Workers \ {w} : workers'[v] = workers[v]
  BY DEF Typed
<1>2. /\ workers'[w].rows = <<>> /\ workers'[w].done = <<>> /\ workers'[w].held = <<>>
      /\ workers'[w].read = <<>>
      /\ workers'[w] = [rows |-> workers'[w].rows, done |-> workers'[w].done,
                        held |-> workers'[w].held, read |-> workers'[w].read]
  BY <1>1 DEF Idle
<1>3. ~Reading(w)'
  BY <1>2 DEF Reading
<1>4. WorkerTyped(w)' /\ InOrder(w)'
  <2>1. <<>> \in Seq(Nat) /\ <<>> \in Seq(EventRow) /\ <<>> \in Seq(AccountRow \cup Nat) /\ Len(<<>>) = 0
        /\ DOMAIN <<>> = {}
    OBVIOUS
  <2>2. WorkerTyped(w)'
    <3>1. /\ workers'[w].rows \in Seq(Nat) /\ workers'[w].done \in Seq(EventRow)
          /\ workers'[w].read \in Seq(AccountRow \cup Nat) /\ Len(workers'[w].read) = 0
          /\ DOMAIN workers'[w].rows = {} /\ DOMAIN workers'[w].held = {}
      BY <1>2, <2>1, Zenon
    <3>. QED BY <1>2, <1>3, <3>1 DEF WorkerTyped
  <2>3. InOrder(w)'
    BY <1>2, <1>3, <2>1 DEF InOrder
  <2>. QED BY <2>2, <2>3
<1>5. \A v \in Workers : Apart(v, w)' /\ Apart(w, v)'
  BY <1>2 DEF Apart
<1>6. \A b : Holders(b)' = Holders(b) \ {w}
  <2>1. \A b : ~Holds(w, b)'
    BY <1>2 DEF Holds
  <2>2. \A v \in Workers \ {w} : \A b : Holds(v, b)' = Holds(v, b)
    BY <1>1 DEF Holds
  <2>. QED BY <2>1, <2>2 DEF Holders
<1>7. ASSUME NEW j
      PROVE  Applied(j)' <=> \E v \in Workers \ {w} : \E k \in DOMAIN workers[v].done :
               workers[v].rows[k] = j /\ workers[v].done[k].state = "delivered"
  <2>1. DOMAIN workers'[w].done = {}
    BY <1>2
  <2>. QED BY <1>1, <2>1 DEF Applied
<1>. QED BY <1>1, <1>3, <1>4, <1>5, <1>6, <1>7

\* What the transaction of a dead worker had stored is undone, and so is its
\* claim: the event that it had handled is owed again.
LEMMA CrashKeeps == ASSUME OutboxInv, NEW w \in Workers, Crash(w) PROVE OutboxInv'
<1>1. /\ UNCHANGED <<truthVars, events, projections>> /\ UNCHANGED <<accounts, positions, announced>>
      /\ workers' = [workers EXCEPT ![w] = Idle]
  BY DEF Crash, truthVars
<1>2. /\ workers'[w] = Idle /\ workers' = [v \in Workers |-> workers'[v]]
      /\ \A v \in Workers \ {w} : workers'[v] = workers[v]
      /\ ~Reading(w)' /\ WorkerTyped(w)' /\ InOrder(w)' /\ \A v \in Workers : Apart(v, w)' /\ Apart(w, v)'
      /\ \A b : Holders(b)' = Holders(b) \ {w}
      /\ \A j : Applied(j)' <=> \E v \in Workers \ {w} : \E k \in DOMAIN workers[v].done :
                  workers[v].rows[k] = j /\ workers[v].done[k].state = "delivered"
  BY <1>1, LetGo DEF OutboxInv
<1>3. Typed' /\ Batches'
  BY <1>1, <1>2, TypedKept, BatchesKept DEF OutboxInv
<1>4. Holding'
  <2>1. \A b \in Accounts : \A v \in Holders(b)' : v \in Holders(b) /\ workers'[v] = workers[v]
    BY <1>2 DEF Holders
  <2>. QED BY <1>1, <2>1 DEF OutboxInv, Holding
<1>5. /\ \A b : Readers(b)' = Readers(b) \ {w}
      /\ \A v \in Workers \ {w} : Current(v)' = Current(v) /\ Fresh(v)' = Fresh(v)
  BY <1>1, <1>2 DEF Readers, Reading, Subject, Current, Fresh
<1>6. \A b \in Accounts : Snapshots(b)' \subseteq Snapshots(b) /\ Seen(b)' \subseteq Seen(b)
  <2>. TAKE b \in Accounts
  <2>1. \A v \in Holders(b)' : v \in Holders(b) /\ workers'[v] = workers[v]
    BY <1>2 DEF Holders
  <2>2. \A v \in Readers(b)' : v \in Readers(b) /\ workers'[v] = workers[v] /\ Fresh(v)' = Fresh(v)
    BY <1>2, <1>5 DEF Readers
  <2>3. Snapshots(b)' \subseteq Snapshots(b)
    BY <1>1, <2>1, <2>2 DEF Snapshots
  <2>4. Seen(b)' \subseteq Seen(b)
    BY <1>1, <2>1, <2>2 DEF Seen, Row
  <2>. QED BY <2>3, <2>4
<1>7. Ordered' /\ PositionsFollow'
  BY <1>1, <1>6 DEF OutboxInv, Ordered, PositionsFollow
<1>8. Covered'
  <2>. SUFFICES ASSUME NEW b \in Accounts PROVE Pending(b)' # {} \/ Shows(b)'
    BY DEF Covered
  <2>1. Owed(b) \subseteq Owed(b)'
    <3>1. \A j : Applied(j)' => Applied(j)
      BY <1>2 DEF Applied
    <3>. QED BY <1>1, <3>1 DEF Owed
  <2>2. \A v \in Readers(b)' : /\ v \in Readers(b) /\ workers'[v] = workers[v]
                               /\ Current(v)' = Current(v)
    BY <1>2, <1>5 DEF Readers
  <2>3. Pending(b) \subseteq Pending(b)'
    BY <1>1, <2>1, <2>2 DEF Pending
  <2>4. CASE w \notin Holders(b)
    <3>1. {workers'[v].held[b] : v \in Holders(b)'} = {workers[v].held[b] : v \in Holders(b)}
      BY <1>2, <2>4 DEF Holders
    <3>2. Latest(b)' = Latest(b)
      <4>1. Holders(b)' = Holders(b) /\ projections'[b] = projections[b]
        BY <1>1, <1>2, <2>4
      <4>. QED BY <3>1, <4>1 DEF Latest
    <3>3. Shows(b)' = Shows(b)
      BY <1>1, <3>2 DEF Shows
    <3>. QED BY <2>3, <3>3 DEF OutboxInv, Covered
  <2>5. CASE w \in Holders(b)
    <3>1. PICK k \in DOMAIN workers[w].done :
            workers[w].done[k].state = "delivered" /\ workers[w].done[k].account = b
      BY <2>5 DEF OutboxInv, Holding
    <3>2. PICK j : j = workers[w].rows[k]
      OBVIOUS
    <3>3. j \in 1..Len(events) /\ events[j].state = "due" /\ events[j].account = b
      <4>1. Applied(j)
        BY <3>1, <3>2 DEF Applied
      <4>2. events[j].account = b
        BY <3>1, <3>2 DEF OutboxInv, Batches, InOrder
      <4>. QED BY <4>1, <4>2, AppliedIsLocked DEF OutboxInv
    <3>4. k \in DOMAIN workers[w].rows
      BY DEF OutboxInv, Typed, WorkerTyped, Batches, InOrder
    <3>5. \A v \in Workers \ {w} : \A n \in DOMAIN workers[v].rows : workers[v].rows[n] # j
      BY <3>2, <3>4 DEF OutboxInv, Batches, Apart
    <3>6. ~Applied(j)'
      <4>1. \A v \in Workers : DOMAIN workers[v].done \subseteq DOMAIN workers[v].rows
        BY DEF OutboxInv, Typed, WorkerTyped, Batches, InOrder
      <4>. QED BY <1>2, <3>5, <4>1
    <3>7. \A v \in Readers(b)' : Current(v)' # j
      <4>. TAKE v \in Readers(b)'
      <4>1. v \in Workers \ {w} /\ Reading(v) /\ Current(v)' = Current(v)
        BY <1>2, <2>2 DEF Readers
      <4>2. Len(workers[v].done) + 1 \in DOMAIN workers[v].rows
        BY <4>1, CurrentIsDue DEF OutboxInv, Batches, InOrder
      <4>. QED BY <3>5, <4>1, <4>2 DEF Current
    <3>8. j \in Pending(b)'
      BY <1>1, <3>3, <3>6, <3>7 DEF Pending, Owed
    <3>. QED BY <3>8
  <2>. QED BY <2>4, <2>5
<1>. QED BY <1>3, <1>4, <1>7, <1>8 DEF OutboxInv

\* The timer and the operators touch only events that no batch has locked.
LEMMA RearmKeeps ==
  ASSUME OutboxInv, NEW i \in 1..MaxEvents, BackoffOver(i) \/ retryJob(i)
  PROVE  OutboxInv'
<1>1. /\ i \in 1..Len(events) /\ events[i].state # "delivered" /\ ~Locked(i)
      /\ events' = [events EXCEPT ![i] = [events[i] EXCEPT !.state = "due"]]
      /\ UNCHANGED <<truthVars, projections, workers>> /\ UNCHANGED <<accounts, positions, announced>>
  BY OutboxAssumption DEF BackoffOver, retryJob, truthVars
<1>2. events \in Seq(EventRow) /\ events[i] \in EventRow /\ Len(events) \in Nat
  BY <1>1 DEF OutboxInv, Typed
<1>3. PICK row \in EventRow : /\ row = [events[i] EXCEPT !.state = "due"] /\ row.state = "due"
                             /\ row.account = events[i].account
  <2>1. /\ [events[i] EXCEPT !.state = "due"] \in EventRow
        /\ [events[i] EXCEPT !.state = "due"].state = "due"
        /\ [events[i] EXCEPT !.state = "due"].account = events[i].account
    BY <1>2 DEF EventRow
  <2>. QED BY <2>1
<1>4. /\ events' \in Seq(EventRow) /\ Len(events') = Len(events)
      /\ events'[i] = row /\ \A j \in 1..Len(events) \ {i} : events'[j] = events[j]
  <2>1. events' = [events EXCEPT ![i] = row]
    BY <1>1, <1>3
  <2>. QED BY <1>1, <1>2, <2>1
<1>5. /\ \A j \in 1..Len(events) : /\ events'[j].account = events[j].account
                                   /\ events'[j].state = "delivered" <=> events[j].state = "delivered"
      /\ \A w \in Workers : \A k \in DOMAIN workers[w].rows :
           events'[workers[w].rows[k]] = events[workers[w].rows[k]]
  <2>1. \A w \in Workers : \A k \in DOMAIN workers[w].rows :
          workers[w].rows[k] \in 1..Len(events) /\ workers[w].rows[k] # i
    BY <1>1 DEF OutboxInv, Typed, WorkerTyped, Locked, LockedRows, Range
  <2>. QED BY <1>1, <1>3, <1>4, <2>1
<1>6. /\ \A w \in Workers : /\ Busy(w)' = Busy(w) /\ Reading(w)' = Reading(w)
                            /\ Current(w)' = Current(w) /\ Fresh(w)' = Fresh(w)
      /\ \A b : Holders(b)' = Holders(b)
      /\ \A j : Applied(j)' = Applied(j)
  BY <1>1 DEF Busy, Reading, Current, Fresh, Holds, Holders, Applied
<1>7. Typed'
  BY <1>1, <1>4 DEF OutboxInv, Typed, WorkerTyped, Reading
<1>8. Batches'
  <2>1. \A w \in Workers : DOMAIN workers[w].done \subseteq DOMAIN workers[w].rows
    BY DEF OutboxInv, Typed, WorkerTyped, Batches, InOrder
  <2>2. \A w \in Workers : InOrder(w)'
    BY <1>1, <1>5, <1>6, <2>1 DEF OutboxInv, Batches, InOrder
  <2>3. \A v, w \in Workers : v # w => Apart(v, w)'
    BY <1>1 DEF OutboxInv, Batches, Apart
  <2>. QED BY <2>2, <2>3 DEF Batches
<1>9. Holding'
  BY <1>1, <1>6 DEF OutboxInv, Holding
<1>10. \A w \in Workers : Reading(w) => Subject(w)' = Subject(w)
  <2>1. \A w \in Workers : Reading(w) => Len(workers[w].done) + 1 \in DOMAIN workers[w].rows
    BY CurrentIsDue DEF OutboxInv, Batches, InOrder
  <2>. QED BY <1>1, <1>5, <1>6, <2>1 DEF Subject, Current
<1>11. \A b : Readers(b)' = Readers(b)
  BY <1>6, <1>10 DEF Readers
<1>12. \A b \in Accounts : Snapshots(b)' \subseteq Snapshots(b) /\ Seen(b)' \subseteq Seen(b)
  <2>. TAKE b \in Accounts
  <2>1. \A v \in Readers(b)' : v \in Readers(b) /\ Fresh(v)' = Fresh(v)
    BY <1>6, <1>11 DEF Readers
  <2>2. Snapshots(b)' \subseteq Snapshots(b)
    BY <1>1, <1>6, <2>1 DEF Snapshots
  <2>3. Seen(b)' \subseteq Seen(b)
    BY <1>1, <1>6, <2>1 DEF Seen, Row
  <2>. QED BY <2>2, <2>3
<1>13. Ordered' /\ PositionsFollow'
  BY <1>1, <1>12 DEF OutboxInv, Ordered, PositionsFollow
<1>14. Covered'
  <2>1. \A b : Owed(b)' = Owed(b)
    BY <1>4, <1>5, <1>6 DEF Owed
  <2>2. \A b : Pending(b) \subseteq Pending(b)'
    <3>1. \A b : \A v \in Readers(b) : Current(v)' = Current(v)
      BY <1>6 DEF Readers
    <3>. QED BY <1>1, <1>11, <2>1, <3>1 DEF Pending
  <2>3. \A b : Shows(b)' = Shows(b)
    BY <1>1, <1>6 DEF Shows, Latest
  <2>. QED BY <2>2, <2>3 DEF OutboxInv, Covered
<1>. QED BY <1>7, <1>8, <1>9, <1>13, <1>14 DEF OutboxInv

\* What a commit writes in the table: each row as its handler left it.
LEMMA CommitWrites ==
  ASSUME OutboxInv, NEW w \in Workers, Commit(w)
  PROVE  /\ events' \in Seq(EventRow) /\ Len(events') = Len(events)
         /\ DOMAIN workers[w].rows = DOMAIN workers[w].done
         /\ \A k \in DOMAIN workers[w].rows : events'[workers[w].rows[k]] = workers[w].done[k]
         /\ \A j \in 1..Len(events) :
              (\A k \in DOMAIN workers[w].rows : workers[w].rows[k] # j) => events'[j] = events[j]
         /\ \A j \in 1..Len(events) : events'[j].account = events[j].account
<1>1. /\ workers[w].rows \in Seq(Nat) /\ workers[w].done \in Seq(EventRow)
      /\ \A k \in DOMAIN workers[w].rows : workers[w].rows[k] \in 1..Len(events)
      /\ events \in Seq(EventRow)
  BY DEF OutboxInv, Typed, WorkerTyped
<1>2. /\ DOMAIN workers[w].rows = 1..Len(workers[w].rows)
      /\ DOMAIN workers[w].done = DOMAIN workers[w].rows
  BY <1>1 DEF OutboxInv, Batches, InOrder, Commit, Busy
<1>. DEFINE rows == workers[w].rows
            done == workers[w].done
            At(j) == CHOOSE k \in 1..Len(rows) : rows[k] = j
            Written(j) == IF \E k \in 1..Len(rows) : rows[k] = j THEN done[At(j)] ELSE events[j]
<1>3. events' = [j \in 1..Len(events) |-> Written(j)]
  BY DEF Commit
<1>4. \A k \in DOMAIN rows : Written(rows[k]) = done[k]
  <2>. TAKE k \in DOMAIN rows
  <2>1. At(rows[k]) \in 1..Len(rows) /\ rows[At(rows[k])] = rows[k]
    BY <1>2
  <2>2. At(rows[k]) = k
    BY <1>2, <2>1 DEF OutboxInv, Batches, InOrder
  <2>. QED BY <1>2, <2>2
<1>5. \A j \in 1..Len(events) : (\A k \in DOMAIN rows : rows[k] # j) => Written(j) = events[j]
  BY <1>2
<1>6. \A k \in DOMAIN rows : done[k] \in EventRow /\ done[k].account = events[rows[k]].account
  BY <1>1, <1>2 DEF OutboxInv, Batches, InOrder
<1>. HIDE DEF Written
<1>7. ASSUME NEW j \in 1..Len(events)
      PROVE  Written(j) \in EventRow /\ Written(j).account = events[j].account
  <2>1. CASE \A k \in DOMAIN rows : rows[k] # j
    BY <1>1, <1>5, <2>1
  <2>2. ASSUME NEW k \in DOMAIN rows, rows[k] = j
        PROVE  Written(j) \in EventRow /\ Written(j).account = events[j].account
    BY <1>4, <1>6, <2>2
  <2>. QED BY <2>1, <2>2
<1>8. events' \in Seq(EventRow) /\ Len(events') = Len(events) /\ \A j \in 1..Len(events) : events'[j] = Written(j)
  <2>1. Len(events) \in Nat
    BY <1>1
  <2>. HIDE DEF rows, done
  <2>. QED BY <1>3, <1>7, <2>1
<1>. QED BY <1>1, <1>2, <1>4, <1>5, <1>7, <1>8

\* A commit makes visible what was covered, and settles what was handled.
LEMMA CommitKeeps == ASSUME OutboxInv, NEW w \in Workers, Commit(w) PROVE OutboxInv'
<1>1. /\ UNCHANGED truthVars /\ UNCHANGED <<accounts, positions, announced>>
      /\ workers' = [workers EXCEPT ![w] = Idle] /\ ~Busy(w)
      /\ projections' = [a \in Accounts |-> Stored(w, a)]
  BY DEF Commit, truthVars
<1>2. /\ workers'[w] = Idle /\ workers' = [v \in Workers |-> workers'[v]]
      /\ \A v \in Workers \ {w} : workers'[v] = workers[v]
      /\ ~Reading(w)' /\ WorkerTyped(w)' /\ InOrder(w)' /\ \A v \in Workers : Apart(v, w)' /\ Apart(w, v)'
      /\ \A b : Holders(b)' = Holders(b) \ {w}
      /\ \A j : Applied(j)' <=> \E v \in Workers \ {w} : \E k \in DOMAIN workers[v].done :
                  workers[v].rows[k] = j /\ workers[v].done[k].state = "delivered"
  BY <1>1, LetGo DEF OutboxInv
<1>3. /\ events' \in Seq(EventRow) /\ Len(events') = Len(events)
      /\ DOMAIN workers[w].rows = DOMAIN workers[w].done
      /\ \A k \in DOMAIN workers[w].rows : events'[workers[w].rows[k]] = workers[w].done[k]
      /\ \A j \in 1..Len(events) :
           (\A k \in DOMAIN workers[w].rows : workers[w].rows[k] # j) => events'[j] = events[j]
      /\ \A j \in 1..Len(events) : events'[j].account = events[j].account
  BY CommitWrites
<1>4. \A v \in Workers \ {w} : \A k \in DOMAIN workers[v].rows :
        /\ workers[v].rows[k] \in 1..Len(events)
        /\ events'[workers[v].rows[k]] = events[workers[v].rows[k]]
        /\ \A n \in DOMAIN workers[w].rows : workers[w].rows[n] # workers[v].rows[k]
  <2>. TAKE v \in Workers \ {w}
  <2>. TAKE k \in DOMAIN workers[v].rows
  <2>1. workers[v].rows[k] \in 1..Len(events)
    BY DEF OutboxInv, Typed, WorkerTyped
  <2>2. \A n \in DOMAIN workers[w].rows : workers[w].rows[n] # workers[v].rows[k]
    BY DEF OutboxInv, Batches, Apart
  <2>. QED BY <1>3, <2>1, <2>2
<1>5. \A v \in Workers : DOMAIN workers[v].done \subseteq DOMAIN workers[v].rows
  BY DEF OutboxInv, Typed, WorkerTyped, Batches, InOrder
<1>6. \A b \in Accounts : /\ projections'[b] = Stored(w, b) /\ Stored(w, b) \in Shown
                          /\ Stored(w, b) \in Snapshots(b)
  BY <1>1 DEF OutboxInv, Typed, WorkerTyped, Stored, Holds, Snapshots, Holders
<1>7. Typed'
  <2>1. \A v \in Workers \ {w} : WorkerTyped(v)'
    BY <1>2, <1>3 DEF OutboxInv, Typed, WorkerTyped, Reading
  <2>2. projections' \in [Accounts -> Shown]
    BY <1>1, <1>6
  <2>. QED BY <1>1, <1>2, <1>3, <2>1, <2>2 DEF OutboxInv, Typed
<1>8. Batches'
  <2>1. \A v \in Workers \ {w} : InOrder(v)'
    <3>. TAKE v \in Workers \ {w}
    <3>1. InOrder(v) /\ workers'[v] = workers[v]
      BY <1>2 DEF OutboxInv, Batches
    <3>2. \A k \in DOMAIN workers[v].rows : events'[workers[v].rows[k]] = events[workers[v].rows[k]]
      BY <1>4
    <3>3. \A k \in DOMAIN workers[v].done : k \in DOMAIN workers[v].rows
      BY <1>5
    <3>. QED BY <3>1, <3>2, <3>3 DEF InOrder, Reading, Busy
  <2>2. \A v, u \in Workers \ {w} : v # u => Apart(v, u)'
    BY <1>2 DEF OutboxInv, Batches, Apart
  <2>. QED BY <1>2, <2>1, <2>2 DEF Batches
<1>9. Holding'
  <2>1. \A b \in Accounts : \A v \in Holders(b)' :
          v \in Holders(b) /\ workers'[v] = workers[v] /\ w \notin Holders(b)
    BY <1>2 DEF OutboxInv, Holding, Holders
  <2>2. \A b \in Accounts : w \notin Holders(b) => projections'[b] = projections[b]
    BY <1>6 DEF Stored, Holders
  <2>. QED BY <2>1, <2>2 DEF OutboxInv, Holding
<1>10. \A v \in Workers \ {w} : /\ Reading(v)' = Reading(v) /\ Current(v)' = Current(v)
                                /\ Fresh(v)' = Fresh(v) /\ (Reading(v) => Subject(v)' = Subject(v))
  <2>1. \A v \in Workers \ {w} : /\ Reading(v)' = Reading(v) /\ Current(v)' = Current(v)
                                 /\ Fresh(v)' = Fresh(v)
    BY <1>2 DEF Reading, Current, Fresh
  <2>2. \A v \in Workers : Reading(v) => Current(v) \in 1..Len(events)
    BY CurrentIsDue DEF OutboxInv, Batches, InOrder
  <2>. QED BY <1>3, <2>1, <2>2 DEF Subject
<1>11. \A b : Readers(b)' = Readers(b) \ {w}
  BY <1>2, <1>10 DEF Readers
<1>12. \A b \in Accounts : Snapshots(b)' \subseteq Snapshots(b) /\ Seen(b)' \subseteq Seen(b)
  <2>. TAKE b \in Accounts
  <2>1. \A v \in Holders(b)' : v \in Holders(b) /\ workers'[v] = workers[v]
    BY <1>2 DEF Holders
  <2>2. \A v \in Readers(b)' : v \in Readers(b) /\ workers'[v] = workers[v] /\ Fresh(v)' = Fresh(v)
    BY <1>2, <1>10, <1>11 DEF Readers
  <2>3. projections'[b].row \in Seen(b)
    BY <1>6, SnapshotsAreSeen
  <2>4. Snapshots(b)' \subseteq Snapshots(b)
    BY <1>6, <2>1, <2>2 DEF Snapshots
  <2>5. Seen(b)' \subseteq Seen(b)
    BY <1>1, <2>1, <2>2, <2>3 DEF Seen, Row
  <2>. QED BY <2>4, <2>5
<1>13. Ordered' /\ PositionsFollow'
  BY <1>1, <1>12 DEF OutboxInv, Ordered, PositionsFollow
<1>14. \A b : Owed(b)' = Owed(b)
  <2>1. ASSUME NEW j \in 1..Len(events)
        PROVE  (events'[j].state # "delivered" /\ ~Applied(j)') <=> (events[j].state # "delivered" /\ ~Applied(j))
    <3>1. CASE \A k \in DOMAIN workers[w].rows : workers[w].rows[k] # j
      <4>1. events'[j] = events[j]
        BY <1>3, <3>1
      <4>2. \A k \in DOMAIN workers[w].done : workers[w].rows[k] # j
        BY <1>3, <3>1
      <4>3. Applied(j) <=> \E v \in Workers \ {w} : \E k \in DOMAIN workers[v].done :
                  workers[v].rows[k] = j /\ workers[v].done[k].state = "delivered"
        BY <4>2 DEF Applied
      <4>. QED BY <1>2, <4>1, <4>3
    <3>2. ASSUME NEW k \in DOMAIN workers[w].rows, workers[w].rows[k] = j
          PROVE  (events'[j].state # "delivered" /\ ~Applied(j)') <=> (events[j].state # "delivered" /\ ~Applied(j))
      <4>1. events'[j] = workers[w].done[k] /\ events[j].state = "due"
        BY <1>3, <3>2 DEF OutboxInv, Batches, InOrder
      <4>2. \A v \in Workers \ {w} : \A n \in DOMAIN workers[v].done : workers[v].rows[n] # j
        BY <1>4, <1>5, <3>2
      <4>3. ~Applied(j)'
        BY <1>2, <4>2
      <4>4. Applied(j) <=> workers[w].done[k].state = "delivered"
        <5>1. \A n \in DOMAIN workers[w].done : workers[w].rows[n] = j => n = k
          BY <1>3, <3>2 DEF OutboxInv, Batches, InOrder
        <5>. QED BY <1>3, <3>2, <4>2, <5>1 DEF Applied
      <4>. QED BY <4>1, <4>3, <4>4
    <3>. QED BY <3>1, <3>2
  <2>. QED BY <1>3, <2>1 DEF Owed
<1>15. Covered'
  <2>. SUFFICES ASSUME NEW b \in Accounts PROVE Pending(b)' # {} \/ Shows(b)'
    BY DEF Covered
  <2>1. \A v \in Readers(b)' : /\ v \in Readers(b) /\ workers'[v] = workers[v]
                               /\ Current(v)' = Current(v)
    BY <1>2, <1>10, <1>11 DEF Readers
  <2>2. Pending(b) \subseteq Pending(b)'
    BY <1>1, <1>14, <2>1 DEF Pending
  <2>3. Latest(b)' = Latest(b)
    <3>1. CASE w \in Holders(b)
      <4>1. Holders(b) = {w} /\ Holders(b)' = {} /\ Holds(w, b)
        BY <1>2, <3>1 DEF OutboxInv, Holding, Holders
      <4>2. projections'[b] = workers[w].held[b]
        BY <1>6, <4>1 DEF Stored
      <4>3. {workers[v].held[b] : v \in Holders(b)} = {workers[w].held[b]}
        BY <4>1
      <4>. QED BY <4>1, <4>2, <4>3 DEF Latest
    <3>2. CASE w \notin Holders(b)
      <4>1. Holders(b)' = Holders(b) /\ projections'[b] = projections[b]
        BY <1>2, <1>6, <3>2 DEF Stored, Holders
      <4>2. {workers'[v].held[b] : v \in Holders(b)'} = {workers[v].held[b] : v \in Holders(b)}
        BY <1>2, <3>2, <4>1 DEF Holders
      <4>. QED BY <4>1, <4>2 DEF Latest
    <3>. QED BY <3>1, <3>2
  <2>. QED BY <1>1, <2>2, <2>3 DEF OutboxInv, Covered, Shows
<1>. QED BY <1>7, <1>8, <1>9, <1>13, <1>15 DEF OutboxInv

-------------------------------------------------------------------------------
(* The theorems *)

LEMMA OutboxInvInit == OutboxInit => OutboxInv
<1>. SUFFICES ASSUME OutboxInit PROVE OutboxInv
  OBVIOUS
<1>1. /\ \A w \in Workers : workers[w] = Idle /\ ~Reading(w) /\ \A b : ~Holds(w, b)
      /\ workers = [w \in Workers |-> workers[w]]
  BY DEF OutboxInit, Idle, Reading, Holds
<1>2. \A w \in Workers : /\ workers[w].rows = <<>> /\ workers[w].done = <<>> /\ workers[w].held = <<>>
                         /\ workers[w].read = <<>>
                         /\ workers[w] = [rows |-> workers[w].rows, done |-> workers[w].done,
                                          held |-> workers[w].held, read |-> workers[w].read]
  BY <1>1 DEF Idle
<1>3. \A a \in Accounts : /\ accounts[a] = [seq |-> 0, money |-> 0, status |-> "ACTIVE"]
                          /\ positions[a] = 0 /\ announced[a] = 0 /\ projections[a] = Snapshot(a)
  BY DEF OutboxInit
<1>4. \A a \in Accounts : /\ Row(a).seq = 0 /\ Row(a).money = 0 /\ Row(a) \in AccountRow
                          /\ accounts[a].seq = 0 /\ accounts[a].money = 0 /\ announced[a] = 0
                          /\ projections[a].row = Row(a) /\ projections[a].positions = positions[a]
                          /\ projections[a] \in Shown
  <2>. TAKE a \in Accounts
  <2>1. /\ accounts[a].seq = 0 /\ accounts[a].money = 0 /\ accounts[a].status = "ACTIVE"
        /\ positions[a] = 0 /\ announced[a] = 0
    BY <1>3
  <2>2. Row(a).seq = 0 /\ Row(a).money = 0 /\ Row(a) \in AccountRow
    BY <2>1 DEF Row, AccountRow
  <2>3. projections[a] = [row |-> Row(a), positions |-> positions[a]]
    BY <1>3 DEF Snapshot
  <2>4. projections[a].row = Row(a) /\ projections[a].positions = positions[a]
    BY <2>3
  <2>5. projections[a] \in Shown
    BY <2>1, <2>2, <2>3 DEF Shown
  <2>. QED BY <2>1, <2>2, <2>4, <2>5
<1>5. Typed
  <2>1. /\ accounts \in [Accounts -> AccountRow] /\ positions \in [Accounts -> Nat]
        /\ announced \in [Accounts -> Nat]
    BY DEF OutboxInit, AccountRow
  <2>2. projections \in [Accounts -> Shown]
    BY <1>4 DEF OutboxInit
  <2>3. events \in Seq(EventRow)
    <3>1. /\ Len(Backlog) \in Nat /\ \A i \in 1..Len(Backlog) : Event(Backlog[i]) \in EventRow
      BY OutboxAssumption DEF Event, EventRow
    <3>. HIDE DEF Event
    <3>. QED BY <3>1 DEF OutboxInit
  <2>4. \A w \in Workers : WorkerTyped(w)
    <3>1. <<>> \in Seq(Nat) /\ <<>> \in Seq(EventRow) /\ <<>> \in Seq(AccountRow \cup Nat) /\ Len(<<>>) = 0
          /\ DOMAIN <<>> = {}
      OBVIOUS
    <3>2. \A w \in Workers :
            /\ workers[w].rows \in Seq(Nat) /\ workers[w].done \in Seq(EventRow)
            /\ workers[w].read \in Seq(AccountRow \cup Nat) /\ Len(workers[w].read) = 0
            /\ DOMAIN workers[w].rows = {} /\ DOMAIN workers[w].held = {}
      BY <1>2, <3>1, Zenon
    <3>. QED BY <1>1, <1>2, <3>2 DEF WorkerTyped
  <2>. QED BY <1>1, <2>1, <2>2, <2>3, <2>4 DEF Typed
<1>6. Batches
  BY <1>1, <1>2 DEF Batches, InOrder, Apart
<1>7. \A a \in Accounts : Holders(a) = {} /\ Readers(a) = {}
  BY <1>1 DEF Holders, Readers
<1>8. Holding
  BY <1>7 DEF Holding
<1>10. Ordered /\ PositionsFollow
  <2>1. \A a \in Accounts : \A x \in Seen(a) : x = Row(a)
    BY <1>7, <1>4 DEF Seen
  <2>2. \A a \in Accounts : \A x \in Snapshots(a) : x = projections[a]
    BY <1>7 DEF Snapshots
  <2>3. \A a \in Accounts : \A x \in Seen(a) : x.seq = 0 /\ x.money = 0
    BY <1>4, <2>1
  <2>4. Ordered
    <3>1. \A a \in Accounts : announced[a] <= accounts[a].money
      BY <1>4
    <3>2. \A a \in Accounts : \A x \in Seen(a) : x.seq <= accounts[a].seq /\ x.money <= accounts[a].money
      BY <1>4, <2>3
    <3>3. \A a \in Accounts : \A x, y \in Seen(a) : announced[a] <= y.money /\ x.money <= y.money
      BY <1>4, <2>3
    <3>. QED BY <3>1, <3>2, <3>3 DEF Ordered
  <2>5. PositionsFollow
    BY <1>4, <2>2 DEF PositionsFollow
  <2>. QED BY <2>4, <2>5
<1>11. Covered
  <2>1. \A a \in Accounts : Latest(a) = {projections[a]}
    BY <1>7 DEF Latest
  <2>2. \A a \in Accounts : Shows(a)
    BY <1>4, <2>1 DEF Shows
  <2>. QED BY <2>2 DEF Covered
<1>. QED BY <1>5, <1>6, <1>8, <1>10, <1>11 DEF OutboxInv

LEMMA OutboxStep ==
  ASSUME OutboxInv, [OutboxNext]_outboxVars
  PROVE  OutboxInv'
<1>1. ASSUME NEW a \in Active, Changes(a) PROVE OutboxInv'
  BY <1>1, ChangesKeep, OutboxAssumption
<1>2. ASSUME NEW w \in Workers, Work(w) PROVE OutboxInv'
  BY <1>2, ClaimKeeps, ReadsKeep, ProjectKeeps, CommitKeeps DEF Work
<1>3. ASSUME NEW w \in Workers, Trouble(w) PROVE OutboxInv'
  BY <1>3, FailsKeeps, CrashKeeps DEF Trouble, HandlerFails, DeadlockDetected
<1>4. ASSUME Timing PROVE OutboxInv'
  BY <1>4, RearmKeeps DEF Timing
<1>5. CASE UNCHANGED outboxVars
  <2>1. UNCHANGED <<accounts, positions, announced, events, projections, workers>>
    BY <1>5 DEF outboxVars
  <2>2. /\ \A w \in Workers : /\ Busy(w)' = Busy(w) /\ Reading(w)' = Reading(w)
                              /\ Current(w)' = Current(w) /\ Fresh(w)' = Fresh(w)
                              /\ Subject(w)' = Subject(w)
        /\ \A b : Holders(b)' = Holders(b)
        /\ \A j : Applied(j)' = Applied(j)
    BY <2>1 DEF Busy, Reading, Current, Fresh, Subject, Holds, Holders, Applied
  <2>3. \A b : Readers(b)' = Readers(b) /\ Owed(b)' = Owed(b)
    BY <2>1, <2>2 DEF Readers, Owed
  <2>4. \A b : Seen(b)' = Seen(b) /\ Latest(b)' = Latest(b)
    BY <2>1, <2>2, <2>3 DEF Seen, Latest, Row
  <2>5. \A b : Snapshots(b)' \subseteq Snapshots(b)
    BY <2>1, <2>2, <2>3 DEF Snapshots, Readers
  <2>6. \A b : Pending(b)' = Pending(b) /\ (Shows(b) => Shows(b)')
    <3>1. \A b : Pending(b)' \subseteq Pending(b) /\ Pending(b) \subseteq Pending(b)'
      BY <2>1, <2>2, <2>3 DEF Pending, Readers
    <3>. QED BY <2>1, <2>4, <3>1 DEF Shows
  <2>7. Typed'
    BY <2>1, <2>2 DEF OutboxInv, Typed, WorkerTyped
  <2>8. Batches' /\ Holding'
    BY <2>1, <2>2 DEF OutboxInv, Batches, InOrder, Apart, Holding
  <2>9. Ordered' /\ PositionsFollow' /\ Covered'
    BY <2>1, <2>4, <2>5, <2>6 DEF OutboxInv, Ordered, PositionsFollow, Covered
  <2>. QED BY <2>7, <2>8, <2>9 DEF OutboxInv
<1>. QED BY <1>1, <1>2, <1>3, <1>4, <1>5 DEF OutboxNext

(* What relates the accounts, the events, the batches and the read model   *)
(* holds whatever changes an account, resets and reversals included.       *)
THEOREM OutboxInvariant == OutboxSpec => []OutboxInv
<1>1. OutboxInv /\ [OutboxNext]_outboxVars => OutboxInv'
  BY OutboxStep
<1>. QED BY <1>1, OutboxInvInit, PTL DEF OutboxSpec

(* Of every account without an outstanding event the read model shows the  *)
(* positions and all changes of the balance up to the last one that was    *)
(* numbered and enqueued (the upsert of projection.ts:116-127), for any    *)
(* number of workers, whatever crashed, failed, deadlocked or was read in  *)
(* between, and whatever resets and reversals there were.                  *)
THEOREM MoneyIsShownInTheEnd == OutboxSpec => []MoneyIsShown
<1>1. OutboxInv => MoneyIsShown
  BY CoveredIsShown
<1>. QED BY <1>1, OutboxInvariant, PTL

(* What the read model shows of an account never goes back to an older     *)
(* state, in whatever order workers commit what they have read, reversals  *)
(* that the outbox is not told of included.                                *)
THEOREM ShownGoesForward ==
  ASSUME TRUE \notin Resets PROVE OutboxSpec => ShownNeverGoesBack
<1>. DEFINE Forward == \A a \in Accounts : projections'[a].row.seq >= projections[a].row.seq
                                           /\ projections'[a].row.money >= projections[a].row.money
<1>1. OutboxInv /\ [OutboxNext]_outboxVars => [Forward]_outboxVars
  <2>. SUFFICES ASSUME OutboxInv, OutboxNext PROVE Forward
    BY DEF outboxVars
  <2>1. \A a \in Accounts : projections[a].row \in Seen(a) /\ projections[a].row.seq \in Nat
                            /\ projections[a].row.money \in Nat
    BY DEF Seen, OutboxInv, Typed, Shown, AccountRow
  <2>2. ASSUME NEW w \in Workers, Commit(w) PROVE Forward
    <3>1. \A a \in Accounts : projections'[a] = Stored(w, a)
      BY <2>2 DEF Commit
    <3>2. ASSUME NEW a \in Accounts, Holds(w, a)
          PROVE  projections'[a].row.seq >= projections[a].row.seq /\ projections'[a].row.money >= projections[a].row.money
      <4>1. w \in Holders(a) /\ projections'[a].row = workers[w].held[a].row
        BY <3>1, <3>2 DEF Holders, Stored
      <4>2. projections'[a].row \in Seen(a) /\ projections[a].row.seq <= projections'[a].row.seq
        BY <4>1 DEF Seen, OutboxInv, Holding
      <4>3. projections'[a].row.seq \in Nat /\ projections'[a].row.money \in Nat
        BY <4>2, SeenType DEF OutboxInv
      <4>. QED BY <2>1, <4>2, <4>3 DEF OutboxInv, Ordered
    <3>3. ASSUME NEW a \in Accounts, ~Holds(w, a) PROVE projections'[a] = projections[a]
      BY <3>1, <3>3 DEF Stored
    <3>. QED BY <2>1, <3>2, <3>3
  <2>3. CASE projections' = projections
    BY <2>1, <2>3
  <2>. QED BY <2>2, <2>3 DEF OutboxNext, Changes, audit, enqueueChange, Fill, Payout, Transition, Work,
       Claim, ReadAccount, ReadPositions, projectAccount, Trouble, HandlerFails, DeadlockDetected, Fails,
       Crash, Timing, BackoffOver, retryJob
<1>. QED BY <1>1, OutboxInvariant, PTL DEF OutboxSpec, ShownNeverGoesBack
===============================================================================
