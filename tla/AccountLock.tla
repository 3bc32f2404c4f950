------------------------------- MODULE AccountLock -------------------------------
(***************************************************************************)
(* How account mutations are serialized: KeyedMutex (trading/mutex.ts)     *)
(* inside a process, PostgreSQL advisory locks across processes            *)
(* (trading/account-lock.ts), and the two connection pools both live on    *)
(* (db/client.ts).                                                         *)
(*                                                                         *)
(* A section is a call of AccountLock.run: an engine operation.  It waits  *)
(* for the promise of the section before it on the same account, reserves  *)
(* a connection of the lock pool, takes the session-level lock with it,    *)
(* and runs its statements on connections of the query pool.  A            *)
(* transaction is an operator's or a payout's: it holds a connection of    *)
(* the query pool from BEGIN on and takes the same lock with it.           *)
(***************************************************************************)
EXTENDS Integers, FiniteSets

CONSTANTS
  Processes, Accounts,
  Sections,      \* the engine operations, run over and over again
  Transactions,  \* operator and payout transactions, the same
  Home,          \* the process of a section or transaction
  Account,       \* and the account it is for
  LockPool,      \* connections of getLockSql, per process
  QueryPool,     \* connections of getDb, per process
  MaxRuns,       \* bound: how many times sections are asked for, in all
  MaxCrashes,    \* bound: how many times a process stops
  Nobody

Clients == Sections \cup Transactions

ASSUME ClientsAssumption ==
  /\ Nobody \notin Clients /\ IsFiniteSet(Sections) /\ Sections \cap Transactions = {}
  /\ Home \in [Clients -> Processes] /\ Account \in [Clients -> Accounts]
ASSUME BoundsAssumption ==
  /\ LockPool \in Nat \ {0} /\ QueryPool \in Nat \ {0}
  /\ MaxRuns \in Nat /\ MaxCrashes \in Nat

(* A key of a process's mutex: its map entry for an account.               *)
Keys == Processes \X Accounts
Key(c) == <<Home[c], Account[c]>>

VARIABLES
  phase,     \* where a section or transaction is
  previous,  \* the unsettled promise a queued section waits for, or Nobody
  tails,     \* the mutex: the unsettled promise at the end of each queue
  depth,     \* the mutex: how many tasks a key counts, 0 when it has no entry
  releases,  \* settled tasks whose release(key) is still to be called
  advisory,  \* PostgreSQL: who holds an account's advisory lock
  ticket,    \* history: the place of a section in the queue of its key
  asked,     \* history: how often a key has been asked for
  crashes

vars == <<phase, previous, tails, depth, releases, advisory, ticket, asked, crashes>>
mutex == <<previous, tails, depth, releases, ticket, asked>>

(* reserving: waits for a connection of the lock pool.  locking: waits for *)
(* the advisory lock.  inside: runs its task.  wanting: waits in it for a  *)
(* connection of the query pool.  querying: has one; one statement stands  *)
(* for those of the task.                                                  *)
SectionPhase == {"idle", "queued", "reserving", "locking", "inside", "wanting", "querying"}
(* begin: waits for a connection of the query pool.                        *)
TransactionPhase == {"idle", "begin", "locking", "inside"}

Critical == {"inside", "wanting", "querying"}
Reserved == {"locking"} \cup Critical
Live == {s \in Sections : phase[s] # "idle"}

LockConnections(p) == {s \in Sections : Home[s] = p /\ phase[s] \in Reserved}
QueryConnections(p) ==
  {c \in Clients : Home[c] = p
     /\ (phase[c] = "querying" \/ (c \in Transactions /\ phase[c] \in {"locking", "inside"}))}

TypeOK ==
  /\ phase \in [Clients -> SectionPhase \cup TransactionPhase]
  /\ previous \in [Sections -> Sections \cup {Nobody}]
  /\ tails \in [Keys -> Sections \cup {Nobody}]
  /\ depth \in [Keys -> Nat] /\ releases \in [Keys -> Nat]
  /\ advisory \in [Accounts -> Clients \cup {Nobody}]
  /\ ticket \in [Sections -> Nat] /\ asked \in [Keys -> Nat]
  /\ crashes \in Nat
  /\ \A p \in Processes : /\ Cardinality(LockConnections(p)) <= LockPool
                          /\ Cardinality(QueryConnections(p)) <= QueryPool

Init ==
  /\ phase = [c \in Clients |-> "idle"]
  /\ previous = [s \in Sections |-> Nobody]
  /\ tails = [k \in Keys |-> Nobody]
  /\ depth = [k \in Keys |-> 0]
  /\ releases = [k \in Keys |-> 0]
  /\ advisory = [a \in Accounts |-> Nobody]
  /\ ticket = [s \in Sections |-> 0]
  /\ asked = [k \in Keys |-> 0]
  /\ crashes = 0

Becomes(c, from, to) == phase[c] = from /\ phase' = [phase EXCEPT ![c] = to]

-------------------------------------------------------------------------------
(* KeyedMutex *)

RunBehindTheFirst(s) == \* mutant: the tail does not move up when there is one
  LET k == Key(s) IN
  /\ Becomes(s, "idle", "queued")
  /\ asked[k] < MaxRuns
  /\ previous' = [previous EXCEPT ![s] = tails[k]]
  /\ tails' = [tails EXCEPT ![k] = IF @ = Nobody THEN s ELSE @]
  /\ depth' = [depth EXCEPT ![k] = @ + 1]
  /\ asked' = [asked EXCEPT ![k] = @ + 1]
  /\ ticket' = [ticket EXCEPT ![s] = asked[k] + 1]
  /\ UNCHANGED <<releases, advisory, crashes>>

(* run: the task queues behind the promise at the tail.  A settled promise *)
(* delays nobody, so none is kept in the model.                            *)
Run(s) ==
  LET k == Key(s) IN
  /\ Becomes(s, "idle", "queued")
  /\ asked[k] < MaxRuns
  /\ previous' = [previous EXCEPT ![s] = tails[k]]
  /\ tails' = [tails EXCEPT ![k] = s]
  /\ depth' = [depth EXCEPT ![k] = @ + 1]
  /\ asked' = [asked EXCEPT ![k] = @ + 1]
  /\ ticket' = [ticket EXCEPT ![s] = asked[k] + 1]
  /\ UNCHANGED <<releases, advisory, crashes>>

Start(s) ==
  /\ previous[s] = Nobody
  /\ Becomes(s, "queued", "reserving")
  /\ UNCHANGED <<mutex, advisory, crashes>>

(* The task's promise settles, resolved or rejected: whoever waits for it  *)
(* may start, and its release is on its way.                               *)
Settles(s) ==
  LET k == Key(s) IN
  /\ previous' = [t \in Sections |-> IF previous[t] = s THEN Nobody ELSE previous[t]]
  /\ tails' = [tails EXCEPT ![k] = IF @ = s THEN Nobody ELSE @]
  /\ releases' = [releases EXCEPT ![k] = @ + 1]
  /\ UNCHANGED <<depth, ticket, asked>>

ReleaseOneEarly(k) == \* mutant: the entry goes while one task is still there
  /\ releases[k] > 0
  /\ releases' = [releases EXCEPT ![k] = @ - 1]
  /\ LET remaining == IF depth[k] = 0 THEN 0 ELSE depth[k] - 1 IN
       IF remaining > 1
       THEN depth' = [depth EXCEPT ![k] = remaining] /\ UNCHANGED tails
       ELSE depth' = [depth EXCEPT ![k] = 0] /\ tails' = [tails EXCEPT ![k] = Nobody]
  /\ UNCHANGED <<phase, previous, advisory, ticket, asked, crashes>>

(* release: the last task of a key takes the key's entries with it.        *)
Release(k) ==
  /\ releases[k] > 0
  /\ releases' = [releases EXCEPT ![k] = @ - 1]
  /\ LET remaining == (IF depth[k] = 0 THEN 1 ELSE depth[k]) - 1 IN
       IF remaining > 0
       THEN depth' = [depth EXCEPT ![k] = remaining] /\ UNCHANGED tails
       ELSE depth' = [depth EXCEPT ![k] = 0] /\ tails' = [tails EXCEPT ![k] = Nobody]
  /\ UNCHANGED <<phase, previous, advisory, ticket, asked, crashes>>

-------------------------------------------------------------------------------
(* withAccountAdvisoryLock *)

ReserveOverMax(s) == \* mutant: one connection more than the pool has
  /\ Cardinality(LockConnections(Home[s])) <= LockPool
  /\ Becomes(s, "reserving", "locking")
  /\ UNCHANGED <<mutex, advisory, crashes>>

Reserve(s) ==
  /\ Cardinality(LockConnections(Home[s])) < LockPool
  /\ Becomes(s, "reserving", "locking")
  /\ UNCHANGED <<mutex, advisory, crashes>>

GrantedInItsOwnSpace(c) == \* mutant: a transaction's lock has another key
  /\ c \in Transactions \/ advisory[Account[c]] = Nobody
  /\ Becomes(c, "locking", "inside")
  /\ advisory' = [advisory EXCEPT ![Account[c]] = c]
  /\ UNCHANGED <<mutex, crashes>>

(* pg_advisory_lock, and pg_advisory_xact_lock of a transaction.           *)
Granted(c) ==
  /\ advisory[Account[c]] = Nobody
  /\ Becomes(c, "locking", "inside")
  /\ advisory' = [advisory EXCEPT ![Account[c]] = c]
  /\ UNCHANGED <<mutex, crashes>>

(* The reservation or the statement that takes the lock fails: the task    *)
(* is never run.                                                           *)
LockFails(s) ==
  /\ phase[s] \in {"reserving", "locking"}
  /\ phase' = [phase EXCEPT ![s] = "idle"]
  /\ Settles(s)
  /\ UNCHANGED <<advisory, crashes>>

NeedsQuery(s) == Becomes(s, "inside", "wanting") /\ UNCHANGED <<mutex, advisory, crashes>>

GetsQuery(s) ==
  /\ Cardinality(QueryConnections(Home[s])) < QueryPool
  /\ Becomes(s, "wanting", "querying")
  /\ UNCHANGED <<mutex, advisory, crashes>>

Freed(c) == [advisory EXCEPT ![Account[c]] = IF @ = c THEN Nobody ELSE @]

KeepsTheLock(s) == \* mutant: a task that throws goes past the unlock
  /\ phase[s] \in {"inside", "querying"}
  /\ phase' = [phase EXCEPT ![s] = "idle"]
  /\ advisory' = IF phase[s] = "inside" THEN advisory ELSE Freed(s)
  /\ Settles(s)
  /\ UNCHANGED crashes

(* The task returns or throws; both ways the lock is given back, then the  *)
(* connection.                                                             *)
Finish(s) ==
  /\ phase[s] \in {"inside", "querying"}
  /\ phase' = [phase EXCEPT ![s] = "idle"]
  /\ advisory' = Freed(s)
  /\ Settles(s)
  /\ UNCHANGED crashes

-------------------------------------------------------------------------------
(* Transactions *)

Ask(x) == Becomes(x, "idle", "begin") /\ UNCHANGED <<mutex, advisory, crashes>>

Begin(x) ==
  /\ Cardinality(QueryConnections(Home[x])) < QueryPool
  /\ Becomes(x, "begin", "locking")
  /\ UNCHANGED <<mutex, advisory, crashes>>

(* Committed or rolled back. *)
End(x) ==
  /\ Becomes(x, "inside", "idle")
  /\ advisory' = Freed(x)
  /\ UNCHANGED <<mutex, crashes>>

-------------------------------------------------------------------------------
(* A process stops: its sessions end, and so do the locks they hold.       *)
Crash(p) ==
  LET here(c) == Home[c] = p IN
  /\ crashes < MaxCrashes
  /\ crashes' = crashes + 1
  /\ phase' = [c \in Clients |-> IF here(c) THEN "idle" ELSE phase[c]]
  /\ advisory' = [a \in Accounts |-> IF advisory[a] \in Clients /\ here(advisory[a])
                                     THEN Nobody ELSE advisory[a]]
  /\ previous' = [s \in Sections |-> IF here(s) THEN Nobody ELSE previous[s]]
  /\ tails' = [k \in Keys |-> IF k[1] = p THEN Nobody ELSE tails[k]]
  /\ depth' = [k \in Keys |-> IF k[1] = p THEN 0 ELSE depth[k]]
  /\ releases' = [k \in Keys |-> IF k[1] = p THEN 0 ELSE releases[k]]
  /\ UNCHANGED <<ticket, asked>>

(* What a section does once it has been asked for, and a transaction once  *)
(* it has been sent.                                                       *)
Advance(s) ==
  Start(s) \/ Reserve(s) \/ Granted(s) \/ NeedsQuery(s) \/ GetsQuery(s) \/ Finish(s)
Progress(x) == Begin(x) \/ Granted(x) \/ End(x)

Next ==
  \/ \E s \in Sections : Run(s) \/ Advance(s) \/ LockFails(s)
  \/ \E x \in Transactions : Ask(x) \/ Progress(x)
  \/ \E k \in Keys : Release(k)
  \/ \E p \in Processes : Crash(p)

(* The pools and PostgreSQL serve whoever waits in turn, and what runs     *)
(* ends; nobody has to ask.                                                *)
Fairness == /\ \A s \in Sections : SF_vars(Advance(s))
            /\ \A x \in Transactions : SF_vars(Progress(x))

Spec == Init /\ [][Next]_vars /\ Fairness

-------------------------------------------------------------------------------
(* Properties *)

(* Seen from outside this is the lock its header promises: critical        *)
(* sections and transactions of an account exclude each other, whichever   *)
(* process they are in, whatever fails.                                    *)
Inside(a) == {c \in Clients : phase[c] \in Critical /\ Account[c] = a}
OwnerOf(a) == IF Inside(a) = {} THEN Nobody ELSE CHOOSE c \in Inside(a) : TRUE

Abstract == INSTANCE AccountMutex WITH owner <- [a \in Accounts |-> OwnerOf(a)]
Serialized == Abstract!Spec

(* The in-process queue alone serializes a process: of the sections of one *)
(* key at most one has left the queue.  Unit tests run without the         *)
(* advisory lock and rely on it, and so does a section that runs while     *)
(* its predecessor gives its connection back.                              *)
OneAtATime ==
  \A s, t \in Live : s # t /\ Key(s) = Key(t) => phase[s] = "queued" \/ phase[t] = "queued"

(* Sections of a key start in the order they were asked for, across        *)
(* failures and across the deletion of the key's entries.                  *)
NoOvertaking ==
  [][\A s, t \in Live : phase[s] = "queued" /\ phase'[s] = "reserving" /\ Key(s) = Key(t)
       => ticket[s] <= ticket[t]]_vars

(* The map does not grow without bound, and a key with work in flight is   *)
(* not forgotten: an entry is there for as long as something of its key is.*)
EntriesFollowWork ==
  \A k \in Keys : depth[k] = Cardinality({s \in Live : Key(s) = k}) + releases[k]

(* A section that was asked for runs to its end, unless its process stops: *)
(* "one rejected order must not wedge an account forever".                 *)
EverySectionEnds == \A s \in Sections : phase[s] = "queued" ~> phase[s] = "idle"

(* "Keeping locks on their own pool makes the two independent": a section  *)
(* that holds an account never waits for a query connection all of which   *)
(* are held by transactions that wait for the locks of such sections.      *)
PoolsIndependent ==
  \A p \in Processes :
    LET starved == {s \in Sections : Home[s] = p /\ phase[s] = "wanting"}
        waiting == {x \in Transactions : Home[x] = p /\ phase[x] = "locking"
                                           /\ advisory[Account[x]] \in starved}
    IN Cardinality(waiting) < QueryPool
===============================================================================
