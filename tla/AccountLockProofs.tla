---------------------------- MODULE AccountLockProofs ----------------------------
(***************************************************************************)
(* The account lock serializes, for any number of processes, accounts,     *)
(* sections and transactions, any pools and any failures.                  *)
(*                                                                         *)
(* The queue of a key is a chain of promises, and nothing in the code says *)
(* how long it is.  The tickets do: a queued section's promise belongs to  *)
(* the ticket before its own, a section that waits for nobody has the      *)
(* lowest ticket of its key, and the tail is the last ticket given out.    *)
(* The entry of a key can be dropped with its last release because depth   *)
(* counts the sections and the releases that are still to come.            *)
(***************************************************************************)
EXTENDS AccountLock, FiniteSetTheorems, TLAPS

LiveOf(k) == {s \in Live : Key(s) = k}

Typing ==
  /\ phase \in [Clients -> SectionPhase \cup TransactionPhase]
  /\ \A s \in Sections : phase[s] \in SectionPhase
  /\ \A x \in Transactions : phase[x] \in TransactionPhase
  /\ previous \in [Sections -> Sections \cup {Nobody}]
  /\ tails \in [Keys -> Sections \cup {Nobody}]
  /\ depth \in [Keys -> Nat]
  /\ releases \in [Keys -> Nat]
  /\ advisory \in [Accounts -> Clients \cup {Nobody}]
  /\ ticket \in [Sections -> Nat]
  /\ asked \in [Keys -> Nat]
  /\ crashes \in Nat

TicketsGiven == \A s \in Live : ticket[s] <= asked[Key(s)]
TicketsDiffer ==
  \A s, t \in Live : Key(s) = Key(t) /\ ticket[s] = ticket[t] => s = t
FirstInLine ==
  \A s \in Live : previous[s] = Nobody =>
    \A t \in Live : Key(t) = Key(s) => ticket[s] <= ticket[t]
NextInLine ==
  \A s \in Sections : previous[s] # Nobody =>
    /\ phase[s] = "queued"
    /\ previous[s] \in Live
    /\ Key(previous[s]) = Key(s)
    /\ ticket[s] = ticket[previous[s]] + 1
LastInLine ==
  \A k \in Keys : IF tails[k] = Nobody THEN LiveOf(k) = {}
                  ELSE /\ tails[k] \in Live
                       /\ Key(tails[k]) = k
                       /\ ticket[tails[k]] = asked[k]
Counted == \A k \in Keys : depth[k] = Cardinality(LiveOf(k)) + releases[k]
Owners ==
  /\ \A c \in Clients : phase[c] \in Critical => advisory[Account[c]] = c
  /\ \A a \in Accounts : advisory[a] # Nobody =>
       /\ Account[advisory[a]] = a
       /\ phase[advisory[a]] \in Critical

Queue == TicketsGiven /\ TicketsDiffer /\ FirstInLine /\ NextInLine /\ LastInLine
IInv == Typing /\ Queue /\ Counted /\ Owners

-------------------------------------------------------------------------------
LEMMA KeysOfSections == \A c \in Clients : Key(c) \in Keys /\ Account[c] \in Accounts
BY ClientsAssumption DEF Key, Keys

LEMMA LiveOfFinite == \A k \in Keys : IsFiniteSet(LiveOf(k)) /\ Cardinality(LiveOf(k)) \in Nat
<1>1. ASSUME NEW k \in Keys PROVE LiveOf(k) \subseteq Sections
  BY DEF LiveOf, Live
<1>. QED BY <1>1, ClientsAssumption, FS_Subset, FS_CardinalityType

(* The lock starts with nobody in it. *)
LEMMA InitHolds == Init => IInv
<1>. SUFFICES ASSUME Init PROVE IInv
  OBVIOUS
<1>1. Live = {}
  BY DEF Init, Live, Clients
<1>2. \A k \in Keys : LiveOf(k) = {}
  BY <1>1 DEF LiveOf
<1>3. Typing
  BY ClientsAssumption DEF Init, Typing, Clients, SectionPhase, TransactionPhase
<1>4. Queue
  BY <1>1, <1>2 DEF Init, Queue, TicketsGiven, TicketsDiffer, FirstInLine, NextInLine, LastInLine
<1>5. Counted
  BY <1>2, FS_EmptySet DEF Init, Counted
<1>6. Owners
  BY DEF Init, Owners, Clients, Critical
<1>. QED BY <1>3, <1>4, <1>5, <1>6 DEF IInv

-------------------------------------------------------------------------------
(* What a step leaves alone *)

(* A step of the queue that changes nobody's place keeps the queue: no     *)
(* section comes or goes, and the mutex is not touched.                    *)
LEMMA QueueKept ==
  ASSUME IInv, UNCHANGED mutex, Typing', Live' = Live,
         \A s \in Sections : phase[s] = "queued" /\ previous[s] # Nobody => phase'[s] = "queued"
  PROVE  Queue' /\ Counted'
<1>1. \A s : Key(s)' = Key(s)
  BY DEF Key
<1>2. \A k : LiveOf(k)' = LiveOf(k)
  BY <1>1 DEF LiveOf
<1>3. TicketsGiven' /\ TicketsDiffer' /\ FirstInLine'
  BY <1>1 DEF IInv, Queue, TicketsGiven, TicketsDiffer, FirstInLine, mutex
<1>4. NextInLine'
  BY <1>1 DEF IInv, Queue, NextInLine, mutex
<1>5. LastInLine'
  BY <1>1, <1>2 DEF IInv, Queue, LastInLine, mutex
<1>6. Counted'
  BY <1>2 DEF IInv, Counted, mutex
<1>. QED BY <1>3, <1>4, <1>5, <1>6 DEF Queue

(* Nobody enters or leaves a critical section: the owners are the same.    *)
LEMMA OwnersKept ==
  ASSUME Owners, UNCHANGED advisory,
         \A c \in Clients : phase'[c] \in Critical <=> phase[c] \in Critical,
         advisory \in [Accounts -> Clients \cup {Nobody}]
  PROVE  Owners'
BY DEF Owners

(* A client that goes from one waiting phase to another.                   *)
LEMMA WaitingStep ==
  ASSUME IInv, UNCHANGED <<mutex, advisory, crashes>>,
         NEW c \in Clients, NEW from, NEW to, Becomes(c, from, to),
         from \in Critical <=> to \in Critical,
         c \in Sections => to \in SectionPhase \ {"idle"} /\ from # "idle",
         c \in Transactions => to \in TransactionPhase,
         c \in Sections /\ from = "queued" => previous[c] = Nobody
  PROVE  IInv'
<1>1. Typing'
  BY ClientsAssumption DEF IInv, Typing, Becomes, mutex, Clients
<1>2. Live' = Live
  BY ClientsAssumption DEF IInv, Typing, Becomes, Live, Clients
<1>3. \A s \in Sections : phase[s] = "queued" /\ previous[s] # Nobody => phase'[s] = "queued"
  BY DEF IInv, Typing, Becomes
<1>4. Owners'
  <2>1. \A d \in Clients : phase'[d] \in Critical <=> phase[d] \in Critical
    BY DEF IInv, Typing, Becomes
  <2>. QED BY <2>1, OwnersKept DEF IInv, Typing
<1>. QED BY <1>1, <1>2, <1>3, <1>4, QueueKept DEF IInv

-------------------------------------------------------------------------------
(* The steps *)

LEMMA RunKeeps == ASSUME IInv, NEW s \in Sections, Run(s) PROVE IInv'
<1>. DEFINE k == Key(s)
<1>1. k \in Keys /\ s \in Clients
  BY KeysOfSections DEF Clients
<1>2. Typing'
  BY <1>1, ClientsAssumption DEF IInv, Typing, Run, Becomes, SectionPhase, Clients
<1>3. Live' = Live \cup {s} /\ s \notin Live
  BY DEF IInv, Typing, Run, Becomes, Live, Clients
<1>4. \A t : Key(t)' = Key(t)
  BY DEF Key
<1>5. /\ \A t \in Sections : ticket'[t] = IF t = s THEN asked[k] + 1 ELSE ticket[t]
      /\ \A t \in Sections : previous'[t] = IF t = s THEN tails[k] ELSE previous[t]
      /\ \A j \in Keys : asked'[j] = IF j = k THEN asked[k] + 1 ELSE asked[j]
      /\ \A j \in Keys : tails'[j] = IF j = k THEN s ELSE tails[j]
      /\ \A j \in Keys : asked[j] \in Nat
      /\ \A t \in Sections : ticket[t] \in Nat
      /\ \A t \in Sections : Key(t) \in Keys
  BY <1>1, KeysOfSections DEF IInv, Typing, Run, Clients
<1>6. TicketsGiven'
  BY <1>3, <1>4, <1>5 DEF IInv, Queue, TicketsGiven, Live
<1>7. TicketsDiffer'
  <2>1. \A t \in Live : Key(t) = k => ticket[t] < ticket'[s]
    BY <1>5 DEF IInv, Queue, TicketsGiven, Live
  <2>. QED BY <1>3, <1>4, <1>5, <2>1 DEF IInv, Queue, TicketsDiffer, Live
<1>8. FirstInLine'
  <2>1. tails[k] = Nobody => \A t \in Live : Key(t) # k
    BY <1>1 DEF IInv, Queue, LastInLine, LiveOf
  <2>2. \A t \in Live : Key(t) = k => ticket[t] < ticket'[s]
    BY <1>5 DEF IInv, Queue, TicketsGiven, Live
  <2>. QED BY <1>3, <1>4, <1>5, <2>1, <2>2 DEF IInv, Queue, FirstInLine, Live
<1>9. NextInLine'
  <2>1. tails[k] # Nobody => /\ tails[k] \in Live
                             /\ Key(tails[k]) = k
                             /\ ticket[tails[k]] = asked[k]
    BY <1>1 DEF IInv, Queue, LastInLine
  <2>2. phase'[s] = "queued" /\ \A t \in Sections \ {s} : phase'[t] = phase[t]
    BY <1>1 DEF IInv, Typing, Run, Becomes, Clients
  <2>. QED BY <1>3, <1>4, <1>5, <2>1, <2>2 DEF IInv, Queue, NextInLine, Live
<1>10. LastInLine'
  <2>1. \A j \in Keys \ {k} : LiveOf(j)' = LiveOf(j)
    BY <1>3, <1>4 DEF LiveOf
  <2>2. s # Nobody
    BY ClientsAssumption DEF Clients
  <2>. QED BY <1>3, <1>4, <1>5, <2>1, <2>2 DEF IInv, Queue, LastInLine, Live
<1>11. Counted'
  <2>1. \A j \in Keys \ {k} : LiveOf(j)' = LiveOf(j)
    BY <1>3, <1>4 DEF LiveOf
  <2>2. LiveOf(k)' = LiveOf(k) \cup {s} /\ s \notin LiveOf(k)
    BY <1>3, <1>4 DEF LiveOf
  <2>3. Cardinality(LiveOf(k)') = Cardinality(LiveOf(k)) + 1
    BY <1>1, <2>2, LiveOfFinite, FS_AddElement
  <2>4. depth'[k] = depth[k] + 1 /\ releases' = releases /\ \A j \in Keys \ {k} : depth'[j] = depth[j]
    BY <1>1 DEF IInv, Typing, Run
  <2>5. Cardinality(LiveOf(k)) \in Nat /\ releases[k] \in Nat
    BY <1>1, LiveOfFinite DEF IInv, Typing
  <2>. QED BY <2>1, <2>3, <2>4, <2>5 DEF IInv, Counted
<1>12. Owners'
  <2>1. \A c \in Clients : phase'[c] \in Critical <=> phase[c] \in Critical
    BY DEF IInv, Typing, Run, Becomes, Critical
  <2>. QED BY <2>1, OwnersKept DEF IInv, Typing, Run
<1>. QED BY <1>2, <1>6, <1>7, <1>8, <1>9, <1>10, <1>11, <1>12 DEF IInv, Queue

(* A section that is over leaves the head of its queue. *)
LEMMA SettlesKeeps ==
  ASSUME IInv, NEW s \in Sections, phase[s] # "queued", phase[s] # "idle", Settles(s),
         phase' = [phase EXCEPT ![s] = "idle"], Typing'
  PROVE  Queue' /\ Counted'
<1>. DEFINE k == Key(s)
<1>1. k \in Keys /\ s \in Clients /\ s # Nobody
  BY KeysOfSections, ClientsAssumption DEF Clients
<1>2. Live' = Live \ {s} /\ s \in Live
  BY <1>1 DEF IInv, Typing, Live, Clients
<1>3. \A t : Key(t)' = Key(t)
  BY DEF Key
<1>4. previous[s] = Nobody
  BY DEF IInv, Queue, NextInLine
<1>5. \A t \in Live : Key(t) = k => ticket[s] <= ticket[t]
  BY <1>2, <1>4 DEF IInv, Queue, FirstInLine
<1>6. /\ \A t \in Sections : previous'[t] = IF previous[t] = s THEN Nobody ELSE previous[t]
      /\ \A j \in Keys : tails'[j] = IF j = k /\ tails[k] = s THEN Nobody ELSE tails[j]
      /\ UNCHANGED <<depth, ticket, asked>>
      /\ \A t \in Sections : ticket[t] \in Nat /\ Key(t) \in Keys
      /\ \A j \in Keys : asked[j] \in Nat
  BY <1>1, KeysOfSections DEF IInv, Typing, Settles, Clients
<1>7. TicketsGiven' /\ TicketsDiffer'
  BY <1>2, <1>3, <1>6 DEF IInv, Queue, TicketsGiven, TicketsDiffer
<1>8. FirstInLine'
  <2>1. SUFFICES ASSUME NEW t \in Live', previous'[t] = Nobody,
                        NEW u \in Live', Key(u) = Key(t)
                 PROVE  ticket[t] <= ticket[u]
    BY <1>3, <1>6 DEF FirstInLine
  <2>2. t \in Live /\ u \in Live /\ t \in Sections /\ u \in Sections /\ t # s /\ u # s
    BY <1>2, <2>1 DEF Live
  <2>3. CASE previous[t] = Nobody
    BY <2>1, <2>2, <2>3 DEF IInv, Queue, FirstInLine
  <2>4. CASE previous[t] # Nobody
    <3>1. previous[t] = s
      BY <1>6, <2>1, <2>2, <2>4
    <3>2. Key(s) = Key(t) /\ ticket[t] = ticket[s] + 1
      BY <2>2, <3>1, <1>1 DEF IInv, Queue, NextInLine
    <3>3. ticket[s] <= ticket[u] /\ ticket[s] # ticket[u]
      BY <1>2, <1>5, <2>1, <2>2, <3>2 DEF IInv, Queue, TicketsDiffer
    <3>. QED BY <1>6, <2>2, <3>2, <3>3
  <2>. QED BY <2>3, <2>4
<1>9. NextInLine'
  <2>1. SUFFICES ASSUME NEW t \in Sections, previous'[t] # Nobody
                 PROVE  /\ phase'[t] = "queued" /\ previous'[t] \in Live'
                        /\ Key(previous'[t]) = Key(t) /\ ticket[t] = ticket[previous'[t]] + 1
    BY <1>3, <1>6 DEF NextInLine
  <2>2. previous'[t] = previous[t] /\ previous[t] # s /\ previous[t] # Nobody
    BY <1>6, <2>1
  <2>3. phase[t] = "queued" /\ previous[t] \in Live /\ Key(previous[t]) = Key(t)
          /\ ticket[t] = ticket[previous[t]] + 1
    BY <2>2 DEF IInv, Queue, NextInLine
  <2>4. phase'[t] = "queued"
    BY <2>3 DEF IInv, Typing, Clients
  <2>. QED BY <1>2, <2>2, <2>3, <2>4
<1>10. LastInLine'
  <2>1. SUFFICES ASSUME NEW j \in Keys
                 PROVE  IF tails'[j] = Nobody THEN LiveOf(j)' = {}
                        ELSE tails'[j] \in Live' /\ Key(tails'[j]) = j /\ ticket[tails'[j]] = asked[j]
    BY <1>3, <1>6 DEF LastInLine
  <2>2. CASE j = k /\ tails[k] = s
    <3>1. ticket[s] = asked[k] /\ tails'[j] = Nobody
      BY <1>1, <1>6, <2>2 DEF IInv, Queue, LastInLine
    <3>2. \A t \in Live : Key(t) = k => t = s
      BY <1>2, <1>5, <1>6, <3>1 DEF IInv, Queue, TicketsGiven, TicketsDiffer, Live
    <3>. QED BY <1>2, <1>3, <2>2, <3>1, <3>2 DEF LiveOf
  <2>3. CASE ~(j = k /\ tails[k] = s)
    <3>1. tails'[j] = tails[j]
      BY <1>6, <2>3
    <3>2. CASE tails[j] = Nobody
      BY <1>2, <1>3, <3>1, <3>2 DEF IInv, Queue, LastInLine, LiveOf
    <3>3. CASE tails[j] # Nobody
      <4>1. tails[j] \in Live /\ Key(tails[j]) = j /\ ticket[tails[j]] = asked[j]
        BY <3>3 DEF IInv, Queue, LastInLine
      <4>2. tails[j] # s
        BY <2>3, <4>1
      <4>. QED BY <1>2, <3>1, <3>3, <4>1, <4>2
    <3>. QED BY <3>2, <3>3
  <2>. QED BY <2>2, <2>3
<1>11. Counted'
  <2>1. \A j \in Keys \ {k} : LiveOf(j)' = LiveOf(j)
    BY <1>2, <1>3 DEF LiveOf
  <2>2. LiveOf(k)' = LiveOf(k) \ {s} /\ s \in LiveOf(k)
    BY <1>2, <1>3 DEF LiveOf
  <2>3. Cardinality(LiveOf(k)') = Cardinality(LiveOf(k)) - 1
    BY <1>1, <2>2, LiveOfFinite, FS_RemoveElement
  <2>4. releases'[k] = releases[k] + 1 /\ depth' = depth
          /\ \A j \in Keys \ {k} : releases'[j] = releases[j]
    BY <1>1 DEF IInv, Typing, Settles
  <2>5. Cardinality(LiveOf(k)) \in Nat /\ releases[k] \in Nat
    BY <1>1, LiveOfFinite DEF IInv, Typing
  <2>. QED BY <2>1, <2>3, <2>4, <2>5 DEF IInv, Counted
<1>. QED BY <1>7, <1>8, <1>9, <1>10, <1>11 DEF Queue

(* The release of a settled task is counted, and when it drops the entry   *)
(* of a key no section of that key is left.                                *)
LEMMA ReleaseKeeps == ASSUME IInv, NEW k \in Keys, Release(k) PROVE IInv'
<1>1. Live' = Live /\ \A t : Key(t)' = Key(t)
  BY DEF Release, Live, Key
<1>2. \A j : LiveOf(j)' = LiveOf(j)
  BY <1>1 DEF LiveOf
<1>3. /\ Cardinality(LiveOf(k)) \in Nat /\ depth[k] \in Nat /\ releases[k] \in Nat
      /\ depth[k] = Cardinality(LiveOf(k)) + releases[k] /\ releases[k] > 0
  BY LiveOfFinite DEF IInv, Typing, Counted, Release
<1>4. /\ depth' = [depth EXCEPT ![k] = depth[k] - 1]
      /\ releases' = [releases EXCEPT ![k] = releases[k] - 1]
  <2>1. CASE depth[k] - 1 > 0
    BY <1>3, <2>1 DEF Release
  <2>2. CASE ~(depth[k] - 1 > 0)
    BY <1>3, <2>2 DEF Release
  <2>. QED BY <2>1, <2>2
<1>5. tails' = tails
  <2>1. CASE depth[k] - 1 > 0
    BY <1>3, <2>1 DEF Release
  <2>2. CASE ~(depth[k] - 1 > 0)
    <3>1. Cardinality(LiveOf(k)) = 0
      BY <1>3, <2>2
    <3>2. LiveOf(k) = {}
      BY <3>1, LiveOfFinite, FS_EmptySet
    <3>3. tails[k] = Nobody
      BY <3>2 DEF IInv, Queue, LastInLine, LiveOf
    <3>4. tails' = [tails EXCEPT ![k] = Nobody]
      BY <1>3, <2>2 DEF Release
    <3>. QED BY <3>3, <3>4 DEF IInv, Typing
  <2>. QED BY <2>1, <2>2
<1>6. Typing'
  <2>1. UNCHANGED <<phase, previous, advisory, ticket, asked, crashes>>
    BY DEF Release
  <2>2. depth[k] - 1 \in Nat /\ releases[k] - 1 \in Nat
    BY <1>3
  <2>. QED BY <1>4, <1>5, <2>1, <2>2 DEF IInv, Typing
<1>7. Queue'
  BY <1>1, <1>2, <1>5 DEF IInv, Queue, TicketsGiven, TicketsDiffer, FirstInLine, NextInLine,
                          LastInLine, Release
<1>8. Counted'
  BY <1>2, <1>3, <1>4 DEF IInv, Counted, Typing
<1>9. Owners'
  BY DEF IInv, Owners, Release
<1>. QED BY <1>6, <1>7, <1>8, <1>9 DEF IInv

(* Nobody but the new owner was inside: the lock was free. *)
LEMMA GrantedKeeps == ASSUME IInv, NEW c \in Clients, Granted(c) PROVE IInv'
<1>1. Account[c] \in Accounts
  BY ClientsAssumption
<1>2. Typing'
  BY <1>1, ClientsAssumption DEF IInv, Typing, Granted, Becomes, mutex, SectionPhase,
                                 TransactionPhase, Clients
<1>3. Live' = Live
  BY DEF IInv, Typing, Granted, Becomes, Live, Clients
<1>4. \A s \in Sections : phase[s] = "queued" /\ previous[s] # Nobody => phase'[s] = "queued"
  BY DEF IInv, Typing, Granted, Becomes, Clients
<1>5. Owners'
  <2>1. /\ \A d \in Clients : phase'[d] = IF d = c THEN "inside" ELSE phase[d]
        /\ \A a \in Accounts : advisory'[a] = IF a = Account[c] THEN c ELSE advisory[a]
        /\ advisory[Account[c]] = Nobody
        /\ \A d \in Clients : Account[d] \in Accounts
        /\ phase[c] = "locking"
    BY ClientsAssumption DEF IInv, Typing, Granted, Becomes
  <2>2. Nobody \notin Clients
    BY ClientsAssumption
  <2>3. \A d \in Clients : phase'[d] \in Critical => advisory'[Account[d]] = d
    BY <1>1, <2>1, <2>2 DEF IInv, Owners
  <2>4. \A a \in Accounts : advisory'[a] # Nobody =>
          Account[advisory'[a]] = a /\ phase'[advisory'[a]] \in Critical
    BY <1>1, <2>1 DEF IInv, Owners, Typing, Critical
  <2>. QED BY <2>3, <2>4 DEF Owners
<1>. QED BY <1>2, <1>3, <1>4, <1>5, QueueKept DEF IInv, Granted

(* Whoever leaves frees his own account and nobody else's. *)
LEMMA LeavingFrees ==
  ASSUME IInv, NEW c \in Clients, phase' = [phase EXCEPT ![c] = "idle"], advisory' = Freed(c)
  PROVE  Owners' /\ advisory' \in [Accounts -> Clients \cup {Nobody}]
<1>1. /\ Account[c] \in Accounts
      /\ \A d \in Clients : Account[d] \in Accounts
      /\ Nobody \notin Clients
  BY ClientsAssumption
<1>2. /\ \A d \in Clients : phase'[d] = IF d = c THEN "idle" ELSE phase[d]
      /\ \A a \in Accounts : advisory'[a] = IF a = Account[c] /\ advisory[a] = c
                                            THEN Nobody ELSE advisory[a]
  BY <1>1 DEF IInv, Typing, Freed
<1>3. \A d \in Clients : phase'[d] \in Critical => advisory'[Account[d]] = d
  BY <1>1, <1>2 DEF IInv, Owners, Critical
<1>4. \A a \in Accounts : advisory'[a] # Nobody =>
        Account[advisory'[a]] = a /\ phase'[advisory'[a]] \in Critical
  BY <1>1, <1>2 DEF IInv, Owners, Typing, Critical
<1>5. advisory' \in [Accounts -> Clients \cup {Nobody}]
  BY <1>1 DEF IInv, Typing, Freed
<1>. QED BY <1>3, <1>4, <1>5 DEF Owners

LEMMA FinishKeeps == ASSUME IInv, NEW s \in Sections, Finish(s) PROVE IInv'
<1>1. s \in Clients
  BY DEF Clients
<1>2. Owners' /\ advisory' \in [Accounts -> Clients \cup {Nobody}]
  BY <1>1, LeavingFrees DEF Finish
<1>3. Typing'
  BY <1>1, <1>2, KeysOfSections, ClientsAssumption
     DEF IInv, Typing, Finish, Settles, SectionPhase, TransactionPhase, Clients
<1>. QED BY <1>2, <1>3, SettlesKeeps DEF Finish, IInv

LEMMA LockFailsKeeps == ASSUME IInv, NEW s \in Sections, LockFails(s) PROVE IInv'
<1>1. s \in Clients
  BY DEF Clients
<1>2. Typing'
  BY <1>1, KeysOfSections, ClientsAssumption
     DEF IInv, Typing, LockFails, Settles, SectionPhase, TransactionPhase, Clients
<1>3. Owners'
  <2>1. \A d \in Clients : phase'[d] \in Critical <=> phase[d] \in Critical
    BY <1>1 DEF IInv, Typing, LockFails, Critical
  <2>. QED BY <2>1, OwnersKept DEF IInv, Typing, LockFails
<1>. QED BY <1>2, <1>3, SettlesKeeps DEF LockFails, IInv

LEMMA EndKeeps == ASSUME IInv, NEW x \in Transactions, End(x) PROVE IInv'
<1>1. x \in Clients /\ x \notin Sections
  BY ClientsAssumption DEF Clients
<1>2. Owners' /\ advisory' \in [Accounts -> Clients \cup {Nobody}]
  BY <1>1, LeavingFrees DEF End, Becomes
<1>3. \A s \in Sections : phase'[s] = phase[s]
  BY <1>1 DEF IInv, Typing, End, Becomes
<1>4. Live' = Live
  BY <1>3 DEF Live
<1>5. Typing'
  BY <1>1, <1>2, <1>3, ClientsAssumption
     DEF IInv, Typing, End, Becomes, mutex, TransactionPhase, SectionPhase, Clients
<1>. QED BY <1>2, <1>3, <1>4, <1>5, QueueKept DEF End, IInv

(* A process that stops takes its queues and its locks with it. *)
LEMMA CrashKeeps == ASSUME IInv, NEW p \in Processes, Crash(p) PROVE IInv'
<1>1. \A c \in Clients : Account[c] \in Accounts /\ Home[c] \in Processes /\ Key(c) \in Keys
                         /\ Key(c)[1] = Home[c]
  BY ClientsAssumption DEF Key, Keys
<1>2. \A s \in Sections : s \in Clients
  BY DEF Clients
<1>3. Typing'
  <2>1. phase' \in [Clients -> SectionPhase \cup TransactionPhase]
    BY DEF IInv, Typing, Crash, SectionPhase
  <2>2. /\ \A s \in Sections : phase'[s] \in SectionPhase
        /\ \A x \in Transactions : phase'[x] \in TransactionPhase
    BY <1>2 DEF IInv, Typing, Crash, SectionPhase, TransactionPhase, Clients
  <2>3. /\ previous' \in [Sections -> Sections \cup {Nobody}]
        /\ tails' \in [Keys -> Sections \cup {Nobody}]
        /\ advisory' \in [Accounts -> Clients \cup {Nobody}]
    BY DEF IInv, Typing, Crash
  <2>4. depth' \in [Keys -> Nat] /\ releases' \in [Keys -> Nat]
    BY DEF IInv, Typing, Crash
  <2>5. ticket' \in [Sections -> Nat] /\ asked' \in [Keys -> Nat] /\ crashes' \in Nat
    BY DEF IInv, Typing, Crash
  <2>. QED BY <2>1, <2>2, <2>3, <2>4, <2>5 DEF Typing
<1>4. /\ \A c \in Clients : phase'[c] = IF Home[c] = p THEN "idle" ELSE phase[c]
      /\ \A s \in Sections : previous'[s] = IF Home[s] = p THEN Nobody ELSE previous[s]
      /\ \A k \in Keys : tails'[k] = IF k[1] = p THEN Nobody ELSE tails[k]
      /\ UNCHANGED <<ticket, asked>>
      /\ \A t : Key(t)' = Key(t)
  BY <1>2 DEF Crash, Key
<1>5. Live' = {s \in Live : Home[s] # p}
  BY <1>2, <1>4 DEF Live
<1>6. \A s, t \in Live : Key(s) = Key(t) => (Home[s] = p <=> Home[t] = p)
  BY DEF Key
<1>7. \A k \in Keys : LiveOf(k)' = IF k[1] = p THEN {} ELSE LiveOf(k)
  BY <1>1, <1>2, <1>4, <1>5 DEF LiveOf, Live
<1>8. TicketsGiven' /\ TicketsDiffer'
  BY <1>4, <1>5 DEF IInv, Queue, TicketsGiven, TicketsDiffer
<1>9. FirstInLine'
  <2>1. \A s \in Live' : previous'[s] = previous[s] /\ s \in Live
    BY <1>4, <1>5 DEF Live
  <2>. QED BY <1>4, <1>5, <2>1 DEF IInv, Queue, FirstInLine
<1>10. NextInLine'
  <2>1. SUFFICES ASSUME NEW s \in Sections, previous'[s] # Nobody
                 PROVE  /\ phase'[s] = "queued" /\ previous'[s] \in Live'
                        /\ Key(previous'[s]) = Key(s) /\ ticket[s] = ticket[previous'[s]] + 1
    BY <1>4 DEF NextInLine
  <2>2. Home[s] # p /\ previous'[s] = previous[s] /\ previous[s] # Nobody
    BY <1>4, <2>1
  <2>3. phase[s] = "queued" /\ previous[s] \in Live /\ Key(previous[s]) = Key(s)
          /\ ticket[s] = ticket[previous[s]] + 1
    BY <2>2 DEF IInv, Queue, NextInLine
  <2>4. s \in Live
    BY <2>3 DEF Live
  <2>. QED BY <1>2, <1>4, <1>5, <1>6, <2>2, <2>3, <2>4
<1>11. LastInLine'
  <2>1. SUFFICES ASSUME NEW k \in Keys
                 PROVE  IF tails'[k] = Nobody THEN LiveOf(k)' = {}
                        ELSE tails'[k] \in Live' /\ Key(tails'[k]) = k /\ ticket[tails'[k]] = asked[k]
    BY <1>4 DEF LastInLine
  <2>2. CASE k[1] = p
    BY <1>4, <1>7, <2>2
  <2>3. CASE k[1] # p /\ tails[k] = Nobody
    BY <1>4, <1>7, <2>3 DEF IInv, Queue, LastInLine
  <2>4. CASE k[1] # p /\ tails[k] # Nobody
    <3>1. tails[k] \in Live /\ Key(tails[k]) = k /\ ticket[tails[k]] = asked[k]
      BY <2>4 DEF IInv, Queue, LastInLine
    <3>2. Home[tails[k]] # p
      BY <1>1, <1>2, <2>4, <3>1 DEF Live
    <3>. QED BY <1>4, <1>5, <2>4, <3>1, <3>2
  <2>. QED BY <2>2, <2>3, <2>4
<1>12. Counted'
  <2>1. \A k \in Keys : /\ depth'[k] = IF k[1] = p THEN 0 ELSE depth[k]
                        /\ releases'[k] = IF k[1] = p THEN 0 ELSE releases[k]
    BY DEF Crash
  <2>. QED BY <1>7, <2>1, FS_EmptySet DEF IInv, Counted
<1>13. Owners'
  <2>1. \A a \in Accounts : advisory'[a] = IF advisory[a] \in Clients /\ Home[advisory[a]] = p
                                           THEN Nobody ELSE advisory[a]
    BY DEF Crash
  <2>. QED BY <1>1, <1>4, <2>1, ClientsAssumption DEF IInv, Owners, Typing, Critical
<1>. QED BY <1>3, <1>8, <1>9, <1>10, <1>11, <1>12, <1>13 DEF IInv, Queue

-------------------------------------------------------------------------------
LEMMA StepKeeps == IInv /\ [Next]_vars => IInv'
<1>. SUFFICES ASSUME IInv, [Next]_vars PROVE IInv'
  OBVIOUS
<1>1. CASE UNCHANGED vars
  <2>1. Typing' /\ Live' = Live /\ Owners'
    BY <1>1 DEF IInv, Typing, Owners, Live, vars
  <2>. QED BY <1>1, <2>1, QueueKept DEF IInv, vars, mutex
<1>2. ASSUME NEW s \in Sections, Run(s) \/ Advance(s) \/ LockFails(s) PROVE IInv'
  <2>0. s \in Clients /\ s \notin Transactions
    BY ClientsAssumption DEF Clients
  <2>1. CASE Run(s)
    BY <2>1, RunKeeps
  <2>2. CASE Start(s)
    BY <2>0, <2>2, WaitingStep DEF Start, Critical, SectionPhase
  <2>3. CASE Reserve(s)
    BY <2>0, <2>3, WaitingStep DEF Reserve, Critical, SectionPhase
  <2>4. CASE Granted(s)
    BY <2>0, <2>4, GrantedKeeps
  <2>5. CASE LockFails(s)
    BY <2>5, LockFailsKeeps
  <2>6. CASE NeedsQuery(s)
    BY <2>0, <2>6, WaitingStep DEF NeedsQuery, Critical, SectionPhase
  <2>7. CASE GetsQuery(s)
    BY <2>0, <2>7, WaitingStep DEF GetsQuery, Critical, SectionPhase
  <2>8. CASE Finish(s)
    BY <2>8, FinishKeeps
  <2>. QED BY <1>2, <2>1, <2>2, <2>3, <2>4, <2>5, <2>6, <2>7, <2>8 DEF Advance
<1>3. ASSUME NEW x \in Transactions, Ask(x) \/ Progress(x) PROVE IInv'
  <2>0. x \in Clients /\ x \notin Sections
    BY ClientsAssumption DEF Clients
  <2>1. CASE Ask(x)
    BY <2>0, <2>1, WaitingStep DEF Ask, Critical, TransactionPhase
  <2>2. CASE Begin(x)
    BY <2>0, <2>2, WaitingStep DEF Begin, Critical, TransactionPhase
  <2>3. CASE Granted(x)
    BY <2>0, <2>3, GrantedKeeps
  <2>4. CASE End(x)
    BY <2>4, EndKeeps
  <2>. QED BY <1>3, <2>1, <2>2, <2>3, <2>4 DEF Progress
<1>4. ASSUME NEW k \in Keys, Release(k) PROVE IInv'
  BY <1>4, ReleaseKeeps
<1>5. ASSUME NEW p \in Processes, Crash(p) PROVE IInv'
  BY <1>5, CrashKeeps
<1>. QED BY <1>1, <1>2, <1>3, <1>4, <1>5 DEF Next

(* The queues, the counts and the owners are as described above, always.   *)
THEOREM LockInvariant == Spec => []IInv
<1>. QED BY InitHolds, StepKeeps, PTL DEF Spec

-------------------------------------------------------------------------------
(* KeyedMutex lets at most one section of a key out of its queue, whatever *)
(* throws and whenever the key's entry is dropped.                         *)
LEMMA FirstIsAlone == IInv => OneAtATime
<1>. SUFFICES ASSUME IInv, NEW s \in Live, NEW t \in Live, Key(s) = Key(t), s # t,
                     phase[s] # "queued", phase[t] # "queued"
              PROVE  FALSE
  BY DEF OneAtATime
<1>1. s \in Sections /\ t \in Sections
  BY DEF Live
<1>2. previous[s] = Nobody /\ previous[t] = Nobody
  BY <1>1 DEF IInv, Queue, NextInLine
<1>3. ticket[s] <= ticket[t] /\ ticket[t] <= ticket[s]
  BY <1>2 DEF IInv, Queue, FirstInLine
<1>4. ticket[s] = ticket[t]
  BY <1>1, <1>3 DEF IInv, Typing
<1>. QED BY <1>4 DEF IInv, Queue, TicketsDiffer

THEOREM MutexIsExclusive == Spec => []OneAtATime
<1>. QED BY LockInvariant, FirstIsAlone, PTL

(* A key's entry is there for exactly as long as something of the key is:  *)
(* a task queued or under way, or a release to come.  The map forgets no   *)
(* key with work in flight and keeps none without (mutex.ts:52).           *)
THEOREM EntriesAreCounted == Spec => []EntriesFollowWork
<1>1. IInv => EntriesFollowWork
  BY DEF IInv, Counted, LiveOf, EntriesFollowWork
<1>. QED BY <1>1, LockInvariant, PTL

(* Sections of a key start in the order in which they were asked for.      *)
THEOREM MutexIsFair == Spec => NoOvertaking
<1>1. IInv /\ [Next]_vars =>
        [\A s, t \in Live : phase[s] = "queued" /\ phase'[s] = "reserving" /\ Key(s) = Key(t)
           => ticket[s] <= ticket[t]]_vars
  <2>. SUFFICES ASSUME IInv, Next, NEW s \in Live, NEW t \in Live, Key(s) = Key(t),
                       phase[s] = "queued", phase'[s] = "reserving"
                PROVE  ticket[s] <= ticket[t]
    OBVIOUS
  <2>1. s \in Sections /\ s \in Clients
    BY DEF Live, Clients
  <2>2. phase \in [Clients -> SectionPhase \cup TransactionPhase]
    BY DEF IInv, Typing
  <2>3. PICK u \in Sections : Start(u) /\ phase'[u] # phase[u]
    <3>1. phase'[s] # phase[s]
      OBVIOUS
    <3>2. ASSUME NEW u \in Sections, Run(u) \/ Advance(u) \/ LockFails(u)
          PROVE  Start(s)
      <4>1. CASE Start(u)
        BY <2>1, <2>2, <4>1 DEF Start, Becomes
      <4>. QED BY <2>1, <2>2, <3>2, <4>1 DEF Advance, Run, Reserve, Granted, LockFails,
                  NeedsQuery, GetsQuery, Finish, Becomes
    <3>3. ASSUME NEW x \in Transactions, Ask(x) \/ Progress(x) PROVE FALSE
      BY <2>1, <2>2, <3>3 DEF Progress, Ask, Begin, Granted, End, Becomes
    <3>4. ASSUME NEW k \in Keys, Release(k) PROVE FALSE
      BY <3>1, <3>4 DEF Release
    <3>5. ASSUME NEW p \in Processes, Crash(p) PROVE FALSE
      BY <2>1, <3>5 DEF Crash
    <3>. QED BY <2>1, <3>1, <3>2, <3>3, <3>4, <3>5 DEF Next
  <2>4. u = s
    BY <2>1, <2>2, <2>3 DEF Start, Becomes
  <2>5. previous[s] = Nobody
    BY <2>3, <2>4 DEF Start
  <2>. QED BY <2>5 DEF IInv, Queue, FirstInLine
<1>. QED BY <1>1, LockInvariant, PTL DEF Spec, NoOvertaking

-------------------------------------------------------------------------------
(* Whoever is inside an account is who PostgreSQL says holds its lock.     *)
HoldersAreOwners == \A a \in Accounts : OwnerOf(a) = advisory[a]

LEMMA OwnerIsHolder == IInv => HoldersAreOwners
<1>. SUFFICES ASSUME IInv, NEW a \in Accounts PROVE OwnerOf(a) = advisory[a]
  BY DEF HoldersAreOwners
<1>1. advisory[a] \in Clients \cup {Nobody} /\ Nobody \notin Clients
  BY ClientsAssumption DEF IInv, Typing
<1>2. CASE advisory[a] = Nobody
  <2>1. Inside(a) = {}
    BY <1>1, <1>2 DEF IInv, Owners, Inside
  <2>. QED BY <1>2, <2>1 DEF OwnerOf
<1>3. CASE advisory[a] # Nobody
  <2>1. Inside(a) = {advisory[a]}
    BY <1>1, <1>3 DEF IInv, Owners, Inside
  <2>. QED BY <2>1 DEF OwnerOf
<1>. QED BY <1>2, <1>3

(* What holds of the advisory lock from one step to the next.              *)
LEMMA HolderStep ==
  ASSUME IInv, [Next]_vars
  PROVE  \/ advisory' = advisory
         \/ \E a \in Accounts, c \in Clients :
              advisory[a] = Nobody /\ advisory' = [advisory EXCEPT ![a] = c]
         \/ \E as \in SUBSET Accounts :
              advisory' = [a \in Accounts |-> IF a \in as THEN Nobody ELSE advisory[a]]
<1>1. ASSUME NEW c \in Clients, Granted(c)
      PROVE  \E a \in Accounts, d \in Clients :
               advisory[a] = Nobody /\ advisory' = [advisory EXCEPT ![a] = d]
  BY <1>1, KeysOfSections DEF Granted
<1>2. ASSUME NEW c \in Clients, advisory' = Freed(c)
      PROVE  \E as \in SUBSET Accounts :
               advisory' = [a \in Accounts |-> IF a \in as THEN Nobody ELSE advisory[a]]
  <2>. DEFINE as == {a \in Accounts : a = Account[c] /\ advisory[a] = c}
  <2>1. advisory' = [a \in Accounts |-> IF a \in as THEN Nobody ELSE advisory[a]]
    BY <1>2, KeysOfSections DEF Freed, IInv, Typing
  <2>2. as \in SUBSET Accounts
    OBVIOUS
  <2>. QED BY <2>1, <2>2
<1>3. ASSUME NEW p \in Processes, Crash(p)
      PROVE  \E as \in SUBSET Accounts :
               advisory' = [a \in Accounts |-> IF a \in as THEN Nobody ELSE advisory[a]]
  <2>. DEFINE as == {a \in Accounts : advisory[a] \in Clients /\ Home[advisory[a]] = p}
  <2>1. advisory' = [a \in Accounts |-> IF a \in as THEN Nobody ELSE advisory[a]]
    BY <1>3 DEF Crash
  <2>2. as \in SUBSET Accounts
    OBVIOUS
  <2>. QED BY <2>1, <2>2
<1>4. ASSUME NEW s \in Sections, Run(s) \/ Advance(s) \/ LockFails(s)
      PROVE  advisory' = advisory \/ Granted(s) \/ advisory' = Freed(s)
  BY <1>4 DEF Run, Advance, LockFails, Start, Reserve, NeedsQuery, GetsQuery, Finish
<1>5. ASSUME NEW x \in Transactions, Ask(x) \/ Progress(x)
      PROVE  advisory' = advisory \/ Granted(x) \/ advisory' = Freed(x)
  BY <1>5 DEF Ask, Progress, Begin, End
<1>6. ASSUME NEW k \in Keys, Release(k) PROVE advisory' = advisory
  BY <1>6 DEF Release
<1>7. Sections \subseteq Clients /\ Transactions \subseteq Clients
  BY DEF Clients
<1>8. CASE UNCHANGED vars
  BY <1>8 DEF vars
<1>9. CASE Next
  <2>1. CASE \E s \in Sections : Run(s) \/ Advance(s) \/ LockFails(s)
    BY <1>1, <1>2, <1>4, <1>7, <2>1
  <2>2. CASE \E x \in Transactions : Ask(x) \/ Progress(x)
    BY <1>1, <1>2, <1>5, <1>7, <2>2
  <2>. QED BY <1>3, <1>6, <1>9, <2>1, <2>2 DEF Next
<1>. QED BY <1>8, <1>9

(* The lock implements the mutual exclusion its header promises: every     *)
(* entry into an account's critical section finds nobody in it, and every  *)
(* other step leaves accounts or does not concern them.                    *)
THEOREM LockIsSerialized == Spec => Serialized
<1>1. Init => Abstract!Init
  <2>. SUFFICES ASSUME Init, NEW a \in Accounts PROVE OwnerOf(a) = Nobody
    BY DEF Abstract!Init
  <2>1. IInv /\ advisory[a] = Nobody
    BY InitHolds DEF Init
  <2>. QED BY <2>1, OwnerIsHolder DEF HoldersAreOwners
<1>2. IInv /\ IInv' /\ [Next]_vars => [Abstract!Next]_([a \in Accounts |-> OwnerOf(a)])
  <2>. SUFFICES ASSUME IInv, IInv', [Next]_vars
                PROVE  [Abstract!Next]_([a \in Accounts |-> OwnerOf(a)])
    OBVIOUS
  <2>. DEFINE now == [a \in Accounts |-> OwnerOf(a)]
              then == [a \in Accounts |-> OwnerOf(a)']
  <2>0. HoldersAreOwners'
    BY OwnerIsHolder, PTL
  <2>1. now = [a \in Accounts |-> advisory[a]]
    BY OwnerIsHolder DEF HoldersAreOwners
  <2>2. \A a \in Accounts : OwnerOf(a)' = advisory'[a]
    BY <2>0 DEF HoldersAreOwners
  <2>3. then = [a \in Accounts |-> advisory'[a]]
    BY <2>2
  <2>4. \/ then = now
        \/ \E a \in Accounts, c \in Clients : now[a] = Nobody /\ then = [now EXCEPT ![a] = c]
        \/ \E as \in SUBSET Accounts :
             then = [a \in Accounts |-> IF a \in as THEN Nobody ELSE now[a]]
    <3>1. CASE advisory' = advisory
      BY <2>1, <2>3, <3>1
    <3>2. ASSUME NEW a \in Accounts, NEW c \in Clients, advisory[a] = Nobody,
                 advisory' = [advisory EXCEPT ![a] = c]
          PROVE  now[a] = Nobody /\ then = [now EXCEPT ![a] = c]
      BY <2>1, <2>3, <3>2 DEF IInv, Typing
    <3>3. ASSUME NEW as \in SUBSET Accounts,
                 advisory' = [a \in Accounts |-> IF a \in as THEN Nobody ELSE advisory[a]]
          PROVE  then = [a \in Accounts |-> IF a \in as THEN Nobody ELSE now[a]]
      BY <2>1, <2>3, <3>3
    <3>. QED BY <3>1, <3>2, <3>3, HolderStep
  <2>. QED BY <2>4 DEF Abstract!Next, Abstract!Enter, Abstract!Leave
<1>. QED BY <1>1, <1>2, LockInvariant, PTL DEF Spec, Serialized, Abstract!Spec

-------------------------------------------------------------------------------
(* The pools *)

LEMMA AddedToPool ==
  ASSUME NEW S, NEW T, NEW n \in Nat, IsFiniteSet(S), Cardinality(S) <= n,
         T \subseteq S \/ \E c : T \subseteq S \cup {c} /\ Cardinality(S) < n
  PROVE  IsFiniteSet(T) /\ Cardinality(T) <= n
<1>0. Cardinality(S) \in Nat
  BY FS_CardinalityType
<1>1. CASE T \subseteq S
  BY <1>0, <1>1, FS_Subset, FS_CardinalityType
<1>2. ASSUME NEW c, T \subseteq S \cup {c}, Cardinality(S) < n
      PROVE  IsFiniteSet(T) /\ Cardinality(T) <= n
  <2>1. IsFiniteSet(S \cup {c}) /\ Cardinality(S \cup {c}) <= Cardinality(S) + 1
    BY <1>0, FS_AddElement
  <2>2. Cardinality(S \cup {c}) \in Nat
    BY <2>1, FS_CardinalityType
  <2>3. IsFiniteSet(T) /\ Cardinality(T) \in Nat /\ Cardinality(T) <= Cardinality(S \cup {c})
    BY <1>2, <2>1, FS_Subset, FS_CardinalityType
  <2>. QED BY <1>0, <1>2, <2>1, <2>2, <2>3
<1>. QED BY <1>1, <1>2

PoolsHold ==
  \A p \in Processes :
    /\ IsFiniteSet(LockConnections(p)) /\ Cardinality(LockConnections(p)) <= LockPool
    /\ IsFiniteSet(QueryConnections(p)) /\ Cardinality(QueryConnections(p)) <= QueryPool

(* Only a reservation takes a connection of the lock pool, and only the    *)
(* first statement of a task or of a transaction one of the query pool.    *)
LEMMA PoolStep == IInv /\ PoolsHold /\ [Next]_vars => PoolsHold'
<1>. SUFFICES ASSUME IInv, PoolsHold, [Next]_vars, NEW p \in Processes
              PROVE  /\ IsFiniteSet(LockConnections(p)') /\ Cardinality(LockConnections(p)') <= LockPool
                     /\ IsFiniteSet(QueryConnections(p)') /\ Cardinality(QueryConnections(p)') <= QueryPool
  BY DEF PoolsHold
<1>. DEFINE LockGrows == \E c : LockConnections(p)' \subseteq LockConnections(p) \cup {c}
                                /\ Cardinality(LockConnections(p)) < LockPool
            QueryGrows == \E c : QueryConnections(p)' \subseteq QueryConnections(p) \cup {c}
                                 /\ Cardinality(QueryConnections(p)) < QueryPool
            Goal == /\ LockConnections(p)' \subseteq LockConnections(p) \/ LockGrows
                    /\ QueryConnections(p)' \subseteq QueryConnections(p) \/ QueryGrows
<1>0. /\ phase \in [Clients -> SectionPhase \cup TransactionPhase]
      /\ \A s \in Sections : s \in Clients /\ s \notin Transactions /\ phase[s] \in SectionPhase
      /\ \A x \in Transactions : x \in Clients /\ x \notin Sections /\ phase[x] \in TransactionPhase
      /\ \A c \in Clients : c \in Sections \/ c \in Transactions
  BY ClientsAssumption DEF IInv, Typing, Clients
<1>1. ASSUME NEW c \in Clients, NEW to,
             phase' = [phase EXCEPT ![c] = to],
             c \in Sections /\ to \in Reserved =>
               phase[c] \in Reserved \/ Cardinality(LockConnections(Home[c])) < LockPool,
             to = "querying" \/ (c \in Transactions /\ to \in {"locking", "inside"}) =>
               \/ phase[c] = "querying" \/ (c \in Transactions /\ phase[c] \in {"locking", "inside"})
               \/ Cardinality(QueryConnections(Home[c])) < QueryPool
      PROVE  Goal
  <2>1. \A d \in Clients : d # c => phase'[d] = phase[d]
    BY <1>0, <1>1
  <2>2. phase'[c] = to
    BY <1>0, <1>1
  <2>3. LockConnections(p)' \subseteq LockConnections(p) \/ LockGrows
    <3>1. CASE c \in LockConnections(p) \/ c \notin LockConnections(p)'
      <4>1. \A d \in LockConnections(p)' : d \in LockConnections(p)
        BY <1>0, <2>1, <3>1 DEF LockConnections
      <4>. QED BY <4>1
    <3>2. CASE c \notin LockConnections(p) /\ c \in LockConnections(p)'
      <4>1. LockConnections(p)' \subseteq LockConnections(p) \cup {c}
        BY <1>0, <2>1 DEF LockConnections
      <4>2. Cardinality(LockConnections(p)) < LockPool
        BY <1>1, <2>2, <3>2 DEF LockConnections
      <4>. QED BY <4>1, <4>2
    <3>. QED BY <3>1, <3>2
  <2>4. QueryConnections(p)' \subseteq QueryConnections(p) \/ QueryGrows
    <3>1. CASE c \in QueryConnections(p) \/ c \notin QueryConnections(p)'
      <4>1. \A d \in QueryConnections(p)' : d \in QueryConnections(p)
        BY <2>1, <3>1 DEF QueryConnections
      <4>. QED BY <4>1
    <3>2. CASE c \notin QueryConnections(p) /\ c \in QueryConnections(p)'
      <4>1. QueryConnections(p)' \subseteq QueryConnections(p) \cup {c}
        BY <2>1 DEF QueryConnections
      <4>2. Cardinality(QueryConnections(p)) < QueryPool
        BY <1>1, <2>2, <3>2 DEF QueryConnections
      <4>. QED BY <4>1, <4>2
    <3>. QED BY <3>1, <3>2
  <2>. QED BY <2>3, <2>4
<1>2. ASSUME NEW s \in Sections, Run(s) \/ Advance(s) \/ LockFails(s) PROVE Goal
  <2>1. CASE Run(s)
    BY <1>0, <1>1, <2>1 DEF Run, Becomes, Reserved, Critical
  <2>2. CASE Start(s)
    BY <1>0, <1>1, <2>2 DEF Start, Becomes, Reserved, Critical
  <2>3. CASE Reserve(s)
    BY <1>0, <1>1, <2>3 DEF Reserve, Becomes
  <2>4. CASE Granted(s)
    BY <1>0, <1>1, <2>4 DEF Granted, Becomes, Reserved
  <2>5. CASE NeedsQuery(s)
    BY <1>0, <1>1, <2>5 DEF NeedsQuery, Becomes, Reserved, Critical
  <2>6. CASE GetsQuery(s)
    BY <1>0, <1>1, <2>6 DEF GetsQuery, Becomes, Reserved, Critical
  <2>7. CASE Finish(s)
    BY <1>0, <1>1, <2>7 DEF Finish, Reserved, Critical
  <2>8. CASE LockFails(s)
    BY <1>0, <1>1, <2>8 DEF LockFails, Reserved, Critical
  <2>. QED BY <1>2, <2>1, <2>2, <2>3, <2>4, <2>5, <2>6, <2>7, <2>8 DEF Advance
<1>3. ASSUME NEW x \in Transactions, Ask(x) \/ Progress(x) PROVE Goal
  <2>1. CASE Ask(x)
    BY <1>0, <1>1, <2>1 DEF Ask, Becomes
  <2>2. CASE Begin(x)
    BY <1>0, <1>1, <2>2 DEF Begin, Becomes
  <2>3. CASE Granted(x)
    BY <1>0, <1>1, <2>3 DEF Granted, Becomes
  <2>4. CASE End(x)
    BY <1>0, <1>1, <2>4 DEF End, Becomes
  <2>. QED BY <1>3, <2>1, <2>2, <2>3, <2>4 DEF Progress
<1>4. ASSUME NEW q \in Processes, Crash(q) PROVE Goal
  <2>1. \A c \in Clients : phase'[c] = phase[c] \/ phase'[c] = "idle"
    BY <1>4 DEF Crash
  <2>2. LockConnections(p)' \subseteq LockConnections(p)
    BY <1>0, <2>1 DEF LockConnections, Reserved, Critical
  <2>3. QueryConnections(p)' \subseteq QueryConnections(p)
    BY <2>1 DEF QueryConnections
  <2>. QED BY <2>2, <2>3
<1>5. ASSUME UNCHANGED vars \/ \E k \in Keys : Release(k) PROVE Goal
  BY <1>5 DEF vars, Release, LockConnections, QueryConnections
<1>6. Goal
  BY <1>2, <1>3, <1>4, <1>5 DEF Next
<1>. QED
  <2>1. LockPool \in Nat /\ QueryPool \in Nat
    BY BoundsAssumption
  <2>. QED BY <1>6, <2>1, AddedToPool DEF PoolsHold

(* Neither pool is ever asked for more connections than it has, whatever   *)
(* crashes or fails while they are held (db/client.ts:47): a reservation   *)
(* is given back on every way out of a section.                            *)
THEOREM PoolsAreRespected == Spec => []TypeOK
<1>1. Init => PoolsHold
  <2>. SUFFICES ASSUME Init, NEW p \in Processes
                PROVE  LockConnections(p) = {} /\ QueryConnections(p) = {}
    BY BoundsAssumption, FS_EmptySet DEF PoolsHold
  <2>. QED BY DEF Init, LockConnections, QueryConnections, Reserved, Critical, Clients
<1>2. IInv /\ PoolsHold => TypeOK
  BY DEF IInv, Typing, PoolsHold, TypeOK
<1>. QED BY <1>1, <1>2, LockInvariant, PoolStep, PTL DEF Spec
===============================================================================
