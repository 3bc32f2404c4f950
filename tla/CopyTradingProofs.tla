--------------------------- MODULE CopyTradingProofs ---------------------------
(***************************************************************************)
(* What is proved about CopyTrading, for any group, keys, number of        *)
(* overlapping requests and bound on the faults: its types, that it        *)
(* implements CopyPromise, and what its records and its flattens are worth.*)
(*                                                                         *)
(* The argument: an intent is served by at most one request, the one that  *)
(* inserted it (Sole), and where that request stands with an account tells *)
(* the state of the account's child and order (PhaseInv).                  *)
(***************************************************************************)
EXTENDS CopyTrading, TLAPS

USE CopyAssumption

Phases == {"out", "skip", "insert", "act", "accepted", "refused", "done", "lost"}
Steps == {"idle", "checked", "recorded", "inserting", "fanned"}
Call == [key : Keys \cup {"none"}, step : Steps, phase : [Accounts -> Phases]]
OrderState == Holding \cup {"none", "working", "canceled", "closed"}
ChildState == {"none", "PENDING", "SKIPPED", "ACCEPTED", "REJECTED"}

\* A request that has inserted its intent.
Past(c) == calls[c].step \in {"recorded", "inserting", "fanned"}

Sole ==
  \A c \in Calls :
    /\ calls[c].step # "idle" => calls[c].key \in Keys
    /\ Past(c) => intents[calls[c].key] \in {"PENDING", "FANNED_OUT"}
    /\ \A d \in Calls : Past(c) /\ Past(d) /\ calls[c].key = calls[d].key => c = d
    /\ calls[c].step \in {"idle", "checked", "recorded"} => \A a \in Accounts : calls[c].phase[a] = "out"

ChildOK(k, a) ==
  /\ intents[k] = "none" => children[k][a] = "none"
  /\ Places(k) /\ children[k][a] \in {"none", "SKIPPED"} => orders[k][a] = "none"
  /\ Places(k) /\ children[k][a] = "ACCEPTED" => orders[k][a] # "none"
  /\ intents[k] = "COMPLETE" => children[k][a] # "PENDING"

PhaseOK(c, a) ==
  LET k == calls[c].key  p == calls[c].phase[a] IN
    /\ p \in {"out", "skip", "insert"} => children[k][a] = "none"
    /\ p \in {"act", "accepted", "refused", "lost"} => children[k][a] = "PENDING"
    /\ p = "done" => children[k][a] \notin {"none", "PENDING"}
    /\ Places(k) /\ p = "act" => orders[k][a] = "none"
    /\ Places(k) /\ p = "accepted" => orders[k][a] # "none"

ChildInv == \A k \in Keys, a \in Accounts : ChildOK(k, a)
PhaseInv == \A c \in Calls, a \in Accounts : Past(c) => PhaseOK(c, a)

CopyInv == CopyTypeOK /\ Sole /\ ChildInv /\ PhaseInv

-------------------------------------------------------------------------------
(* What the updates do, field by field *)

LEMMA TypedCalls == CopyTypeOK => calls \in [Calls -> Call]
BY DEF CopyTypeOK, Call, Steps, Phases

LEMMA Advanced ==
  ASSUME CopyTypeOK, NEW c \in Calls, NEW a \in Accounts, NEW p \in Phases, Advance(c, a, p)
  PROVE  /\ calls' \in [Calls -> Call]
         /\ \A d \in Calls : calls'[d].key = calls[d].key /\ calls'[d].step = calls[d].step
         /\ \A d \in Calls, b \in Accounts :
              calls'[d].phase[b] = IF d = c /\ b = a THEN p ELSE calls[d].phase[b]
<1>1. calls \in [Calls -> Call]
  BY TypedCalls
<1>2. calls' = [calls EXCEPT ![c] = [calls[c] EXCEPT !.phase = [calls[c].phase EXCEPT ![a] = p]]]
  BY DEF Advance
<1>3. calls[c] \in Call
  BY <1>1
<1>4. [calls[c].phase EXCEPT ![a] = p] \in [Accounts -> Phases]
  BY <1>3 DEF Call
<1>5. [calls[c] EXCEPT !.phase = [calls[c].phase EXCEPT ![a] = p]] \in Call
  BY <1>3, <1>4 DEF Call
<1>6. calls' \in [Calls -> Call]
  BY <1>1, <1>2, <1>5
<1>7. \A d \in Calls : calls'[d] = IF d = c THEN [calls[c] EXCEPT !.phase = [calls[c].phase EXCEPT ![a] = p]] ELSE calls[d]
  BY <1>1, <1>2
<1> QED
  BY <1>3, <1>6, <1>7 DEF Call

LEMMA Went ==
  ASSUME CopyTypeOK, NEW c \in Calls, NEW step \in Steps, Goto(c, step)
  PROVE  /\ calls' \in [Calls -> Call]
         /\ \A d \in Calls : calls'[d].key = calls[d].key /\ calls'[d].phase = calls[d].phase
         /\ \A d \in Calls : calls'[d].step = IF d = c THEN step ELSE calls[d].step
<1>1. calls \in [Calls -> Call]
  BY TypedCalls
<1>2. calls' = [calls EXCEPT ![c] = [calls[c] EXCEPT !.step = step]]
  BY DEF Goto
<1>3. [calls[c] EXCEPT !.step = step] \in Call
  BY <1>1 DEF Call
<1> QED
  BY <1>1, <1>2, <1>3 DEF Call

LEMMA Idle == NoCall \in Call /\ NoCall.step = "idle" /\ \A a \in Accounts : NoCall.phase[a] = "out"
BY DEF NoCall, Call, Steps, Phases

LEMMA Ended ==
  ASSUME CopyTypeOK, NEW c \in Calls, End(c)
  PROVE  calls' \in [Calls -> Call] /\ \A d \in Calls : calls'[d] = IF d = c THEN NoCall ELSE calls[d]
BY TypedCalls, Idle DEF End

LEMMA Told ==
  ASSUME CopyTypeOK, NEW c \in Calls, NEW a \in Accounts, NEW s \in ChildState,
         calls[c].key \in Keys, SetChild(c, a, s)
  PROVE  /\ children' \in [Keys -> [Accounts -> ChildState]]
         /\ \A k \in Keys, b \in Accounts :
              children'[k][b] = IF k = calls[c].key /\ b = a THEN s ELSE children[k][b]
<1> DEFINE k == calls[c].key
<1>1. children \in [Keys -> [Accounts -> ChildState]]
  BY DEF CopyTypeOK, ChildState
<1>2. children' = [children EXCEPT ![k] = [children[k] EXCEPT ![a] = s]]
  BY DEF SetChild
<1>3. [children[k] EXCEPT ![a] = s] \in [Accounts -> ChildState]
  BY <1>1
<1> QED
  BY <1>1, <1>2, <1>3

-------------------------------------------------------------------------------
(* A step of a request with one account touches the child and the order    *)
(* of that account alone; every other request serves another intent.       *)
LEMMA AccountStep ==
  ASSUME CopyInv, NEW c \in Calls, NEW a \in Accounts, NEW p \in Phases,
         Past(c), calls[c].step # "recorded", Advance(c, a, p), UNCHANGED intents,
         \A k \in Keys, b \in Accounts :
           k # calls[c].key \/ b # a => /\ children'[k][b] = children[k][b]
                                        /\ orders'[k][b] = "none" <=> orders[k][b] = "none",
         ChildOK(calls[c].key, a)', PhaseOK(c, a)'
  PROVE  (Sole /\ ChildInv /\ PhaseInv)'
<1>1. /\ \A d \in Calls : calls'[d].key = calls[d].key /\ calls'[d].step = calls[d].step
      /\ \A d \in Calls, b \in Accounts :
           calls'[d].phase[b] = IF d = c /\ b = a THEN p ELSE calls[d].phase[b]
  BY Advanced DEF CopyInv
<1>2. \A d \in Calls : Past(d)' = Past(d)
  BY <1>1 DEF Past
<1>3. Sole'
  BY <1>1, <1>2 DEF Sole, CopyInv, Past
<1>4. calls[c].key \in Keys
  BY DEF CopyInv, Sole, Past
<1>5. ChildInv'
  <2> SUFFICES ASSUME NEW k \in Keys, NEW b \in Accounts PROVE ChildOK(k, b)'
    BY DEF ChildInv
  <2>1. CASE k = calls[c].key /\ b = a
    BY <2>1, <1>1 DEF ChildOK, Places
  <2>2. CASE k # calls[c].key \/ b # a
    BY <2>2 DEF CopyInv, ChildInv, ChildOK, Places
  <2> QED
    BY <2>1, <2>2
<1>6. PhaseInv'
  <2> SUFFICES ASSUME NEW d \in Calls, NEW b \in Accounts, Past(d)' PROVE PhaseOK(d, b)'
    BY DEF PhaseInv
  <2>1. Past(d) /\ calls[d].key \in Keys /\ PhaseOK(d, b)
    BY <1>2 DEF CopyInv, PhaseInv, Sole, Past
  <2>2. CASE d = c /\ b = a
    BY <2>2
  <2>3. CASE d # c \/ b # a
    <3>1. calls[d].key # calls[c].key \/ b # a
      BY <2>1, <2>3 DEF CopyInv, Sole
    <3> QED
      BY <3>1, <2>1, <2>3, <1>1 DEF PhaseOK, Places
  <2> QED
    BY <2>2, <2>3
<1> QED
  BY <1>3, <1>5, <1>6

LEMMA OrderSet ==
  ASSUME CopyTypeOK, NEW k \in Keys, NEW a \in Accounts, NEW s \in OrderState,
         orders' = [orders EXCEPT ![k][a] = s]
  PROVE  /\ orders' \in [Keys -> [Accounts -> OrderState]]
         /\ \A j \in Keys, b \in Accounts :
              orders'[j][b] = IF j = k /\ b = a THEN s ELSE orders[j][b]
<1>1. orders \in [Keys -> [Accounts -> OrderState]]
  BY DEF CopyTypeOK, OrderState
<1>2. orders' = [orders EXCEPT ![k] = [orders[k] EXCEPT ![a] = s]]
  OBVIOUS
<1>3. [orders[k] EXCEPT ![a] = s] \in [Accounts -> OrderState]
  BY <1>1
<1> QED
  BY <1>1, <1>2, <1>3

LEMMA TypesKept ==
  ASSUME CopyTypeOK, calls' \in [Calls -> Call],
         children' \in [Keys -> [Accounts -> ChildState]],
         orders' \in [Keys -> [Accounts -> OrderState]],
         UNCHANGED <<worldVars, intents, opened>>, faults' \in 0..MaxFaults
  PROVE  CopyTypeOK'
BY DEF CopyTypeOK, Call, Steps, Phases, ChildState, OrderState, Holding, worldVars

\* What a step with one account starts from.
LEMMA Where ==
  ASSUME CopyInv, NEW c \in Calls, Past(c), NEW a \in Accounts
  PROVE  /\ calls[c].key \in Keys /\ intents[calls[c].key] \in {"PENDING", "FANNED_OUT"}
         /\ PhaseOK(c, a) /\ ChildOK(calls[c].key, a)
         /\ children \in [Keys -> [Accounts -> ChildState]]
         /\ orders \in [Keys -> [Accounts -> OrderState]]
         /\ faults \in 0..MaxFaults
BY DEF CopyInv, Sole, Past, PhaseInv, ChildInv, CopyTypeOK, ChildState, OrderState

LEMMA InsertKeeps ==
  ASSUME CopyInv, NEW c \in Calls, NEW a \in Accounts, InsertChild(c, a)
  PROVE  CopyInv'
<1> DEFINE k == calls[c].key
<1>0. Past(c) /\ calls[c].step # "recorded"
  BY DEF InsertChild, Serving, Past
<1>1. PICK s \in ChildState, p \in Phases :
        /\ calls[c].phase[a] \in {"skip", "insert"}
        /\ SetChild(c, a, s) /\ Advance(c, a, p)
        /\ \/ s = "SKIPPED" /\ p = "done"
           \/ s = "PENDING" /\ p = "act"
           \/ s = "PENDING" /\ p = "accepted" /\ KindOf[k] = "FLATTEN"
  BY DEF InsertChild, ChildState, Phases
<1>2. UNCHANGED <<worldVars, intents, orders, opened, faults>>
  BY DEF InsertChild
<1>3. /\ k \in Keys /\ children[k][a] = "none" /\ (Places(k) => orders[k][a] = "none")
      /\ intents[k] \in {"PENDING", "FANNED_OUT"}
  BY <1>0, <1>1, Where DEF PhaseOK, ChildOK
<1>4. /\ children' \in [Keys -> [Accounts -> ChildState]]
      /\ \A j \in Keys, b \in Accounts :
           children'[j][b] = IF j = k /\ b = a THEN s ELSE children[j][b]
  BY <1>1, <1>3, Told DEF CopyInv
<1>5. /\ calls' \in [Calls -> Call] /\ calls'[c].key = k /\ calls'[c].phase[a] = p
  BY <1>1, Advanced DEF CopyInv
<1>6. CopyTypeOK'
  BY <1>0, <1>2, <1>4, <1>5, Where, TypesKept DEF CopyInv
<1>7. ChildOK(k, a)' /\ PhaseOK(c, a)'
  BY <1>1, <1>2, <1>3, <1>4, <1>5 DEF ChildOK, PhaseOK, Places
<1> QED
  BY <1>0, <1>1, <1>2, <1>4, <1>6, <1>7, AccountStep DEF CopyInv

LEMMA SubmitKeeps ==
  ASSUME CopyInv, NEW c \in Calls, NEW a \in Accounts, Submit(c, a)
  PROVE  CopyInv'
<1> DEFINE k == calls[c].key
<1>0. Past(c) /\ calls[c].step # "recorded" /\ calls[c].phase[a] = "act" /\ Places(k) /\ Advance(c, a, "accepted")
  BY DEF Submit, Acting, Serving, Past
<1>1. UNCHANGED <<worldVars, intents, children, opened, faults>>
  BY DEF Submit
<1>2. k \in Keys /\ orders[k][a] = "none" /\ children[k][a] = "PENDING" /\ intents[k] \in {"PENDING", "FANNED_OUT"}
  BY <1>0, Where DEF PhaseOK
<1>3. /\ orders' \in [Keys -> [Accounts -> OrderState]]
      /\ \A j \in Keys, b \in Accounts :
           orders'[j][b] = IF j = k /\ b = a THEN "working" ELSE orders[j][b]
  BY <1>2, OrderSet DEF Submit, CopyInv, OrderState
<1>4. calls' \in [Calls -> Call] /\ calls'[c].key = k /\ calls'[c].phase[a] = "accepted"
  BY <1>0, Advanced DEF CopyInv, Phases
<1>5. CopyTypeOK'
  BY <1>0, <1>1, <1>3, <1>4, Where, TypesKept DEF CopyInv
<1>6. ChildOK(k, a)' /\ PhaseOK(c, a)'
  BY <1>1, <1>2, <1>3, <1>4 DEF ChildOK, PhaseOK, Places
<1> QED
  BY <1>0, <1>1, <1>3, <1>5, <1>6, AccountStep DEF CopyInv, Phases

\* A cancellation or a flatten never makes an order, nor takes one away.
LEMMA OthersKeep ==
  ASSUME CopyInv, NEW c \in Calls, NEW a \in Accounts, NEW p \in {"accepted", "refused", "lost"},
         Past(c), calls[c].step # "recorded", Advance(c, a, p),
         calls[c].phase[a] \in {"act", "accepted", "refused"},
         p = "accepted" => ~Places(calls[c].key),
         UNCHANGED <<worldVars, intents, children, opened>>, faults' \in 0..MaxFaults,
         orders' \in [Keys -> [Accounts -> OrderState]],
         \A k \in Keys, b \in Accounts : orders'[k][b] = "none" <=> orders[k][b] = "none"
  PROVE  CopyInv'
<1> DEFINE k == calls[c].key
<1>1. k \in Keys /\ children[k][a] = "PENDING" /\ intents[k] \in {"PENDING", "FANNED_OUT"}
  BY Where DEF PhaseOK
<1>2. calls' \in [Calls -> Call] /\ calls'[c].key = k /\ calls'[c].phase[a] = p
  BY Advanced DEF CopyInv, Phases
<1>3. CopyTypeOK'
  BY <1>2, Where, TypesKept DEF CopyInv
<1>4. ChildOK(k, a)' /\ PhaseOK(c, a)'
  BY <1>1, <1>2 DEF ChildOK, PhaseOK, Places
<1> QED
  BY <1>3, <1>4, AccountStep DEF CopyInv, Phases

LEMMA AskedKeeps ==
  ASSUME CopyInv, NEW c \in Calls, NEW a \in Accounts,
         CancelOrder(c, a) \/ Flatten(c, a) \/ Refuse(c, a)
  PROVE  CopyInv'
<1> DEFINE k == calls[c].key
<1>0. Past(c) /\ calls[c].step # "recorded" /\ calls[c].phase[a] = "act"
  BY DEF CancelOrder, Flatten, Refuse, Acting, Serving, Past
<1>1. k \in Keys /\ orders \in [Keys -> [Accounts -> OrderState]] /\ faults \in 0..MaxFaults
  BY <1>0, Where
<1>2. CASE CancelOrder(c, a)
  <2>0. Of[k] \in Keys /\ ~Places(k)
    BY <1>1, <1>2 DEF CancelOrder, Places
  <2>1. UNCHANGED <<worldVars, intents, children, opened, faults>>
    BY <1>2 DEF CancelOrder
  <2>2. CASE orders[Of[k]][a] = "working"
    <3>1. orders' = [orders EXCEPT ![Of[k]][a] = "canceled"] /\ Advance(c, a, "accepted")
      BY <1>2, <2>2 DEF CancelOrder
    <3>2. /\ orders' \in [Keys -> [Accounts -> OrderState]]
          /\ \A j \in Keys, b \in Accounts :
               orders'[j][b] = IF j = Of[k] /\ b = a THEN "canceled" ELSE orders[j][b]
      BY <2>0, <3>1, OrderSet DEF CopyInv, OrderState
    <3> QED
      BY <1>0, <1>1, <2>0, <2>1, <2>2, <3>1, <3>2, OthersKeep
  <2>3. CASE orders[Of[k]][a] # "working"
    <3>1. UNCHANGED orders /\ Advance(c, a, "refused")
      BY <1>2, <2>3 DEF CancelOrder
    <3> QED
      BY <1>0, <1>1, <2>1, <3>1, OthersKeep
  <2> QED
    BY <2>2, <2>3
<1>3. CASE Flatten(c, a)
  <2>1. /\ UNCHANGED <<worldVars, intents, children, opened, faults>>
        /\ Advance(c, a, "accepted") /\ ~Places(k) /\ orders' = Closing(a)
    BY <1>3 DEF Flatten, Places
  <2>2. /\ orders' \in [Keys -> [Accounts -> OrderState]]
        /\ \A j \in Keys, b \in Accounts : orders'[j][b] = "none" <=> orders[j][b] = "none"
    BY <1>1, <2>1 DEF Closing, OrderState, Holding
  <2> QED
    BY <1>0, <1>1, <2>1, <2>2, OthersKeep
<1>4. CASE Refuse(c, a)
  BY <1>0, <1>1, <1>4, OthersKeep DEF Refuse
<1> QED
  BY <1>2, <1>3, <1>4

LEMMA FailingKeeps ==
  ASSUME CopyInv, NEW c \in Calls, NEW a \in Accounts, FailsLate(c, a) \/ AnswerLost(c, a)
  PROVE  CopyInv'
<1>0. Past(c) /\ calls[c].step # "recorded" /\ calls[c].phase[a] \in {"accepted", "refused"}
  BY DEF FailsLate, AnswerLost, Serving, Past
<1>1. orders \in [Keys -> [Accounts -> OrderState]] /\ faults \in 0..MaxFaults
  BY <1>0, Where
<1>2. faults' \in 0..MaxFaults
  BY <1>1 DEF FailsLate, AnswerLost, Fault
<1>3. CASE FailsLate(c, a)
  BY <1>0, <1>1, <1>2, <1>3, OthersKeep DEF FailsLate
<1>4. CASE AnswerLost(c, a)
  BY <1>0, <1>1, <1>2, <1>4, OthersKeep DEF AnswerLost
<1> QED
  BY <1>3, <1>4

LEMMA AnswerKeeps ==
  ASSUME CopyInv, NEW c \in Calls, NEW a \in Accounts, setChild(c, a)
  PROVE  CopyInv'
<1> DEFINE k == calls[c].key
<1>0. Past(c) /\ calls[c].step # "recorded" /\ Advance(c, a, "done")
  BY DEF setChild, Serving, Past
<1>1. PICK s \in ChildState :
        /\ SetChild(c, a, s)
        /\ \/ s = "ACCEPTED" /\ calls[c].phase[a] = "accepted"
           \/ s = "REJECTED" /\ calls[c].phase[a] = "refused"
  BY DEF setChild, ChildState
<1>2. UNCHANGED <<worldVars, intents, orders, opened, faults>>
  BY DEF setChild
<1>3. /\ k \in Keys /\ (Places(k) /\ s = "ACCEPTED" => orders[k][a] # "none")
      /\ intents[k] \in {"PENDING", "FANNED_OUT"}
  BY <1>0, <1>1, Where DEF PhaseOK
<1>4. /\ children' \in [Keys -> [Accounts -> ChildState]]
      /\ \A j \in Keys, b \in Accounts :
           children'[j][b] = IF j = k /\ b = a THEN s ELSE children[j][b]
  BY <1>1, <1>3, Told DEF CopyInv
<1>5. calls' \in [Calls -> Call] /\ calls'[c].key = k /\ calls'[c].phase[a] = "done"
  BY <1>0, Advanced DEF CopyInv, Phases
<1>6. CopyTypeOK'
  BY <1>0, <1>2, <1>4, <1>5, Where, TypesKept DEF CopyInv
<1>7. ChildOK(k, a)' /\ PhaseOK(c, a)'
  BY <1>1, <1>2, <1>3, <1>4, <1>5 DEF ChildOK, PhaseOK, Places
<1> QED
  BY <1>0, <1>2, <1>4, <1>6, <1>7, AccountStep DEF CopyInv, Phases

-------------------------------------------------------------------------------
(* The steps of a request as a whole *)

LEMMA BeginKeeps ==
  ASSUME CopyInv, NEW c \in Calls, NEW k \in Keys, Begin(c, k)
  PROVE  CopyInv'
<1> DEFINE fresh == [NoCall EXCEPT !.key = k, !.step = "checked"]
<1>1. /\ fresh \in Call /\ fresh.key = k /\ fresh.step = "checked"
      /\ \A a \in Accounts : fresh.phase[a] = "out"
  BY DEF NoCall, Call, Steps, Phases
<1>2. calls' = [calls EXCEPT ![c] = fresh] /\ UNCHANGED <<worldVars, intents, children, orders, opened, faults>>
  BY DEF Begin
<1>3. calls' \in [Calls -> Call] /\ \A d \in Calls : calls'[d] = IF d = c THEN fresh ELSE calls[d]
  BY <1>1, <1>2, TypedCalls DEF CopyInv
<1> HIDE DEF fresh
<1>4. CopyTypeOK'
  BY <1>2, <1>3, TypesKept DEF CopyInv, CopyTypeOK, ChildState, OrderState
<1>5. \A d \in Calls : Past(d)' => Past(d) /\ calls'[d] = calls[d]
  BY <1>1, <1>3 DEF Past
<1>6. Sole'
  BY <1>1, <1>2, <1>3, <1>5 DEF CopyInv, Sole
<1>7. ChildInv' /\ PhaseInv'
  BY <1>2, <1>5 DEF CopyInv, ChildInv, PhaseInv, ChildOK, PhaseOK, Places
<1> QED
  BY <1>4, <1>6, <1>7 DEF CopyInv

\* Requests that end take nothing of the others with them.
LEMMA EndKeeps ==
  ASSUME CopyInv, NEW c \in Calls, End(c), UNCHANGED <<intents, children, orders>>,
         CopyTypeOK'
  PROVE  CopyInv'
<1>1. \A d \in Calls : calls'[d] = IF d = c THEN NoCall ELSE calls[d]
  BY Ended DEF CopyInv
<1>2. \A d \in Calls : Past(d)' => Past(d) /\ calls'[d] = calls[d]
  BY <1>1, Idle DEF Past
<1>3. Sole'
  BY <1>1, <1>2, Idle DEF CopyInv, Sole
<1>4. ChildInv' /\ PhaseInv'
  BY <1>2 DEF CopyInv, ChildInv, PhaseInv, ChildOK, PhaseOK, Places
<1> QED
  BY <1>3, <1>4 DEF CopyInv

LEMMA LeaderLostKeeps ==
  ASSUME CopyInv, NEW c \in Calls, LeaderLost(c)
  PROVE  CopyInv'
<1>1. End(c) /\ group' = "PAUSED" /\ UNCHANGED <<fit, members, intents, children, orders, opened, faults>>
  BY DEF LeaderLost
<1>2. calls' \in [Calls -> Call]
  BY <1>1, Ended DEF CopyInv
<1>3. CopyTypeOK'
  BY <1>1, <1>2 DEF CopyInv, CopyTypeOK, Call, Steps, Phases
<1> QED
  BY <1>1, <1>3, EndKeeps

LEMMA RecordKeeps ==
  ASSUME CopyInv, NEW c \in Calls, recordIntent(c)
  PROVE  CopyInv'
<1> DEFINE k == calls[c].key
<1>0. calls[c].step = "checked" /\ k \in Keys /\ UNCHANGED <<worldVars, children, orders, faults>>
  BY DEF recordIntent, Serving, CopyInv, Sole
<1>1. CASE intents[k] # "none"
  <2>1. End(c) /\ UNCHANGED <<intents, opened>>
    BY <1>1 DEF recordIntent
  <2>2. calls' \in [Calls -> Call]
    BY <2>1, Ended DEF CopyInv
  <2>3. CopyTypeOK'
    BY <1>0, <2>1, <2>2, TypesKept DEF CopyInv, CopyTypeOK, ChildState, OrderState
  <2> QED
    BY <1>0, <2>1, <2>3, EndKeeps
<1>2. CASE intents[k] = "none"
  <2>1. Record(c)
    BY <1>2 DEF recordIntent
  <2>2. /\ calls' \in [Calls -> Call]
        /\ \A d \in Calls : calls'[d].key = calls[d].key /\ calls'[d].phase = calls[d].phase
        /\ \A d \in Calls : calls'[d].step = IF d = c THEN "recorded" ELSE calls[d].step
    BY <2>1, Went DEF Record, CopyInv, Steps
  <2>3. /\ intents' \in [Keys -> {"none", "PENDING", "FANNED_OUT", "COMPLETE"}]
        /\ intents'[k] \in {"PENDING", "FANNED_OUT"}
        /\ \A j \in Keys \ {k} : intents'[j] = intents[j]
    BY <1>0, <2>1 DEF Record, CopyInv, CopyTypeOK
  <2>4. opened' \in [Keys -> SUBSET (Keys \X Accounts)]
    BY <1>0, <2>1 DEF Record, OpenNow, CopyInv, CopyTypeOK
  <2>5. CopyTypeOK'
    BY <1>0, <2>2, <2>3, <2>4 DEF CopyInv, CopyTypeOK, Call, Steps, Phases, worldVars
  <2>6. \A d \in Calls : /\ Past(d) => Past(d)' /\ calls[d].key # k
                         /\ Past(d)' => d = c \/ Past(d)
    BY <1>0, <1>2, <2>2 DEF Past, CopyInv, Sole
  <2>7. \A a \in Accounts : calls[c].phase[a] = "out" /\ children[k][a] = "none"
    BY <1>0, <1>2 DEF CopyInv, Sole, ChildInv, ChildOK
  <2>8. Sole'
    <3> SUFFICES ASSUME NEW d \in Calls, NEW e \in Calls
                 PROVE  /\ calls'[d].step # "idle" => calls'[d].key \in Keys
                        /\ Past(d)' => intents'[calls'[d].key] \in {"PENDING", "FANNED_OUT"}
                        /\ Past(d)' /\ Past(e)' /\ calls'[d].key = calls'[e].key => d = e
                        /\ calls'[d].step \in {"idle", "checked", "recorded"} =>
                             \A a \in Accounts : calls'[d].phase[a] = "out"
      BY DEF Sole
    <3>1. calls'[d].step # "idle" => calls'[d].key \in Keys
      BY <1>0, <2>2 DEF CopyInv, Sole
    <3>2. Past(d)' => intents'[calls'[d].key] \in {"PENDING", "FANNED_OUT"}
      BY <1>0, <2>2, <2>3, <2>6 DEF CopyInv, Sole, Past
    <3>3. Past(d)' /\ Past(e)' /\ calls'[d].key = calls'[e].key => d = e
      BY <2>2, <2>6 DEF CopyInv, Sole
    <3>4. calls'[d].step \in {"idle", "checked", "recorded"} => \A a \in Accounts : calls'[d].phase[a] = "out"
      BY <2>2, <2>7 DEF CopyInv, Sole
    <3> QED
      BY <3>1, <3>2, <3>3, <3>4
  <2>9. ChildInv'
    BY <1>0, <2>3, <2>7 DEF CopyInv, ChildInv, ChildOK, Places
  <2>10. PhaseInv'
    <3> SUFFICES ASSUME NEW d \in Calls, NEW a \in Accounts, Past(d)' PROVE PhaseOK(d, a)'
      BY DEF PhaseInv
    <3>1. CASE d = c
      BY <1>0, <2>2, <2>7, <3>1 DEF PhaseOK
    <3>2. CASE d # c
      BY <1>0, <2>2, <2>6, <3>2 DEF CopyInv, PhaseInv, PhaseOK, Places
    <3> QED
      BY <3>1, <3>2
  <2> QED
    BY <2>5, <2>8, <2>9, <2>10 DEF CopyInv
<1> QED
  BY <1>1, <1>2

LEMMA ReadKeeps ==
  ASSUME CopyInv, NEW c \in Calls, ReadMembers(c)
  PROVE  CopyInv'
<1> DEFINE k == calls[c].key
           next == IF Places(k) THEN "inserting" ELSE "fanned"
           phase == [a \in Accounts |-> IF a \notin Members(k) THEN "out"
                                        ELSE IF Skipped(k, a) THEN "skip" ELSE "insert"]
<1>0. calls[c].step = "recorded" /\ k \in Keys /\ UNCHANGED <<worldVars, intents, children, orders, opened, faults>>
  BY DEF ReadMembers, Serving, CopyInv, Sole
<1>1. calls' = [calls EXCEPT ![c] = [calls[c] EXCEPT !.step = next, !.phase = phase]]
  BY DEF ReadMembers
<1>2. phase \in [Accounts -> {"out", "skip", "insert"}]
  OBVIOUS
<1>3. next \in {"inserting", "fanned"}
  OBVIOUS
<1> HIDE DEF phase, next
<1> DEFINE new == [calls[c] EXCEPT !.step = next, !.phase = phase]
<1>4. new \in Call /\ new.key = k /\ new.step = next /\ new.phase = phase
  <2>1. calls[c] \in Call
    BY TypedCalls DEF CopyInv
  <2>2. next \in Steps
    BY <1>3 DEF Steps
  <2>3. phase \in [Accounts -> Phases]
    BY <1>2 DEF Phases
  <2> QED
    BY <2>1, <2>2, <2>3 DEF Call
<1>11. calls' = [calls EXCEPT ![c] = new]
  BY <1>1
<1> HIDE DEF new
<1>5. /\ calls' \in [Calls -> Call]
      /\ \A d \in Calls : calls'[d] = IF d = c THEN new ELSE calls[d]
  BY <1>11, <1>4, TypedCalls DEF CopyInv
<1>6. CopyTypeOK'
  BY <1>0, <1>5, TypesKept DEF CopyInv, CopyTypeOK, ChildState, OrderState
<1>7. \A d \in Calls : (Past(d)' <=> Past(d)) /\ calls'[d].key = calls[d].key
  BY <1>0, <1>3, <1>4, <1>5 DEF Past
<1>8. Sole'
  BY <1>0, <1>3, <1>4, <1>5, <1>7 DEF CopyInv, Sole
<1>9. ChildInv'
  BY <1>0 DEF CopyInv, ChildInv, ChildOK, Places
<1>10. PhaseInv'
  <2> SUFFICES ASSUME NEW d \in Calls, NEW a \in Accounts, Past(d)' PROVE PhaseOK(d, a)'
    BY DEF PhaseInv
  <2>1. CASE d = c
    <3>1. children[k][a] = "none"
      BY <1>0 DEF CopyInv, Sole, PhaseInv, PhaseOK, Past
    <3> QED
      BY <1>0, <1>2, <1>4, <1>5, <2>1, <3>1 DEF PhaseOK
  <2>2. CASE d # c
    BY <1>0, <1>5, <1>7, <2>2 DEF CopyInv, PhaseInv, PhaseOK, Places
  <2> QED
    BY <2>1, <2>2
<1> QED
  BY <1>6, <1>8, <1>9, <1>10 DEF CopyInv

LEMMA FanOutKeeps ==
  ASSUME CopyInv, NEW c \in Calls, FanOut(c)
  PROVE  CopyInv'
<1> DEFINE k == calls[c].key
<1>0. /\ calls[c].step = "inserting" /\ Past(c) /\ k \in Keys
      /\ UNCHANGED <<worldVars, children, orders, opened, faults>>
      /\ intents' = [intents EXCEPT ![k] = "FANNED_OUT"] /\ Goto(c, "fanned")
  BY DEF FanOut, Serving, CopyInv, Sole, Past
<1>1. /\ calls' \in [Calls -> Call]
      /\ \A d \in Calls : calls'[d].key = calls[d].key /\ calls'[d].phase = calls[d].phase
      /\ \A d \in Calls : calls'[d].step = IF d = c THEN "fanned" ELSE calls[d].step
  BY <1>0, Went DEF CopyInv, Steps
<1>2. /\ intents' \in [Keys -> {"none", "PENDING", "FANNED_OUT", "COMPLETE"}]
      /\ \A j \in Keys : intents'[j] = IF j = k THEN "FANNED_OUT" ELSE intents[j]
  BY <1>0 DEF CopyInv, CopyTypeOK
<1>3. CopyTypeOK'
  BY <1>0, <1>1, <1>2 DEF CopyInv, CopyTypeOK, Call, Steps, Phases, worldVars
<1>4. \A d \in Calls : Past(d)' <=> Past(d)
  BY <1>0, <1>1 DEF Past
<1>5. Sole'
  BY <1>0, <1>1, <1>2, <1>4 DEF CopyInv, Sole
<1>6. ChildInv'
  BY <1>0, <1>2 DEF CopyInv, ChildInv, ChildOK, Places
<1>7. PhaseInv'
  BY <1>0, <1>1, <1>4 DEF CopyInv, PhaseInv, PhaseOK, Places
<1> QED
  BY <1>3, <1>5, <1>6, <1>7 DEF CopyInv

LEMMA CompleteKeeps ==
  ASSUME CopyInv, NEW c \in Calls, Complete(c)
  PROVE  CopyInv'
<1> DEFINE k == calls[c].key
<1>0. /\ calls[c].step = "fanned" /\ Past(c) /\ k \in Keys /\ End(c)
      /\ UNCHANGED <<worldVars, children, orders, opened, faults>>
  BY DEF Complete, Serving, CopyInv, Sole, Past
<1>1. calls' \in [Calls -> Call] /\ \A d \in Calls : calls'[d] = IF d = c THEN NoCall ELSE calls[d]
  BY <1>0, Ended DEF CopyInv
<1>2. CASE \E a \in Targets(c) : calls[c].phase[a] = "lost"
  <2>1. UNCHANGED intents
    BY <1>2 DEF Complete
  <2>2. CopyTypeOK'
    BY <1>0, <1>1, <2>1, TypesKept DEF CopyInv, CopyTypeOK, ChildState, OrderState
  <2> QED
    BY <1>0, <2>1, <2>2, EndKeeps
<1>3. CASE ~\E a \in Targets(c) : calls[c].phase[a] = "lost"
  <2>1. intents' = [intents EXCEPT ![k] = "COMPLETE"]
    BY <1>3 DEF Complete
  <2>2. /\ intents' \in [Keys -> {"none", "PENDING", "FANNED_OUT", "COMPLETE"}]
        /\ \A j \in Keys : intents'[j] = IF j = k THEN "COMPLETE" ELSE intents[j]
    BY <1>0, <2>1 DEF CopyInv, CopyTypeOK
  <2>3. CopyTypeOK'
    BY <1>0, <1>1, <2>2 DEF CopyInv, CopyTypeOK, Call, Steps, Phases, worldVars
  <2>4. \A a \in Accounts : calls[c].phase[a] \in {"out", "done"}
    BY <1>3 DEF Complete, Targets
  <2>5. \A a \in Accounts : children[k][a] # "PENDING"
    BY <1>0, <2>4 DEF CopyInv, PhaseInv, PhaseOK
  <2>6. \A d \in Calls : Past(d)' => Past(d) /\ calls'[d] = calls[d] /\ calls[d].key # k
    BY <1>0, <1>1, Idle DEF Past, CopyInv, Sole
  <2>7. Sole'
    <3> SUFFICES ASSUME NEW d \in Calls, NEW e \in Calls
                 PROVE  /\ calls'[d].step # "idle" => calls'[d].key \in Keys
                        /\ Past(d)' => intents'[calls'[d].key] \in {"PENDING", "FANNED_OUT"}
                        /\ Past(d)' /\ Past(e)' /\ calls'[d].key = calls'[e].key => d = e
                        /\ calls'[d].step \in {"idle", "checked", "recorded"} =>
                             \A a \in Accounts : calls'[d].phase[a] = "out"
      BY DEF Sole
    <3>1. calls'[d].step # "idle" => calls'[d].key \in Keys
      BY <1>1, Idle DEF CopyInv, Sole
    <3>2. Past(d)' => intents'[calls'[d].key] \in {"PENDING", "FANNED_OUT"}
      BY <2>2, <2>6 DEF CopyInv, Sole, Past
    <3>3. Past(d)' /\ Past(e)' /\ calls'[d].key = calls'[e].key => d = e
      BY <2>6 DEF CopyInv, Sole
    <3>4. calls'[d].step \in {"idle", "checked", "recorded"} => \A a \in Accounts : calls'[d].phase[a] = "out"
      BY <1>1, Idle DEF CopyInv, Sole
    <3> QED
      BY <3>1, <3>2, <3>3, <3>4
  <2>8. ChildInv'
    BY <1>0, <2>2, <2>5 DEF CopyInv, ChildInv, ChildOK, Places
  <2>9. PhaseInv'
    BY <1>0, <2>6 DEF CopyInv, PhaseInv, PhaseOK, Places
  <2> QED
    BY <2>3, <2>7, <2>8, <2>9 DEF CopyInv
<1> QED
  BY <1>2, <1>3

LEMMA AroundKeeps ==
  ASSUME CopyInv, Around
  PROVE  CopyInv'
<1> USE DEF Fault
<1>1. CASE Restart
  <2>1. /\ \A c \in Calls : calls'[c] = NoCall
        /\ UNCHANGED <<worldVars, intents, children, orders, opened>> /\ faults' \in 0..MaxFaults
    BY <1>1 DEF Restart, CopyInv, CopyTypeOK
  <2>2. calls' \in [Calls -> Call]
    BY <1>1, Idle DEF Restart
  <2>3. CopyTypeOK'
    BY <2>1, <2>2, TypesKept DEF CopyInv, CopyTypeOK, ChildState, OrderState
  <2>4. \A c \in Calls : ~Past(c)'
    BY <2>1, Idle DEF Past
  <2> QED
    BY <2>1, <2>3, <2>4, Idle DEF CopyInv, Sole, ChildInv, PhaseInv, ChildOK, Places
<1>2. ASSUME NEW k \in Keys, NEW a \in Accounts, OrderMoves(k, a)
      PROVE  CopyInv'
  <2>1. PICK s \in {"filled", "canceled", "closed", "kept"} : orders' = [orders EXCEPT ![k][a] = s]
    BY <1>2 DEF OrderMoves
  <2>2. orders[k][a] # "none" /\ UNCHANGED <<worldVars, intents, children, calls, opened, faults>>
    BY <1>2 DEF OrderMoves
  <2>3. /\ orders' \in [Keys -> [Accounts -> OrderState]]
        /\ \A j \in Keys, b \in Accounts : orders'[j][b] = "none" <=> orders[j][b] = "none"
    BY <2>1, <2>2, OrderSet DEF CopyInv, OrderState, Holding
  <2>4. CopyTypeOK'
    BY <2>2, <2>3, TypesKept, TypedCalls DEF CopyInv, CopyTypeOK, ChildState
  <2>5. Sole' /\ \A c \in Calls : Past(c)' <=> Past(c)
    BY <2>2 DEF CopyInv, Sole, Past
  <2>6. ChildInv'
    BY <2>2, <2>3 DEF CopyInv, ChildInv, ChildOK, Places
  <2>7. PhaseInv'
    <3> SUFFICES ASSUME NEW c \in Calls, NEW b \in Accounts, Past(c)' PROVE PhaseOK(c, b)'
      BY DEF PhaseInv
    <3>1. Past(c) /\ calls[c].key \in Keys /\ PhaseOK(c, b)
      BY <2>5 DEF CopyInv, PhaseInv, Sole, Past
    <3> QED
      BY <2>2, <2>3, <3>1 DEF PhaseOK, Places
  <2> QED
    BY <2>4, <2>5, <2>6, <2>7 DEF CopyInv
<1>3. CASE Breach \/ (\E s \in {"ACTIVE", "PAUSED", "DISABLED"} : transition(s)) \/ \E a \in Followers : updateFollower(a)
  <2>1. UNCHANGED <<intents, children, orders, calls, opened>>
    BY <1>3 DEF Breach, transition, updateFollower
  <2>2. group' \in {"ACTIVE", "PAUSED", "DISABLED"} /\ faults' \in 0..MaxFaults
    <3>1. CASE Breach
      BY <3>1 DEF Breach, CopyInv, CopyTypeOK
    <3>2. CASE \E s \in {"ACTIVE", "PAUSED", "DISABLED"} : transition(s)
      BY <3>2 DEF transition, CopyInv, CopyTypeOK
    <3>3. CASE \E a \in Followers : updateFollower(a)
      BY <3>3 DEF updateFollower, CopyInv, CopyTypeOK
    <3> QED
      BY <1>3, <3>1, <3>2, <3>3
  <2>4. fit' \in BOOLEAN
    BY <1>3, Zenon DEF Breach, transition, updateFollower, CopyInv, CopyTypeOK
  <2>5. members' \in [Followers -> {"sized", "unsized", "disabled"}]
    BY <1>3 DEF Breach, transition, updateFollower, CopyInv, CopyTypeOK
  <2>3. CopyTypeOK'
    BY <2>1, <2>2, <2>4, <2>5 DEF CopyInv, CopyTypeOK
  <2> QED
    BY <2>1, <2>3 DEF CopyInv, Sole, ChildInv, PhaseInv, ChildOK, PhaseOK, Places, Past
<1> QED
  BY <1>1, <1>2, <1>3 DEF Around

-------------------------------------------------------------------------------

LEMMA InitCopy == CopyInit => CopyInv
BY Idle DEF CopyInit, CopyInv, CopyTypeOK, Sole, ChildInv, PhaseInv, ChildOK, Past, Call, Steps, Phases, Places

LEMMA NextCopy == CopyInv /\ [CopyNext]_copyVars => CopyInv'
<1> SUFFICES ASSUME CopyInv, [CopyNext]_copyVars PROVE CopyInv'
  OBVIOUS
<1>1. CASE UNCHANGED copyVars
  BY <1>1 DEF copyVars, CopyInv, CopyTypeOK, Sole, ChildInv, PhaseInv, ChildOK, PhaseOK, Past, Places
<1>2. ASSUME NEW c \in Calls, Step(c) PROVE CopyInv'
  BY <1>2, LeaderLostKeeps, RecordKeeps, ReadKeeps, FanOutKeeps, CompleteKeeps,
     InsertKeeps, SubmitKeeps, AskedKeeps, AnswerKeeps DEF Step
<1>3. ASSUME NEW c \in Calls, Failing(c) PROVE CopyInv'
  BY <1>3, FailingKeeps DEF Failing
<1>4. ASSUME NEW c \in Calls, NEW k \in Keys, Begin(c, k) PROVE CopyInv'
  BY <1>4, BeginKeeps
<1>5. CASE Around
  BY <1>5, AroundKeeps
<1> QED
  BY <1>1, <1>2, <1>3, <1>4, <1>5 DEF CopyNext

(* The inductive invariant holds: each intent is served by the request     *)
(* that inserted it and by no other, and where that request stands with an *)
(* account tells the state of its child and of its order.                  *)
THEOREM CopyInvariant == CopySpec => []CopyInv
BY InitCopy, NextCopy, PTL DEF CopySpec

(* Groups, intents, children, orders and requests keep their types.        *)
THEOREM CopyTypes == CopySpec => []CopyTypeOK
<1>1. CopyInv => CopyTypeOK
  BY DEF CopyInv
<1> QED
  BY <1>1, CopyInvariant, PTL

(* Every order that was placed has its row, and a COMPLETE intent has the  *)
(* answer of each account, through restarts and failing statements.        *)
THEOREM RecordsAreKept == CopySpec => []OrdersAreRecorded
<1>1. CopyInv => OrdersAreRecorded
  BY DEF CopyInv, OrdersAreRecorded, ChildInv, ChildOK
<1> QED
  BY <1>1, CopyInvariant, PTL

-------------------------------------------------------------------------------
(* The refinement *)

LEMMA Quiet ==
  ASSUME CopyInv, UNCHANGED children,
         \A k \in Keys, a \in Accounts : orders'[k][a] = "none" <=> orders[k][a] = "none"
  PROVE  UNCHANGED <<placed, told>>
BY DEF placed, told, Places

LEMMA QuietOrders == ASSUME CopyInv, UNCHANGED <<children, orders>> PROVE UNCHANGED <<placed, told>>
BY Quiet

LEMMA SubmitPlaces ==
  ASSUME CopyInv, NEW c \in Calls, NEW a \in Accounts, Submit(c, a)
  PROVE  Promised!Place(calls[c].key, a)
<1> DEFINE k == calls[c].key
<1>0. Past(c) /\ calls[c].phase[a] = "act" /\ Places(k) /\ UNCHANGED children
  BY DEF Submit, Acting, Serving, Past
<1>1. k \in Keys /\ orders[k][a] = "none" /\ children[k][a] = "PENDING"
  BY <1>0, Where DEF PhaseOK
<1>2. \A j \in Keys, b \in Accounts :
        orders'[j][b] = IF j = k /\ b = a THEN "working" ELSE orders[j][b]
  <2>1. orders' = [orders EXCEPT ![k][a] = "working"]
    BY <1>1 DEF Submit
  <2>2. "working" \in OrderState
    BY DEF OrderState
  <2>3. CopyTypeOK
    BY DEF CopyInv
  <2> HIDE DEF k
  <2> QED
    BY <1>1, <2>1, <2>2, <2>3, OrderSet
<1>3. a \notin placed[k] /\ told[k][a] = "open"
  BY <1>1 DEF placed, told
<1>4. UNCHANGED told
  BY <1>0 DEF told
<1>5. placed' = [placed EXCEPT ![k] = @ \cup {a}]
  <2>1. \A j \in Keys : placed'[j] = IF j = k THEN placed[k] \cup {a} ELSE placed[j]
    BY <1>0, <1>1, <1>2 DEF placed, Places
  <2> QED
    BY <1>1, <2>1 DEF placed
<1> QED
  BY <1>0, <1>3, <1>4, <1>5 DEF Promised!Place

LEMMA TellsOne ==
  ASSUME CopyInv, NEW k \in Keys, NEW a \in Accounts, NEW s \in {"ACCEPTED", "REJECTED", "SKIPPED"},
         children[k][a] \in {"none", "PENDING"}, UNCHANGED orders,
         children' \in [Keys -> [Accounts -> ChildState]],
         \A j \in Keys, b \in Accounts : children'[j][b] = IF j = k /\ b = a THEN s ELSE children[j][b],
         s = "ACCEPTED" /\ Places(k) => orders[k][a] # "none",
         s = "SKIPPED" /\ Places(k) => orders[k][a] = "none"
  PROVE  Promised!Tell(k, a, s)
<1>1. told[k][a] = "open" /\ (a \in placed[k] <=> Places(k) /\ orders[k][a] # "none")
  BY DEF told, placed
<1>2. UNCHANGED placed
  BY DEF placed, Places
<1>3. told' = [told EXCEPT ![k][a] = s]
  <2>1. \A j \in Keys, b \in Accounts : told'[j][b] = IF j = k /\ b = a THEN s ELSE told[j][b]
    BY DEF told
  <2>2. told'[k] = [told[k] EXCEPT ![a] = s]
    BY <2>1 DEF told
  <2>3. \A j \in Keys \ {k} : told'[j] = told[j]
    BY DEF told
  <2> QED
    BY <2>2, <2>3 DEF told
<1> QED
  BY <1>1, <1>2, <1>3 DEF Promised!Tell

LEMMA InsertTells ==
  ASSUME CopyInv, NEW c \in Calls, NEW a \in Accounts, InsertChild(c, a)
  PROVE  Promised!Act \/ UNCHANGED <<placed, told>>
<1> DEFINE k == calls[c].key
<1>0. Past(c) /\ UNCHANGED orders
  BY DEF InsertChild, Serving, Past
<1>1. PICK s \in {"SKIPPED", "PENDING"} : SetChild(c, a, s) /\ calls[c].phase[a] \in {"skip", "insert"}
  BY DEF InsertChild
<1>2. k \in Keys /\ children[k][a] = "none" /\ (Places(k) => orders[k][a] = "none")
  BY <1>0, <1>1, Where DEF PhaseOK, ChildOK
<1>3. /\ children' \in [Keys -> [Accounts -> ChildState]]
      /\ \A j \in Keys, b \in Accounts :
           children'[j][b] = IF j = k /\ b = a THEN s ELSE children[j][b]
  BY <1>1, <1>2, Told DEF CopyInv, ChildState
<1>4. CASE s = "SKIPPED"
  <2>1. Promised!Tell(k, a, "SKIPPED")
    BY <1>0, <1>2, <1>3, <1>4, TellsOne
  <2> QED
    BY <1>2, <2>1 DEF Promised!Act
<1>5. CASE s = "PENDING"
  BY <1>0, <1>2, <1>3, <1>5 DEF placed, told
<1> QED
  BY <1>4, <1>5

LEMMA AnswerTells ==
  ASSUME CopyInv, NEW c \in Calls, NEW a \in Accounts, setChild(c, a)
  PROVE  Promised!Act
<1> DEFINE k == calls[c].key
<1>0. Past(c) /\ UNCHANGED orders
  BY DEF setChild, Serving, Past
<1>1. PICK s \in {"ACCEPTED", "REJECTED"} :
        /\ SetChild(c, a, s)
        /\ \/ s = "ACCEPTED" /\ calls[c].phase[a] = "accepted"
           \/ s = "REJECTED" /\ calls[c].phase[a] = "refused"
  BY DEF setChild
<1>2. k \in Keys /\ children[k][a] = "PENDING" /\ (Places(k) /\ s = "ACCEPTED" => orders[k][a] # "none")
  BY <1>0, <1>1, Where DEF PhaseOK
<1>3. /\ children' \in [Keys -> [Accounts -> ChildState]]
      /\ \A j \in Keys, b \in Accounts :
           children'[j][b] = IF j = k /\ b = a THEN s ELSE children[j][b]
  BY <1>1, <1>2, Told DEF CopyInv, ChildState
<1>4. Promised!Tell(k, a, s)
  BY <1>0, <1>2, <1>3, TellsOne
<1> QED
  BY <1>2, <1>4 DEF Promised!Act

LEMMA RefinedStep ==
  ASSUME CopyInv, [CopyNext]_copyVars
  PROVE  Promised!Act \/ UNCHANGED <<placed, told>>
<1>1. CASE UNCHANGED copyVars
  BY <1>1, QuietOrders DEF copyVars
<1>2. ASSUME NEW c \in Calls, Step(c) PROVE Promised!Act \/ UNCHANGED <<placed, told>>
  <2>1. CASE LeaderLost(c) \/ recordIntent(c) \/ ReadMembers(c) \/ FanOut(c) \/ Complete(c)
    BY <2>1, QuietOrders DEF LeaderLost, recordIntent, ReadMembers, FanOut, Complete
  <2>2. ASSUME NEW a \in Accounts, InsertChild(c, a) PROVE Promised!Act \/ UNCHANGED <<placed, told>>
    BY <2>2, InsertTells
  <2>3. ASSUME NEW a \in Accounts, Submit(c, a) PROVE Promised!Act
    <3>1. calls[c].key \in Keys
      BY <2>3 DEF Submit, Acting, Serving, CopyInv, Sole
    <3> QED
      BY <2>3, <3>1, SubmitPlaces DEF Promised!Act
  <2>4. ASSUME NEW a \in Accounts, CancelOrder(c, a) \/ Flatten(c, a) \/ Refuse(c, a)
        PROVE  UNCHANGED <<placed, told>>
    <3>1. Past(c)
      BY <2>4 DEF CancelOrder, Flatten, Refuse, Acting, Serving, Past
    <3>2. orders \in [Keys -> [Accounts -> OrderState]] /\ Of[calls[c].key] \in Keys
      BY <3>1, Where
    <3>3. UNCHANGED children
      BY <2>4 DEF CancelOrder, Flatten, Refuse
    <3>4. CASE CancelOrder(c, a)
      <4>1. CASE orders[Of[calls[c].key]][a] = "working"
        <5>1. orders' = [orders EXCEPT ![Of[calls[c].key]][a] = "canceled"]
          BY <3>4, <4>1 DEF CancelOrder
        <5>2. \A j \in Keys, b \in Accounts :
                orders'[j][b] = IF j = Of[calls[c].key] /\ b = a THEN "canceled" ELSE orders[j][b]
          BY <3>2, <5>1, OrderSet DEF CopyInv, OrderState
        <5> QED
          BY <3>3, <4>1, <5>2, Quiet
      <4>2. CASE orders[Of[calls[c].key]][a] # "working"
        BY <3>3, <3>4, <4>2, QuietOrders DEF CancelOrder
      <4> QED
        BY <4>1, <4>2
    <3>5. CASE Flatten(c, a)
      <4>1. \A j \in Keys, b \in Accounts : orders'[j][b] = "none" <=> orders[j][b] = "none"
        BY <3>2, <3>5 DEF Flatten, Closing, Holding
      <4> QED
        BY <3>3, <4>1, Quiet
    <3>6. CASE Refuse(c, a)
      BY <3>6, QuietOrders DEF Refuse
    <3> QED
      BY <2>4, <3>4, <3>5, <3>6
  <2>5. ASSUME NEW a \in Accounts, setChild(c, a) PROVE Promised!Act
    BY <2>5, AnswerTells
  <2> QED
    BY <1>2, <2>1, <2>2, <2>3, <2>4, <2>5 DEF Step
<1>3. ASSUME NEW c \in Calls, Failing(c) PROVE UNCHANGED <<placed, told>>
  BY <1>3, QuietOrders DEF Failing, FailsLate, AnswerLost
<1>4. ASSUME NEW c \in Calls, NEW k \in Keys, Begin(c, k) PROVE UNCHANGED <<placed, told>>
  BY <1>4, QuietOrders DEF Begin
<1>5. CASE Around
  <2>1. CASE Restart \/ Breach \/ (\E s \in {"ACTIVE", "PAUSED", "DISABLED"} : transition(s)) \/ \E a \in Followers : updateFollower(a)
    BY <2>1, QuietOrders DEF Restart, Breach, transition, updateFollower
  <2>2. ASSUME NEW k \in Keys, NEW a \in Accounts, OrderMoves(k, a) PROVE UNCHANGED <<placed, told>>
    <3>1. PICK s \in {"filled", "canceled", "closed", "kept"} : orders' = [orders EXCEPT ![k][a] = s]
      BY <2>2 DEF OrderMoves
    <3>2. orders[k][a] # "none" /\ UNCHANGED children
      BY <2>2 DEF OrderMoves
    <3>3. \A j \in Keys, b \in Accounts : orders'[j][b] = IF j = k /\ b = a THEN s ELSE orders[j][b]
      BY <3>1, OrderSet DEF CopyInv, OrderState, Holding
    <3> QED
      BY <3>2, <3>3, Quiet
  <2> QED
    BY <1>5, <2>1, <2>2 DEF Around
<1> QED
  BY <1>1, <1>2, <1>3, <1>4, <1>5 DEF CopyNext

(* Copying implements its promise: per account and intent at most one      *)
(* order and one answer, ACCEPTED only for an order that exists, SKIPPED   *)
(* only for an account that was not traded.                                *)
THEOREM CopyKeepsItsPromise == CopySpec => OneOutcomeEach
<1>1. CopyInit => Promised!Promised
  BY DEF CopyInit, Promised!Promised, placed, told
<1>2. CopyInv /\ [CopyNext]_copyVars => [Promised!Act]_<<placed, told>>
  BY RefinedStep
<1> QED
  BY <1>1, <1>2, CopyInvariant, PTL DEF CopySpec, OneOutcomeEach, Promised!Promise

-------------------------------------------------------------------------------
(* What a flatten reaches *)

\* What was open when a flatten was recorded is open, being closed or closed;
\* once its account has been served, it is no longer untouched.
OpenInv ==
  \A k, j \in Keys, a \in Accounts :
    <<j, a>> \in opened[k] => orders[j][a] \in {"filled", "closing", "closed", "kept"}
Reached(k, a) == \A j \in Keys : <<j, a>> \in opened[k] => orders[j][a] \in {"closing", "closed", "kept"}
ServedInv ==
  \A c \in Calls, a \in Accounts :
    Past(c) /\ KindOf[calls[c].key] = "FLATTEN" /\ calls[c].phase[a] = "accepted" => Reached(calls[c].key, a)
FlatInv == OpenInv /\ ServedInv /\ FlattenReachesWhatWasOpen

\* Orders only move on, and the intents recorded before keep what they saw.
LEMMA FlatKeeps ==
  ASSUME CopyInv, CopyInv', FlatInv,
         \A j \in Keys, a \in Accounts :
           /\ orders[j][a] \in {"filled", "closing", "closed", "kept"} =>
                orders'[j][a] \in {"filled", "closing", "closed", "kept"}
           /\ orders[j][a] \in {"closing", "closed", "kept"} => orders'[j][a] \in {"closing", "closed", "kept"},
         UNCHANGED opened,
         \A c \in Calls, a \in Accounts :
           Past(c)' /\ calls'[c].phase[a] = "accepted" /\ KindOf[calls'[c].key] = "FLATTEN" =>
             \/ Past(c) /\ calls[c].key = calls'[c].key /\ calls[c].phase[a] = "accepted"
             \/ Reached(calls[c].key, a)',
         \A k \in Keys, a \in Accounts :
           KindOf[k] = "FLATTEN" /\ children'[k][a] = "ACCEPTED" => children[k][a] = "ACCEPTED" \/ Reached(k, a)'
  PROVE  FlatInv'
<1>1. \A k \in Keys, a \in Accounts : Reached(k, a) => Reached(k, a)'
  BY DEF Reached
<1>2. OpenInv'
  BY DEF FlatInv, OpenInv
<1>3. ServedInv'
  <2> SUFFICES ASSUME NEW c \in Calls, NEW a \in Accounts, Past(c)',
                      KindOf[calls'[c].key] = "FLATTEN", calls'[c].phase[a] = "accepted"
               PROVE  Reached(calls[c].key, a)'
    BY DEF ServedInv, Reached
  <2>1. calls'[c].key \in Keys
    BY DEF CopyInv, Sole, Past
  <2>2. CASE Past(c) /\ calls[c].key = calls'[c].key /\ calls[c].phase[a] = "accepted"
    BY <1>1, <2>1, <2>2 DEF FlatInv, ServedInv, Reached
  <2> QED
    BY <2>2
<1>4. FlattenReachesWhatWasOpen'
  <2>1. \A k \in Keys, a \in Accounts :
          KindOf[k] = "FLATTEN" /\ children[k][a] = "ACCEPTED" => Reached(k, a)
    BY DEF FlatInv, FlattenReachesWhatWasOpen, Reached
  <2>2. \A k \in Keys, a \in Accounts :
          KindOf[k] = "FLATTEN" /\ children'[k][a] = "ACCEPTED" => Reached(k, a)'
    BY <1>1, <2>1
  <2> QED
    BY <2>2 DEF FlattenReachesWhatWasOpen, Reached
<1> QED
  BY <1>2, <1>3, <1>4 DEF FlatInv

LEMMA FlatRecorded ==
  ASSUME CopyInv, CopyInv', FlatInv, NEW c \in Calls, recordIntent(c)
  PROVE  FlatInv'
<1> DEFINE k == calls[c].key
<1>0. /\ calls[c].step = "checked" /\ k \in Keys /\ UNCHANGED <<children, orders>>
      /\ \A a \in Accounts : calls[c].phase[a] = "out"
  BY DEF recordIntent, Serving, CopyInv, Sole
<1>1. CASE intents[k] # "none"
  <2>1. End(c) /\ UNCHANGED opened
    BY <1>1 DEF recordIntent
  <2>2. \A d \in Calls : calls'[d] = IF d = c THEN NoCall ELSE calls[d]
    BY <2>1, Ended DEF CopyInv
  <2>3. \A d \in Calls : Past(d)' => Past(d) /\ calls'[d] = calls[d]
    BY <2>2, Idle DEF Past
  <2> QED
    BY <1>0, <2>1, <2>3, FlatKeeps
<1>2. CASE intents[k] = "none"
  <2>1. Record(c)
    BY <1>2 DEF recordIntent
  <2>2. /\ \A d \in Calls : calls'[d].key = calls[d].key /\ calls'[d].phase = calls[d].phase
        /\ \A d \in Calls : calls'[d].step = IF d = c THEN "recorded" ELSE calls[d].step
    BY <2>1, Went DEF Record, CopyInv, Steps
  <2>3. /\ opened'[k] \subseteq OpenNow
        /\ \A j \in Keys \ {k} : opened'[j] = opened[j]
    BY <1>0, <2>1 DEF Record, CopyInv, CopyTypeOK
  <2>4. \A d \in Calls : Past(d) => Past(d)' /\ calls[d].key # k
    BY <1>0, <1>2, <2>2 DEF Past, CopyInv, Sole
  <2>5. \A a \in Accounts : children[k][a] = "none"
    BY <1>0, <1>2 DEF CopyInv, ChildInv, ChildOK
  <2>6. OpenInv'
    BY <1>0, <2>3 DEF FlatInv, OpenInv, OpenNow, Holding
  <2>7. ServedInv'
    <3> SUFFICES ASSUME NEW d \in Calls, NEW a \in Accounts, Past(d)',
                        KindOf[calls'[d].key] = "FLATTEN", calls'[d].phase[a] = "accepted"
                 PROVE  Reached(calls[d].key, a)'
      BY DEF ServedInv, Reached
    <3>1. d # c /\ Past(d) /\ calls[d].key # k /\ calls[d].key \in Keys
      BY <1>0, <2>2, <2>4 DEF Past, CopyInv, Sole
    <3> QED
      BY <1>0, <2>2, <2>3, <3>1 DEF FlatInv, ServedInv, Reached
  <2>8. FlattenReachesWhatWasOpen'
    BY <1>0, <2>3, <2>5 DEF FlatInv, FlattenReachesWhatWasOpen
  <2> QED
    BY <2>6, <2>7, <2>8 DEF FlatInv
<1> QED
  BY <1>1, <1>2

LEMMA FlatStep ==
  ASSUME CopyInv, CopyInv', FlatInv, NEW c \in Calls, NEW a \in Accounts,
         \/ InsertChild(c, a) \/ Submit(c, a) \/ CancelOrder(c, a) \/ Flatten(c, a)
         \/ Refuse(c, a) \/ setChild(c, a) \/ FailsLate(c, a) \/ AnswerLost(c, a)
  PROVE  FlatInv'
<1> DEFINE k == calls[c].key
<1>0. Past(c) /\ k \in Keys
  BY DEF InsertChild, Submit, CancelOrder, Flatten, Refuse, setChild, FailsLate, AnswerLost,
         Acting, Serving, Past, CopyInv, Sole
<1>1. PICK p \in Phases : Advance(c, a, p)
  BY DEF InsertChild, Submit, CancelOrder, Flatten, Refuse, setChild, FailsLate, AnswerLost, Phases
<1>2. /\ \A d \in Calls : calls'[d].key = calls[d].key /\ calls'[d].step = calls[d].step
      /\ \A d \in Calls, b \in Accounts :
           calls'[d].phase[b] = IF d = c /\ b = a THEN p ELSE calls[d].phase[b]
  BY <1>1, Advanced DEF CopyInv
<1>3. \A d \in Calls : Past(d)' <=> Past(d)
  BY <1>2 DEF Past
<1>4. UNCHANGED opened
  BY DEF InsertChild, Submit, CancelOrder, Flatten, Refuse, setChild, FailsLate, AnswerLost
<1>5. /\ children \in [Keys -> [Accounts -> ChildState]]
      /\ orders \in [Keys -> [Accounts -> OrderState]]
  BY <1>0, Where
<1>6. ASSUME UNCHANGED children, p = "accepted" /\ KindOf[k] = "FLATTEN" => Reached(k, a)',
             \A j \in Keys, b \in Accounts :
               orders[j][b] \in {"filled", "closing", "closed", "kept"} =>
                 orders'[j][b] = orders[j][b] \/ orders'[j][b] = "closing"
      PROVE  FlatInv'
  <2>1. \A d \in Calls, b \in Accounts :
           Past(d)' /\ calls'[d].phase[b] = "accepted" /\ KindOf[calls'[d].key] = "FLATTEN" =>
             \/ Past(d) /\ calls[d].key = calls'[d].key /\ calls[d].phase[b] = "accepted"
             \/ Reached(calls[d].key, b)'
    BY <1>2, <1>3, <1>6 DEF Reached
  <2> QED
    BY <1>4, <1>6, <2>1, FlatKeeps
<1>7. CASE InsertChild(c, a)
  <2>1. PICK s \in {"SKIPPED", "PENDING"} : SetChild(c, a, s)
    BY <1>7 DEF InsertChild
  <2>2. \A j \in Keys, b \in Accounts :
           children'[j][b] = IF j = k /\ b = a THEN s ELSE children[j][b]
    BY <1>0, <2>1, Told DEF CopyInv, ChildState
  <2>3. UNCHANGED orders
    BY <1>7 DEF InsertChild
  <2>4. calls'[c].phase[a] = "accepted" => Flat(a)
    <3>1. Advance(c, a, "done") \/ Advance(c, a, IF KindOf[k] = "FLATTEN" /\ Flat(a) THEN "accepted" ELSE "act")
      BY <1>7 DEF InsertChild
    <3>2. CASE Advance(c, a, "done")
      BY <3>2, Advanced DEF CopyInv, Phases
    <3>3. CASE KindOf[k] = "FLATTEN" /\ Flat(a)
      BY <3>3
    <3>4. CASE Advance(c, a, "act")
      BY <3>4, Advanced DEF CopyInv, Phases
    <3> QED
      BY <3>1, <3>2, <3>3, <3>4
  <2>5. calls'[c].phase[a] = "accepted" => Reached(k, a)'
    BY <1>0, <1>2, <1>4, <2>3, <2>4 DEF Flat, Holding, FlatInv, OpenInv, Reached
  <2>6. \A d \in Calls, b \in Accounts :
           Past(d)' /\ calls'[d].phase[b] = "accepted" /\ KindOf[calls'[d].key] = "FLATTEN" =>
             \/ Past(d) /\ calls[d].key = calls'[d].key /\ calls[d].phase[b] = "accepted"
             \/ Reached(calls[d].key, b)'
    BY <1>2, <1>3, <2>5 DEF Reached
  <2> QED
    BY <1>4, <2>2, <2>3, <2>6, FlatKeeps
<1>8. CASE setChild(c, a)
  <2>1. PICK s \in {"ACCEPTED", "REJECTED"} :
          /\ SetChild(c, a, s) /\ (s = "ACCEPTED" => calls[c].phase[a] = "accepted")
    BY <1>8 DEF setChild
  <2>2. \A j \in Keys, b \in Accounts :
           children'[j][b] = IF j = k /\ b = a THEN s ELSE children[j][b]
    BY <1>0, <2>1, Told DEF CopyInv, ChildState
  <2>3. UNCHANGED orders /\ calls'[c].phase[a] = "done"
    BY <1>8, Advanced DEF setChild, CopyInv, Phases
  <2>4. s = "ACCEPTED" /\ KindOf[k] = "FLATTEN" => Reached(k, a)'
    BY <1>0, <1>4, <2>1, <2>3, <1>2 DEF FlatInv, ServedInv, Reached
  <2>5. \A d \in Calls, b \in Accounts :
           Past(d)' /\ calls'[d].phase[b] = "accepted" =>
             Past(d) /\ calls[d].key = calls'[d].key /\ calls[d].phase[b] = "accepted"
    BY <1>2, <1>3, <2>3
  <2>6. \A j \in Keys, b \in Accounts :
          KindOf[j] = "FLATTEN" /\ children'[j][b] = "ACCEPTED" => children[j][b] = "ACCEPTED" \/ Reached(j, b)'
    BY <1>2, <2>2, <2>4 DEF Reached
  <2> QED
    BY <1>4, <2>3, <2>5, <2>6, FlatKeeps
<1>9. CASE Flatten(c, a)
  <2>1. UNCHANGED children /\ orders' = Closing(a)
    BY <1>9 DEF Flatten
  <2>2. \A j \in Keys, b \in Accounts :
          orders'[j][b] = IF b = a /\ orders[j][a] \in Holding THEN "closing" ELSE orders[j][b]
    BY <1>5, <2>1 DEF Closing, OrderState
  <2>3. Reached(k, a)'
    BY <1>0, <1>2, <1>4, <2>2 DEF FlatInv, OpenInv, Reached, Holding
  <2> QED
    BY <1>6, <2>1, <2>2, <2>3
<1>10. CASE Submit(c, a)
  <2>1. UNCHANGED children /\ KindOf[k] # "FLATTEN" /\ orders[k][a] = "none"
    BY <1>0, <1>10, Where DEF Submit, Acting, Places, PhaseOK
  <2>2. orders' = [orders EXCEPT ![k][a] = "working"] /\ "working" \in OrderState
    BY <1>10, <2>1 DEF Submit, OrderState
  <2>3. \A j \in Keys, b \in Accounts : orders'[j][b] = IF j = k /\ b = a THEN "working" ELSE orders[j][b]
    BY <1>0, <2>2, OrderSet DEF CopyInv
  <2> QED
    BY <1>6, <2>1, <2>3
<1>11. CASE CancelOrder(c, a)
  <2>1. UNCHANGED children /\ KindOf[k] # "FLATTEN" /\ Of[k] \in Keys
    BY <1>0, <1>11 DEF CancelOrder
  <2>2. CASE orders[Of[k]][a] = "working"
    <3>1. orders' = [orders EXCEPT ![Of[k]][a] = "canceled"] /\ "canceled" \in OrderState
      BY <1>11, <2>2 DEF CancelOrder, OrderState
    <3>2. \A j \in Keys, b \in Accounts : orders'[j][b] = IF j = Of[k] /\ b = a THEN "canceled" ELSE orders[j][b]
      BY <2>1, <3>1, OrderSet DEF CopyInv
    <3> QED
      BY <1>6, <2>1, <2>2, <3>2
  <2>3. CASE orders[Of[k]][a] # "working"
    BY <1>6, <1>11, <2>1, <2>3 DEF CancelOrder
  <2> QED
    BY <2>2, <2>3
<1>12. CASE Refuse(c, a) \/ FailsLate(c, a) \/ AnswerLost(c, a)
  <2>1. UNCHANGED <<children, orders>> /\ (Advance(c, a, "refused") \/ Advance(c, a, "lost"))
    BY <1>12 DEF Refuse, FailsLate, AnswerLost
  <2>2. calls'[c].phase[a] # "accepted"
    BY <2>1, Advanced DEF CopyInv, Phases
  <2> QED
    BY <1>2, <1>6, <2>1, <2>2
<1> QED
  BY <1>7, <1>8, <1>9, <1>10, <1>11, <1>12

\* A step that touches no child, no order and no record of what was open, and
\* brings no request to "accepted".
LEMMA FlatQuiet ==
  ASSUME CopyInv, CopyInv', FlatInv, UNCHANGED <<children, orders, opened>>,
         \A c \in Calls, a \in Accounts :
           Past(c)' /\ calls'[c].phase[a] = "accepted" =>
             Past(c) /\ calls[c].key = calls'[c].key /\ calls[c].phase[a] = "accepted"
  PROVE  FlatInv'
BY FlatKeeps

\* A request that is served to its end, or forgotten.
LEMMA FlatEnded ==
  ASSUME CopyInv, CopyInv', FlatInv, NEW c \in Calls, End(c), UNCHANGED <<children, orders, opened>>
  PROVE  FlatInv'
<1>1. \A d \in Calls : calls'[d] = IF d = c THEN NoCall ELSE calls[d]
  BY Ended DEF CopyInv
<1>2. \A d \in Calls : Past(d)' => Past(d) /\ calls'[d] = calls[d]
  BY <1>1, Idle DEF Past
<1> QED
  BY <1>2, FlatQuiet

LEMMA FlatBegun ==
  ASSUME CopyInv, CopyInv', FlatInv, NEW c \in Calls, NEW k \in Keys, Begin(c, k)
  PROVE  FlatInv'
<1>1. [NoCall EXCEPT !.key = k, !.step = "checked"].step = "checked"
  BY DEF NoCall
<1>2. \A d \in Calls : d # c => calls'[d] = calls[d]
  BY DEF Begin, CopyInv, CopyTypeOK
<1>3. calls'[c].step = "checked"
  BY <1>1 DEF Begin, CopyInv, CopyTypeOK
<1>4. \A d \in Calls : Past(d)' => Past(d) /\ calls'[d] = calls[d]
  BY <1>2, <1>3 DEF Past
<1> QED
  BY <1>4, FlatQuiet DEF Begin

LEMMA FlatMembers ==
  ASSUME CopyInv, CopyInv', FlatInv, NEW c \in Calls, ReadMembers(c)
  PROVE  FlatInv'
<1> DEFINE k == calls[c].key
           next == IF Places(k) THEN "inserting" ELSE "fanned"
           phase == [a \in Accounts |-> IF a \notin Members(k) THEN "out"
                                        ELSE IF Skipped(k, a) THEN "skip" ELSE "insert"]
           new == [calls[c] EXCEPT !.step = next, !.phase = phase]
<1>0. calls' = [calls EXCEPT ![c] = new]
  BY DEF ReadMembers
<1>1. calls \in [Calls -> Call] /\ calls[c] \in Call
  BY TypedCalls DEF CopyInv
<1>2. \A a \in Accounts : phase[a] # "accepted"
  OBVIOUS
<1>4. \A d \in Calls : calls'[d] = IF d = c THEN new ELSE calls[d]
  <2> HIDE DEF new
  <2> QED
    BY <1>0, <1>1
<1>5. new.phase = phase
  <2> HIDE DEF phase, next
  <2> QED
    BY <1>1 DEF Call
<1>3. \A d \in Calls, a \in Accounts :
        Past(d)' /\ calls'[d].phase[a] = "accepted" =>
          Past(d) /\ calls[d].key = calls'[d].key /\ calls[d].phase[a] = "accepted"
  <2> HIDE DEF new, phase
  <2> QED
    BY <1>2, <1>4, <1>5 DEF Past
<1> QED
  BY <1>3, FlatQuiet DEF ReadMembers

LEMMA FlatFanOut ==
  ASSUME CopyInv, CopyInv', FlatInv, NEW c \in Calls, FanOut(c)
  PROVE  FlatInv'
<1>1. Goto(c, "fanned") /\ Past(c) /\ UNCHANGED <<children, orders, opened>>
  BY DEF FanOut, Serving, Past
<1>2. /\ \A d \in Calls : calls'[d].key = calls[d].key /\ calls'[d].phase = calls[d].phase
      /\ \A d \in Calls : calls'[d].step = IF d = c THEN "fanned" ELSE calls[d].step
  BY <1>1, Went DEF CopyInv, Steps
<1>3. \A d \in Calls : Past(d)' => Past(d)
  BY <1>1, <1>2 DEF Past
<1> QED
  BY <1>1, <1>2, <1>3, FlatQuiet

LEMMA FlatMoves ==
  ASSUME CopyInv, CopyInv', FlatInv, NEW k \in Keys, NEW a \in Accounts, OrderMoves(k, a)
  PROVE  FlatInv'
<1>1. PICK s \in {"filled", "canceled", "closed", "kept"} :
        /\ orders' = [orders EXCEPT ![k][a] = s]
        /\ orders[k][a] = "working" \/ (orders[k][a] = "closing" /\ s \in {"closed", "kept"})
  BY DEF OrderMoves
<1>2. \A j \in Keys, b \in Accounts : orders'[j][b] = IF j = k /\ b = a THEN s ELSE orders[j][b]
  BY <1>1, OrderSet DEF CopyInv, OrderState, Holding
<1>3. UNCHANGED <<children, calls, opened>>
  BY DEF OrderMoves
<1>4. \A c \in Calls : Past(c)' <=> Past(c)
  BY <1>3 DEF Past
<1> QED
  BY <1>1, <1>2, <1>3, <1>4, FlatKeeps

LEMMA FlatNext == CopyInv /\ CopyInv' /\ FlatInv /\ [CopyNext]_copyVars => FlatInv'
<1> SUFFICES ASSUME CopyInv, CopyInv', FlatInv, [CopyNext]_copyVars PROVE FlatInv'
  OBVIOUS
<1>1. CASE UNCHANGED copyVars
  <2>1. UNCHANGED <<children, orders, opened, calls>>
    BY <1>1 DEF copyVars
  <2> QED
    BY <2>1, FlatQuiet DEF Past
<1>2. ASSUME NEW c \in Calls, Step(c) PROVE FlatInv'
  <2>1. CASE LeaderLost(c)
    BY <2>1, FlatEnded DEF LeaderLost
  <2>2. CASE recordIntent(c)
    BY <2>2, FlatRecorded
  <2>3. CASE ReadMembers(c)
    BY <2>3, FlatMembers
  <2>4. CASE FanOut(c)
    BY <2>4, FlatFanOut
  <2>5. CASE Complete(c)
    BY <2>5, FlatEnded DEF Complete
  <2>6. ASSUME NEW a \in Accounts,
               \/ InsertChild(c, a) \/ Submit(c, a) \/ CancelOrder(c, a) \/ Flatten(c, a)
               \/ Refuse(c, a) \/ setChild(c, a)
        PROVE  FlatInv'
    BY <2>6, FlatStep
  <2> QED
    BY <1>2, <2>1, <2>2, <2>3, <2>4, <2>5, <2>6 DEF Step
<1>3. ASSUME NEW c \in Calls, Failing(c) PROVE FlatInv'
  BY <1>3, FlatStep DEF Failing
<1>4. ASSUME NEW c \in Calls, NEW k \in Keys, Begin(c, k) PROVE FlatInv'
  BY <1>4, FlatBegun
<1>5. CASE Around
  <2>1. CASE Restart
    <3>1. \A c \in Calls : ~Past(c)'
      BY <2>1, Idle DEF Restart, Past
    <3> QED
      BY <2>1, <3>1, FlatQuiet DEF Restart
  <2>2. CASE Breach \/ (\E s \in {"ACTIVE", "PAUSED", "DISABLED"} : transition(s)) \/ \E a \in Followers : updateFollower(a)
    <3>1. UNCHANGED <<children, orders, opened, calls>>
      BY <2>2 DEF Breach, transition, updateFollower
    <3> QED
      BY <3>1, FlatQuiet DEF Past
  <2>3. ASSUME NEW k \in Keys, NEW a \in Accounts, OrderMoves(k, a) PROVE FlatInv'
    BY <2>3, FlatMoves
  <2> QED
    BY <1>5, <2>1, <2>2, <2>3 DEF Around
<1> QED
  BY <1>1, <1>2, <1>3, <1>4, <1>5 DEF CopyNext

(* A flatten that was accepted for an account has placed the order that    *)
(* closes what was open on it when the intent was recorded, whatever is    *)
(* filled, closed, retried or restarted meanwhile.                         *)
THEOREM FlattensReach == CopySpec => []FlattenReachesWhatWasOpen
<1>1. CopyInit => FlatInv
  BY Idle DEF CopyInit, FlatInv, OpenInv, ServedInv, FlattenReachesWhatWasOpen, Past
<1>2. FlatInv => FlattenReachesWhatWasOpen
  BY DEF FlatInv
<1> QED
  BY <1>1, <1>2, FlatNext, CopyInvariant, PTL DEF CopySpec
===============================================================================
