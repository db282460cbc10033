--------------------------- MODULE DeliveryProofs ---------------------------
(***************************************************************************)
(* Proofs about the two ways in which work leaves a service: the event bus *)
(* with its outbox, for any sets of events and processes, any trace depths *)
(* and any number of failures and crashes; and the integration dispatcher, *)
(* for any number of workers, threshold, rate and bounds.                  *)
(***************************************************************************)
EXTENDS Outbox, IntegrationDispatcher, FiniteSetTheorems, TLAPS

(***************************************************************************)
(* The event bus                                                           *)
(***************************************************************************)
\* A returned broadcast by process s of event e, seen from every event:
\* e is dispatched, the others are as before, nothing is forgotten.
LEMMA BroadcastEffect ==
  ASSUME TypeOK, NEW s \in Server, NEW e \in AnyEvent, Broadcast(s, e)
  PROVE  /\ heard' \in [AnyEvent -> SUBSET Listener]
         /\ tooDeep' \subseteq AnyEvent /\ tooDeep \subseteq tooDeep'
         /\ buffered' \in [Server -> SUBSET AnyEvent]
         /\ heard'[e] = Listener \/ e \in tooDeep'
         /\ \A f \in AnyEvent : f # e => heard'[f] = heard[f]
         /\ \A f \in AnyEvent : heard[f] = Listener => heard'[f] = Listener
         /\ \A t \in Server, f \in AnyEvent :
              f \in buffered'[t] => f = e \/ f \in buffered[t]
<1>1. CASE Depth[e] > 10
  BY <1>1 DEF TypeOK, Broadcast
<1>2. CASE ~(Depth[e] > 10)
  <2>1. Produce(s, e) /\ heard' = [heard EXCEPT ![e] = Listener] /\ tooDeep' = tooDeep
    BY <1>2 DEF Broadcast
  <2>2. buffered' \in [Server -> SUBSET AnyEvent]
    BY <2>1 DEF TypeOK, Produce
  <2>3. \A t \in Server, f \in AnyEvent :
          f \in buffered'[t] => f = e \/ f \in buffered[t]
    BY <2>1 DEF TypeOK, Produce
  <2>. QED BY <2>1, <2>2, <2>3 DEF TypeOK
<1>. QED BY <1>1, <1>2

\* The same for a broadcast that raises: it adds listeners, it removes none.
LEMMA BroadcastRaisesEffect ==
  ASSUME TypeOK, NEW s \in Server, NEW e \in AnyEvent, BroadcastRaises(s, e)
  PROVE  /\ heard' \in [AnyEvent -> SUBSET Listener]
         /\ tooDeep' = tooDeep
         /\ buffered' \in [Server -> SUBSET AnyEvent]
         /\ failures' \in Nat
         /\ \A f \in AnyEvent : f # e => heard'[f] = heard[f]
         /\ \A f \in AnyEvent : heard[f] = Listener => heard'[f] = Listener
         /\ \A t \in Server, f \in AnyEvent :
              f \in buffered'[t] => f = e \/ f \in buffered[t]
<1>1. failures' \in Nat
  BY DEF BroadcastRaises, TypeOK
<1>2. PICK k \in Listener : heard' = [heard EXCEPT ![e] = @ \cup 1 .. (k - 1)]
  BY DEF BroadcastRaises
<1>3. 1 .. (k - 1) \subseteq Listener
  BY <1>2, OutboxAssumption DEF Listener
<1>4. Produce(s, e) /\ UNCHANGED tooDeep
  BY DEF BroadcastRaises
<1>. QED
  BY <1>1, <1>2, <1>3, <1>4 DEF TypeOK, Produce

LEMMA InitInv == Init => OutboxInv
BY DEF Init, OutboxInv, TypeOK, NoPhantomEvents,
       PublishedWasDispatched, BatchIsCommitted, MarkedWasDispatched, RowState,
       Listener, AnyEvent

\* Every step keeps the invariant, one case per action.
LEMMA StepInv == OutboxInv /\ [Next]_vars => OutboxInv'
<1> SUFFICES ASSUME OutboxInv, [Next]_vars
             PROVE  OutboxInv'
  OBVIOUS
<1> USE DEF OutboxInv, TypeOK, NoPhantomEvents, PublishedWasDispatched,
            BatchIsCommitted, MarkedWasDispatched, AnyEvent, RowState
<1>1. ASSUME NEW e \in Event, Stage(e) PROVE OutboxInv'
  BY <1>1 DEF Stage, relayVars, busVars
<1>2. ASSUME NEW e \in Event, CommitStaged(e) PROVE OutboxInv'
  BY <1>2 DEF CommitStaged, relayVars, busVars
<1>3. ASSUME NEW e \in Event, RollbackStaged(e) PROVE OutboxInv'
  BY <1>3 DEF RollbackStaged, relayVars, busVars
<1>4. ASSUME NEW s \in Server, RelayStart(s) PROVE OutboxInv'
  <2>1. PICK batch \in SUBSET Pending : todo' = [todo EXCEPT ![s] = batch]
    BY <1>4 DEF RelayStart
  <2>2. batch \subseteq Event /\ \A e \in batch : row[e] = "PENDING"
    BY <2>1 DEF Pending
  <2>. QED BY <1>4, <2>1, <2>2 DEF RelayStart, busVars
<1>5. ASSUME NEW s \in Server, NEW e \in Event, RelaySend(s, e) PROVE OutboxInv'
  <2>1. Broadcast(s, e) /\ e \in todo[s]
    BY <1>5 DEF RelaySend
  <2>2. /\ todo' = [todo EXCEPT ![s] = @ \ {e}]
        /\ marked' = [marked EXCEPT ![s] = @ \cup {e}]
        /\ UNCHANGED <<row, unsent, direct, kafka, failures, crashes>>
    BY <1>5 DEF RelaySend
  <2>3. TypeOK'
    BY <2>1, <2>2, BroadcastEffect
  <2>4. NoPhantomEvents'
    BY <2>1, <2>2, BroadcastEffect
  <2>5. PublishedWasDispatched' /\ BatchIsCommitted'
    BY <2>1, <2>2, BroadcastEffect
  <2>6. MarkedWasDispatched'
    BY <2>1, <2>2, BroadcastEffect
  <2>. QED BY <2>3, <2>4, <2>5, <2>6
<1>6. ASSUME NEW s \in Server, NEW e \in Event, RelaySendRaises(s, e)
      PROVE OutboxInv'
  <2>1. BroadcastRaises(s, e) /\ e \in todo[s]
    BY <1>6 DEF RelaySendRaises
  <2>2. /\ todo' = [todo EXCEPT ![s] = {}]
        /\ marked' = [marked EXCEPT ![s] = {}]
        /\ UNCHANGED <<row, unsent, direct, kafka, crashes>>
    BY <1>6 DEF RelaySendRaises, RelayRollback
  <2>. QED BY <2>1, <2>2, BroadcastRaisesEffect
<1>7. ASSUME NEW s \in Server, RelayCommit(s) PROVE OutboxInv'
  BY <1>7 DEF RelayCommit, busVars
<1>8. ASSUME NEW s \in Server, RelayCommitFails(s) PROVE OutboxInv'
  BY <1>8 DEF RelayCommitFails, RelayRollback, busVars
<1>9. ASSUME NEW s \in Server, NEW d \in DirectEvent, CommitDirect(s, d)
      PROVE OutboxInv'
  BY <1>9 DEF CommitDirect, relayVars, busVars
<1>10. ASSUME NEW s \in Server, NEW d \in DirectEvent, BroadcastDirect(s, d)
       PROVE OutboxInv'
  <2>1. /\ unsent' = [unsent EXCEPT ![s] = @ \ {d}]
        /\ UNCHANGED <<row, todo, marked, direct, kafka, crashes>>
    BY <1>10 DEF BroadcastDirect, relayVars
  <2>2. d \notin Event
    BY OutboxAssumption
  <2>3. CASE Broadcast(s, d) /\ UNCHANGED failures
    BY <2>1, <2>2, <2>3, BroadcastEffect
  <2>4. CASE BroadcastRaises(s, d)
    BY <2>1, <2>2, <2>4, BroadcastRaisesEffect
  <2>. QED BY <1>10, <2>3, <2>4 DEF BroadcastDirect
<1>11. ASSUME NEW s \in Server, NEW e \in AnyEvent, KafkaDeliver(s, e)
       PROVE OutboxInv'
  BY <1>11 DEF KafkaDeliver, relayVars
<1>12. ASSUME NEW s \in Server, Crash(s) PROVE OutboxInv'
  BY <1>12 DEF Crash, RelayRollback
<1>13. CASE UNCHANGED vars
  BY <1>13 DEF vars
<1>. QED
  BY <1>1, <1>2, <1>3, <1>4, <1>5, <1>6, <1>7, <1>8, <1>9, <1>10, <1>11,
     <1>12, <1>13 DEF Next

\* The invariant holds in every behaviour.
THEOREM OutboxInvariant == Spec => []OutboxInv
BY InitInv, StepInv, PTL DEF Spec

\* No listener and no Kafka topic ever sees an uncommitted event.
THEOREM NoPhantoms == Spec => []NoPhantomEvents
<1>1. OutboxInv => NoPhantomEvents
  BY DEF OutboxInv
<1>. QED BY <1>1, OutboxInvariant, PTL

\* PUBLISHED is only ever written for an event that was dispatched.
THEOREM PublishedMeansDispatched == Spec => []PublishedWasDispatched
<1>1. OutboxInv => PublishedWasDispatched
  BY DEF OutboxInv
<1>. QED BY <1>1, OutboxInvariant, PTL

-----------------------------------------------------------------------------
(* The outbox implements its contract.                                     *)

\* How the mapped variables read and change.
LEMMA DebtOf ==
  ASSUME TypeOK, NEW e \in Event
  PROVE  /\ Debt[e] = "none" <=> row[e] \in {"none", "staged"}
         /\ Debt[e] = "owed" <=> row[e] = "PENDING"
         /\ Debt[e] = "discharged" <=> row[e] = "PUBLISHED"
BY DEF TypeOK, Debt, RowState

LEMMA SameDebt == row' = row => Debt' = Debt
BY DEF Debt

LEMMA InitContract == Init => Contract!Init
<1> SUFFICES ASSUME Init PROVE Contract!Init
  OBVIOUS
<1>1. Debt = [e \in Event |-> "none"]
  BY DEF Init, Debt
<1>2. Dispatched = {}
  <2>1. Listener # {}
    BY OutboxAssumption DEF Listener
  <2>. QED BY <2>1 DEF Init, Dispatched, AnyEvent
<1>. QED BY <1>1, <1>2 DEF Contract!Init

\* A relay or a service that broadcasts maps to Dispatch, or to a stutter.
LEMMA StepContract ==
  OutboxInv /\ [Next]_vars => [Contract!Next]_(Contract!cvars)
<1> SUFFICES ASSUME OutboxInv, [Next]_vars
             PROVE  Contract!Next \/ (Debt' = Debt /\ Dispatched' = Dispatched)
  BY DEF Contract!cvars
<1>t. TypeOK
  BY DEF OutboxInv
<1>1. ASSUME NEW e \in Event, Stage(e) \/ RollbackStaged(e)
      PROVE Debt' = Debt /\ Dispatched' = Dispatched
  <2>1. /\ row' \in [Event -> RowState]
        /\ row[e] \in {"none", "staged"} /\ row'[e] \in {"none", "staged"}
        /\ \A f \in Event : f # e => row'[f] = row[f]
    BY <1>1, <1>t DEF Stage, RollbackStaged, TypeOK, RowState
  <2>2. Debt' = Debt
    BY <2>1, <1>t DEF Debt, TypeOK, RowState
  <2>3. Dispatched' = Dispatched
    BY <1>1 DEF Stage, RollbackStaged, Dispatched, busVars
  <2>. QED BY <2>2, <2>3
<1>2. ASSUME NEW e \in Event, CommitStaged(e) PROVE Contract!Owe(e)
  <2>1. Debt[e] = "none"
    BY <1>2, <1>t, DebtOf DEF CommitStaged
  <2>2. Debt' = [Debt EXCEPT ![e] = "owed"]
    BY <1>2, <1>t DEF CommitStaged, Debt, TypeOK, RowState
  <2>3. Dispatched' = Dispatched
    BY <1>2 DEF CommitStaged, Dispatched, busVars
  <2>. QED BY <2>1, <2>2, <2>3 DEF Contract!Owe
<1>3. ASSUME NEW s \in Server, NEW e \in Event, RelaySend(s, e)
      PROVE Contract!Dispatch(e)
  <2>1. Broadcast(s, e) /\ row' = row /\ e \in todo[s]
    BY <1>3 DEF RelaySend
  <2>2. Debt[e] # "none"
    BY <2>1, <1>t, DebtOf DEF OutboxInv, BatchIsCommitted
  <2>3. Dispatched' = Dispatched \cup {e}
    BY <2>1, <1>t, BroadcastEffect DEF Dispatched, Broadcast, AnyEvent
  <2>. QED BY <2>1, <2>2, <2>3, SameDebt DEF Contract!Dispatch
<1>4. ASSUME NEW s \in Server, NEW e \in Event, RelaySendRaises(s, e)
      PROVE Contract!Next \/ (Debt' = Debt /\ Dispatched' = Dispatched)
  <2>1. BroadcastRaises(s, e) /\ row' = row /\ e \in todo[s]
    BY <1>4 DEF RelaySendRaises
  <2>2. Debt[e] # "none"
    BY <2>1, <1>t, DebtOf DEF OutboxInv, BatchIsCommitted
  <2>3. Dispatched' = Dispatched \/ Dispatched' = Dispatched \cup {e}
    BY <2>1, <1>t, BroadcastRaisesEffect DEF Dispatched, AnyEvent
  <2>. QED BY <2>1, <2>2, <2>3, SameDebt DEF Contract!Next, Contract!Dispatch
<1>5. ASSUME NEW s \in Server, RelayCommit(s)
      PROVE Contract!Discharge(marked[s])
  <2>1. marked[s] \subseteq Event
    BY <1>t DEF TypeOK
  <2>2. \A e \in marked[s] : Debt[e] # "none" /\ e \in Dispatched
    BY <2>1, <1>t, DebtOf
    DEF OutboxInv, BatchIsCommitted, MarkedWasDispatched, Dispatched
  <2>3. Debt' = [e \in Event |-> IF e \in marked[s] THEN "discharged" ELSE Debt[e]]
    BY <1>5, <1>t, <2>1 DEF RelayCommit, Debt, TypeOK, RowState
  <2>4. Dispatched' = Dispatched
    BY <1>5 DEF RelayCommit, Dispatched, busVars
  <2>. QED BY <2>2, <2>3, <2>4 DEF Contract!Discharge
<1>6. ASSUME NEW s \in Server, NEW d \in DirectEvent, BroadcastDirect(s, d)
      PROVE Debt' = Debt /\ Dispatched' = Dispatched
  <2>1. d \notin Event /\ row' = row
    BY <1>6, OutboxAssumption DEF BroadcastDirect
  <2>2. CASE Broadcast(s, d)
    BY <2>1, <2>2, <1>t, SameDebt, BroadcastEffect
    DEF Dispatched, AnyEvent, Broadcast
  <2>3. CASE BroadcastRaises(s, d)
    BY <2>1, <2>3, <1>t, SameDebt, BroadcastRaisesEffect DEF Dispatched, AnyEvent
  <2>. QED BY <1>6, <2>2, <2>3 DEF BroadcastDirect
<1>7. ASSUME row' = row, heard' = heard, tooDeep' = tooDeep
      PROVE Debt' = Debt /\ Dispatched' = Dispatched
  BY <1>7, SameDebt DEF Dispatched
<1>8. ASSUME NEW s \in Server,
             \/ RelayStart(s) \/ RelayCommitFails(s) \/ Crash(s)
             \/ \E d \in DirectEvent : CommitDirect(s, d)
             \/ \E e \in AnyEvent : KafkaDeliver(s, e)
      PROVE Debt' = Debt /\ Dispatched' = Dispatched
  BY <1>7, <1>8 DEF RelayStart, RelayCommitFails, Crash, CommitDirect,
                    KafkaDeliver, busVars, relayVars
<1>9. CASE UNCHANGED vars
  BY <1>7, <1>9 DEF vars
<1>. QED
  <2>1. ASSUME NEW s \in Server, RelayCommit(s) PROVE Contract!Next
    BY <2>1, <1>5, <1>t DEF Contract!Next, TypeOK
  <2>2. ASSUME NEW e \in Event, CommitStaged(e) PROVE Contract!Next
    BY <2>2, <1>2 DEF Contract!Next
  <2>3. ASSUME NEW s \in Server, NEW e \in Event, RelaySend(s, e)
        PROVE Contract!Next
    BY <2>3, <1>3 DEF Contract!Next
  <2>. QED
    BY <1>1, <1>4, <1>6, <1>8, <1>9, <2>1, <2>2, <2>3 DEF Next

\* Every behaviour of the outbox, the relays and the crashes is one the
\* at-least-once contract allows.
THEOREM OutboxKeepsContract == Spec => ContractSpec
BY InitContract, StepContract, OutboxInvariant, PTL
   DEF Spec, ContractSpec, Contract!Spec

(***************************************************************************)
(* The integration dispatcher                                              *)
(***************************************************************************)
\* The bucket holds between 0 and Rate tokens at any time of its readers.
LEMMA RefilledBounds ==
  ASSUME DispatcherTypeOK, NEW clock \in Nat
  PROVE  /\ Refilled(clock) \in 0 .. Rate
         /\ clock >= bucket.time =>
              Refilled(clock) <= bucket.tokens + (clock - bucket.time) * Rate
<1> DEFINE elapsed == IF clock > bucket.time THEN clock - bucket.time ELSE 0
<1>1. /\ bucket.tokens \in 0 .. Rate /\ bucket.time \in Nat /\ Rate \in Nat \ {0}
  BY DispatcherAssumption DEF DispatcherTypeOK
<1>2. elapsed \in Nat
  BY <1>1
<1>3. elapsed * Rate \in Nat
  BY <1>1, <1>2
<1>4. Refilled(clock) = Lesser(Rate, bucket.tokens + elapsed * Rate)
  BY DEF Refilled
<1>5. clock >= bucket.time => elapsed = clock - bucket.time
  BY <1>1
<1> HIDE DEF elapsed
<1>. QED BY <1>1, <1>3, <1>4, <1>5 DEF Lesser

\* The next attempt keeps the shape of a call.
LEMMA NextAttemptType ==
  ASSUME DispatcherTypeOK, NEW w \in Worker, NextAttempt(w)
  PROVE  /\ call' \in [Worker -> Call]
         /\ \A v \in Worker : call'[v].clock <= now
         /\ call'[w].pc \in {"ready", "idle"}
<1>1. call \in [Worker -> Call] /\ now \in Nat /\ call[w].attempt \in {1, 2, 3}
  BY DEF DispatcherTypeOK, Call, MaxRetries
<1>2. CASE call[w].attempt < MaxRetries
  <2>1. Backoff[call[w].attempt] \in Nat
    BY <1>1, <1>2 DEF Backoff, MaxRetries
  <2>. QED BY <1>1, <1>2, <2>1 DEF NextAttempt, DispatcherTypeOK, Call, MaxRetries
<1>3. CASE ~(call[w].attempt < MaxRetries)
  BY <1>1, <1>3 DEF NextAttempt, Return, NoCall, DispatcherTypeOK, Call, MaxRetries
<1>. QED BY <1>2, <1>3

\* Every step keeps the types.
LEMMA TypeStep ==
  ASSUME DispatcherTypeOK, [DispatcherNext]_dispatcherVars
  PROVE  DispatcherTypeOK'
<1> USE DispatcherAssumption DEF DispatcherTypeOK, keys
<1>1. ASSUME NEW w \in Worker, Enter(w) \/ Halt(w) \/ Send(w) \/ GiveUp(w) \/ Succeed(w)
      PROVE  DispatcherTypeOK'
  BY <1>1 DEF Enter, Halt, Send, GiveUp, Succeed, Goto, Return, NoCall, Call, MaxRetries
<1>2. ASSUME NEW w \in Worker, ReadClock(w) \/ Throttle(w)
      PROVE  DispatcherTypeOK'
  BY <1>2 DEF ReadClock, Throttle, Call
<1>3. ASSUME NEW w \in Worker, Charge(w)
      PROVE  DispatcherTypeOK'
  <2>1. call[w].clock \in 0 .. now /\ Refilled(call[w].clock) \in 1 .. Rate
    BY <1>3, RefilledBounds DEF Charge, Admits, Call
  <2>2. late[w] + 1 \in Nat /\ sent + 1 \in Nat
    OBVIOUS
  <2>. QED BY <1>3, <2>1, <2>2 DEF Charge, Goto, Call
<1>4. ASSUME NEW w \in Worker, Count(w)
      PROVE  DispatcherTypeOK'
  <2>1. call' \in [Worker -> Call] /\ \A v \in Worker : call'[v].clock <= now
    BY <1>4, NextAttemptType DEF Count, Goto, Call
  <2>. QED BY <1>4, <2>1 DEF Count
<1>5. ASSUME NEW w \in Worker, Trip(w)
      PROVE  DispatcherTypeOK'
  BY <1>5 DEF Trip, Goto, Call
<1>6. ASSUME NEW w \in Worker, Clear(w)
      PROVE  DispatcherTypeOK'
  BY <1>6, NextAttemptType DEF Clear
<1>7. ASSUME NEW w \in Worker, Abandon(w)
      PROVE  DispatcherTypeOK'
  BY <1>7 DEF Abandon, Return, NoCall, Call, MaxRetries
<1>8. CASE Expire \/ Tick \/ UNCHANGED dispatcherVars
  <2>1. CASE Expire
    BY <2>1 DEF Expire
  <2>2. CASE Tick
    BY <2>2 DEF Tick, Call
  <2>3. CASE UNCHANGED dispatcherVars
    BY <2>3 DEF dispatcherVars
  <2>. QED BY <1>8, <2>1, <2>2, <2>3
<1>. QED BY <1>1, <1>2, <1>3, <1>4, <1>5, <1>6, <1>7, <1>8 DEF DispatcherNext, Step

(***************************************************************************)
(* The failure count                                                       *)
(***************************************************************************)
\* One more member makes a set larger by one at most.
LEMMA AddOne ==
  ASSUME NEW S, IsFiniteSet(S), NEW x
  PROVE  IsFiniteSet(S \cup {x}) /\ Cardinality(S \cup {x}) <= Cardinality(S) + 1
<1>1. Cardinality(S) \in Nat
  BY FS_CardinalityType
<1>2. /\ IsFiniteSet(S \cup {x})
      /\ \/ Cardinality(S \cup {x}) = Cardinality(S)
         \/ Cardinality(S \cup {x}) = Cardinality(S) + 1
  BY FS_AddElement, Zenon
<1>. QED BY <1>1, <1>2

\* The workers on the way to opening the circuit can be counted.
LEMMA TrippingFinite ==
  /\ IsFiniteSet(Tripping) /\ Cardinality(Tripping) \in Nat
  /\ IsFiniteSet(Tripping') /\ Cardinality(Tripping') \in Nat
<1>1. Tripping \subseteq Worker /\ Tripping' \subseteq Worker
  BY DEF Tripping
<1>. QED BY <1>1, DispatcherAssumption, FS_Subset, FS_CardinalityType

\* Nobody starts or stops tripping where no worker passes the boundary.
LEMMA TrippingSame ==
  ASSUME \A w \in Worker : call'[w].pc \in {"trip", "clear"} <=> call[w].pc \in {"trip", "clear"}
  PROVE  Tripping' = Tripping
BY DEF Tripping

\* Every step keeps the bound of the failure count.
LEMMA ActedStep ==
  ASSUME DispatcherTypeOK, FailuresAreActedOn, [DispatcherNext]_dispatcherVars
  PROVE  FailuresAreActedOn'
<1> USE DispatcherAssumption DEF DispatcherTypeOK, keys
<1> USE TrippingFinite
<1>1. ASSUME NEW w \in Worker,
             Enter(w) \/ Halt(w) \/ ReadClock(w) \/ Charge(w) \/ Throttle(w)
               \/ Send(w) \/ GiveUp(w) \/ Trip(w)
      PROVE  FailuresAreActedOn'
  <2>1. fails' = fails /\ lost' = lost
    BY <1>1 DEF Enter, Halt, ReadClock, Charge, Throttle, Send, GiveUp, Trip
  <2>2. \A v \in Worker : call'[v].pc \in {"trip", "clear"} <=> call[v].pc \in {"trip", "clear"}
    <3>1. CASE Enter(w) \/ Halt(w) \/ ReadClock(w) \/ Throttle(w)
      BY <3>1 DEF Enter, Halt, ReadClock, Throttle, Goto, Call
    <3>2. CASE Charge(w) \/ Send(w) \/ Trip(w)
      BY <3>2 DEF Charge, Send, Trip, Goto, Call
    <3>3. CASE GiveUp(w)
      BY <3>3 DEF GiveUp, Return, NoCall
    <3>. QED BY <1>1, <3>1, <3>2, <3>3
  <2>3. Tripping' = Tripping
    BY <2>2, TrippingSame
  <2>. QED BY <2>1, <2>3 DEF FailuresAreActedOn
<1>2. ASSUME NEW w \in Worker, Succeed(w) \/ Clear(w)
      PROVE  FailuresAreActedOn'
  <2>1. fails' = 0 /\ lost' = lost
    BY <1>2 DEF Succeed, Clear
  <2>. QED BY <2>1 DEF FailuresAreActedOn
<1>3. ASSUME NEW w \in Worker, Count(w)
      PROVE  FailuresAreActedOn'
  <2>1. fails' = fails + 1 /\ lost' = lost
    BY <1>3 DEF Count
  <2>2. CASE fails + 1 >= Threshold
    <3>1. call[w].pc = "failed" /\ call' = [call EXCEPT ![w].pc = "trip"]
      BY <1>3, <2>2 DEF Count, Goto
    <3>2. w \notin Tripping /\ Tripping' = Tripping \cup {w}
      BY <3>1 DEF Tripping
    <3>3. Cardinality(Tripping') = Cardinality(Tripping) + 1
      BY <3>2, FS_AddElement
    <3>. QED BY <2>1, <3>3 DEF FailuresAreActedOn
  <2>3. CASE ~(fails + 1 >= Threshold)
    BY <2>1, <2>3 DEF FailuresAreActedOn
  <2>. QED BY <2>2, <2>3
<1>4. ASSUME NEW w \in Worker, Abandon(w)
      PROVE  FailuresAreActedOn'
  <2>1. fails' = fails /\ lost' = lost + 1
    BY <1>4 DEF Abandon
  <2>2. Tripping \subseteq Tripping' \cup {w}
    BY <1>4 DEF Abandon, Return, Tripping
  <2>3. IsFiniteSet(Tripping' \cup {w}) /\ Cardinality(Tripping' \cup {w}) <= Cardinality(Tripping') + 1
    BY AddOne
  <2>4. Cardinality(Tripping) <= Cardinality(Tripping' \cup {w}) /\ Cardinality(Tripping' \cup {w}) \in Nat
    BY <2>2, <2>3, FS_Subset, FS_CardinalityType
  <2>. QED BY <2>1, <2>3, <2>4 DEF FailuresAreActedOn
<1>5. CASE Expire \/ Tick \/ UNCHANGED dispatcherVars
  BY <1>5 DEF Expire, Tick, dispatcherVars, FailuresAreActedOn, Tripping
<1>. QED BY <1>1, <1>2, <1>3, <1>4, <1>5 DEF DispatcherNext, Step

(***************************************************************************)
(* Attempts behind an open circuit                                         *)
(***************************************************************************)
\* Every step keeps the bound of late attempts.
LEMMA LateStep ==
  ASSUME DispatcherTypeOK, LateInv, [DispatcherNext]_dispatcherVars
  PROVE  LateInv'
<1> USE DEF DispatcherTypeOK, keys, LateInv, LateAttemptsAreFew, MaxRetries
<1>0. \A w \in Worker : call[w].attempt \in 1 .. 3 /\ late[w] \in Nat /\ Used(call[w]) \in 0 .. 3
  BY DEF Call, Used
<1>1. ASSUME NEW w \in Worker, Enter(w) \/ Halt(w)
      PROVE  LateInv'
  BY <1>1 DEF Enter, Halt, Goto
<1>2. ASSUME NEW w \in Worker, ReadClock(w) \/ Throttle(w) \/ Send(w)
      PROVE  LateInv'
  <2>1. late' = late /\ open' = open
    BY <1>2 DEF ReadClock, Throttle, Send
  <2>2. /\ call[w].pc # "idle" /\ Used(call[w]) <= Used(call'[w])
        /\ \A v \in Worker \ {w} : call'[v] = call[v]
    BY <1>0, <1>2 DEF ReadClock, Throttle, Send, Goto, Call, Used
  <2>3. call'[w].attempt = call[w].attempt /\ Used(call'[w]) \in 0 .. 3
    BY <1>0, <1>2 DEF ReadClock, Throttle, Send, Goto, Call, Used
  <2>. QED BY <1>0, <2>1, <2>2, <2>3
<1>3. ASSUME NEW w \in Worker, Charge(w)
      PROVE  LateInv'
  <2>1. /\ call[w].pc = "charge" /\ open' = open
        /\ call' = [call EXCEPT ![w].pc = "send"]
        /\ late' = [late EXCEPT ![w] = IF open THEN @ + 1 ELSE @]
    BY <1>3 DEF Charge, Goto
  <2>2. Used(call[w]) = call[w].attempt - 1 /\ Used(call'[w]) = call[w].attempt
    BY <2>1 DEF Used, Call
  <2>3. late'[w] <= MaxRetries /\ (open' => late'[w] <= Used(call'[w]))
    BY <1>0, <2>1, <2>2
  <2>. QED BY <2>1, <2>3
<1>4. ASSUME NEW w \in Worker, GiveUp(w) \/ Succeed(w) \/ Abandon(w)
      PROVE  LateInv'
  BY <1>4 DEF GiveUp, Succeed, Abandon, Return, NoCall
<1>5. ASSUME NEW w \in Worker, NextAttempt(w), call[w].pc \in {"failed", "clear"},
             late' = late, open' = open
      PROVE  LateInv'
  <2>1. \A v \in Worker \ {w} : call'[v] = call[v]
    BY <1>5 DEF NextAttempt, Return
  <2>2. CASE call[w].attempt < 3
    <3>1. call'[w].pc = "ready" /\ call'[w].attempt = call[w].attempt + 1
      BY <1>5, <2>2 DEF NextAttempt, Call
    <3>2. Used(call'[w]) = Used(call[w])
      BY <1>0, <1>5, <3>1 DEF Used
    <3>. QED BY <1>5, <2>1, <3>2
  <2>3. CASE ~(call[w].attempt < 3)
    BY <1>5, <2>3 DEF NextAttempt, Return, NoCall
  <2>. QED BY <2>2, <2>3
<1>6. ASSUME NEW w \in Worker, Count(w)
      PROVE  LateInv'
  <2>1. CASE fails + 1 >= Threshold
    BY <1>6, <2>1 DEF Count, Goto, Call, Used
  <2>2. CASE ~(fails + 1 >= Threshold)
    BY <1>5, <1>6, <2>2 DEF Count
  <2>. QED BY <2>1, <2>2
<1>7. ASSUME NEW w \in Worker, Trip(w)
      PROVE  LateInv'
  <2>1. CASE open
    BY <1>7, <2>1 DEF Trip, Goto, Call, Used
  <2>2. CASE ~open
    <3>1. \A v \in Worker : late'[v] = 0 /\ Used(call'[v]) \in 0 .. 3
      BY <1>0, <1>7, <2>2 DEF Trip, Goto, Call, Used
    <3>. QED BY <3>1
  <2>. QED BY <2>1, <2>2
<1>8. ASSUME NEW w \in Worker, Clear(w)
      PROVE  LateInv'
  BY <1>5, <1>8 DEF Clear
<1>9. CASE Expire \/ Tick \/ UNCHANGED dispatcherVars
  BY <1>9 DEF Expire, Tick, dispatcherVars
<1>. QED BY <1>1, <1>2, <1>3, <1>4, <1>6, <1>7, <1>8, <1>9 DEF DispatcherNext, Step

(***************************************************************************)
(* The bucket                                                              *)
(***************************************************************************)
\* Every step keeps tokens and admitted attempts within what was refilled.
LEMMA BucketStep ==
  ASSUME DispatcherTypeOK, BucketInv, [DispatcherNext]_dispatcherVars
  PROVE  BucketInv'
<1> USE DEF DispatcherTypeOK, keys
<1>1. ASSUME NEW w \in Worker, Charge(w), ~skewed'
      PROVE  bucket'.tokens + sent' <= Rate * (1 + bucket'.time)
  <2> DEFINE clock == call[w].clock  t == bucket.time
  <2>0. ~skewed /\ ~(call[w].clock < bucket.time)
    BY <1>1, Zenon DEF Charge
  <2>1. /\ clock \in Nat /\ t \in Nat /\ clock >= t /\ ~skewed
        /\ Rate \in Nat /\ sent \in Nat /\ bucket.tokens \in Nat
    BY <2>0, DispatcherAssumption DEF Call
  <2>2. Refilled(clock) <= bucket.tokens + (clock - t) * Rate /\ Refilled(clock) \in Nat
    BY <2>1, RefilledBounds
  <2>3. bucket.tokens + sent <= Rate * (1 + t)
    BY <2>1 DEF BucketInv
  <2>4. /\ bucket'.tokens = Refilled(clock) - 1 /\ bucket'.time = clock
        /\ sent' = sent + 1
    BY <1>1 DEF Charge
  <2>5. Rate * (1 + t) + (clock - t) * Rate = Rate * (1 + clock)
    BY <2>1
  <2>6. (clock - t) * Rate \in Nat /\ Rate * (1 + t) \in Nat
    BY <2>1
  <2> HIDE DEF clock, t
  <2>. QED BY <2>1, <2>2, <2>3, <2>4, <2>5, <2>6
<1>2. CASE ~(\E w \in Worker : Charge(w))
  <2>1. bucket' = bucket /\ sent' = sent /\ skewed' = skewed
    BY <1>2 DEF DispatcherNext, Step, Expire, Tick, Enter, Halt, ReadClock, Throttle, Send, GiveUp,
                Succeed, Count, Trip, Clear, Abandon, dispatcherVars
  <2>. QED BY <2>1 DEF BucketInv
<1>. QED BY <1>1, <1>2 DEF BucketInv

(***************************************************************************)
(* The theorems                                                            *)
(***************************************************************************)
\* The inductive invariant holds of every state of every call.
THEOREM DispatcherInvariant == DispatcherSpec => []DispatcherInv
<1>1. DispatcherInit => DispatcherInv
  <2> SUFFICES ASSUME DispatcherInit PROVE DispatcherInv
    OBVIOUS
  <2>1. Tripping = {}
    BY DEF DispatcherInit, NoCall, Tripping
  <2>2. Cardinality(Tripping) = 0
    BY <2>1, FS_EmptySet
  <2>3. DispatcherTypeOK
    <3>1. NoCall \in Call /\ NoCall.clock = 0
      BY DEF NoCall, Call, MaxRetries
    <3>2. open \in BOOLEAN /\ skewed \in BOOLEAN
      BY DEF DispatcherInit
    <3>3. /\ bucket \in [tokens : 0 .. Rate, time : 0 .. now]
          /\ call \in [Worker -> Call] /\ \A w \in Worker : call[w].clock <= now
      BY <3>1, DispatcherAssumption DEF DispatcherInit
    <3>4. late \in [Worker -> Nat]
      BY DEF DispatcherInit
    <3>. QED BY <3>2, <3>3, <3>4, DispatcherAssumption DEF DispatcherInit, DispatcherTypeOK
  <2>4. FailuresAreActedOn
    BY <2>2, DispatcherAssumption DEF DispatcherInit, FailuresAreActedOn
  <2>5. LateInv
    BY DEF DispatcherInit, LateInv, LateAttemptsAreFew, MaxRetries, NoCall
  <2>6. BucketInv
    BY DispatcherAssumption DEF DispatcherInit, BucketInv
  <2>. QED BY <2>3, <2>4, <2>5, <2>6 DEF DispatcherInv
<1>2. DispatcherInv /\ [DispatcherNext]_dispatcherVars => DispatcherInv'
  BY TypeStep, ActedStep, LateStep, BucketStep DEF DispatcherInv
<1>. QED BY <1>1, <1>2, PTL DEF DispatcherSpec

\* Every variable keeps its type.
THEOREM DispatcherTypeCorrect == DispatcherSpec => []DispatcherTypeOK
<1>1. DispatcherInv => DispatcherTypeOK
  BY DEF DispatcherInv
<1>. QED BY <1>1, DispatcherInvariant, PTL

\* No failure at the threshold goes without a worker that opens the circuit, but
\* for those cut short.
THEOREM ThresholdIsHonoured == DispatcherSpec => []FailuresAreActedOn
<1>1. DispatcherInv => FailuresAreActedOn
  BY DEF DispatcherInv
<1>. QED BY <1>1, DispatcherInvariant, PTL

\* At most three attempts of each worker pass an open circuit.
THEOREM OpenCircuitHolds == DispatcherSpec => []LateAttemptsAreFew
<1>1. DispatcherInv => LateAttemptsAreFew
  BY DEF DispatcherInv, LateInv
<1>. QED BY <1>1, DispatcherInvariant, PTL

\* Readings in order keep the rate.
THEOREM OrderedReadersKeepTheQuota == DispatcherSpec => []QuotaInOrder
<1>1. DispatcherInv => QuotaInOrder
  <2> SUFFICES ASSUME DispatcherInv, ~skewed PROVE sent <= Rate * (1 + now)
    BY DEF QuotaInOrder
  <2>1. /\ bucket.tokens \in Nat /\ bucket.time \in Nat /\ now \in Nat /\ sent \in Nat
        /\ bucket.time <= now /\ Rate \in Nat
    BY DispatcherAssumption DEF DispatcherInv, DispatcherTypeOK
  <2>2. bucket.tokens + sent <= Rate * (1 + bucket.time)
    BY DEF DispatcherInv, BucketInv
  <2>3. Rate * (1 + now) = Rate * (1 + bucket.time) + Rate * (now - bucket.time)
    BY <2>1
  <2>4. Rate * (now - bucket.time) \in Nat /\ Rate * (1 + bucket.time) \in Nat
    BY <2>1
  <2>. QED BY <2>1, <2>2, <2>3, <2>4
<1>. QED BY <1>1, DispatcherInvariant, PTL

=============================================================================
