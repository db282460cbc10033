------------------------------- MODULE Outbox -------------------------------
(***************************************************************************)
(* The event bus (event_bus.py), the transactional outbox it writes, and   *)
(* the relay that empties the outbox (scheduler.py, run_outbox_relay).     *)
(*                                                                         *)
(* broadcast(event, db) only adds a PENDING row to the caller's session:   *)
(* the row appears when the caller commits.  Every application process     *)
(* (Server) runs its own scheduler and its own in-memory bus; its relay    *)
(* reads a batch of PENDING rows, broadcasts each one through the          *)
(* in-memory bus (Kafka producer first, then the listeners in the order    *)
(* they were registered), and commits PUBLISHED for the whole batch at the *)
(* end.  An exception raised by a listener rolls the whole batch back.     *)
(* Many services call broadcast without a session, after their own commit: *)
(* those are the direct events.                                            *)
(*                                                                         *)
(* Left out: pause() and resume() of the bus, which nothing calls; the     *)
(* counters and the ring of recent events, which nothing reads back.       *)
(***************************************************************************)
EXTENDS Integers, FiniteSets

CONSTANTS
  Event,        \* events written through the outbox
  DirectEvent,  \* events broadcast in memory only, after a commit
  Server,       \* application processes, each with a scheduler and a bus
  Depth,        \* trace_depth of each event
  Poison,       \* events on which some listener always raises
  BatchLimit,   \* rows one relay run reads (100 in the code)
  NListeners,   \* callbacks an event reaches, in registration order
  MaxFailures,  \* bound: transient listener or commit failures
  MaxCrashes    \* bound: process crashes

AnyEvent == Event \cup DirectEvent

ASSUME OutboxAssumption ==
  /\ Event \cap DirectEvent = {}
  /\ Depth \in [AnyEvent -> Nat]
  /\ Poison \subseteq AnyEvent
  /\ BatchLimit \in Nat \ {0}
  /\ NListeners \in Nat \ {0}
  /\ MaxFailures \in Nat
  /\ MaxCrashes \in Nat

VARIABLES
  row,       \* state of the outbox row of each event
  todo,      \* per server: rows of the relay's batch not yet broadcast
  marked,    \* per server: rows set PUBLISHED in the session, not committed
  unsent,    \* per server: direct events committed and not yet broadcast
  direct,    \* direct events whose business change is committed
  heard,     \* listeners each event has reached
  tooDeep,   \* events the bus refused because of their trace depth
  buffered,  \* per server: messages in the Kafka producer's local queue
  kafka,     \* messages the Kafka cluster holds
  failures,  \* transient failures so far
  crashes    \* crashes so far

vars == <<row, todo, marked, unsent, direct, heard, tooDeep, buffered, kafka,
          failures, crashes>>

relayVars == <<todo, marked>>
busVars == <<heard, tooDeep, buffered>>

Listener == 1 .. NListeners
RowState == {"none", "staged", "PENDING", "PUBLISHED"}

TypeOK ==
  /\ row \in [Event -> RowState]
  /\ todo \in [Server -> SUBSET Event]
  /\ marked \in [Server -> SUBSET Event]
  /\ unsent \in [Server -> SUBSET DirectEvent]
  /\ direct \subseteq DirectEvent
  /\ heard \in [AnyEvent -> SUBSET Listener]
  /\ tooDeep \subseteq AnyEvent
  /\ buffered \in [Server -> SUBSET AnyEvent]
  /\ kafka \subseteq AnyEvent
  /\ failures \in Nat
  /\ crashes \in Nat

Init ==
  /\ row = [e \in Event |-> "none"]
  /\ todo = [s \in Server |-> {}]
  /\ marked = [s \in Server |-> {}]
  /\ unsent = [s \in Server |-> {}]
  /\ direct = {}
  /\ heard = [e \in AnyEvent |-> {}]
  /\ tooDeep = {}
  /\ buffered = [s \in Server |-> {}]
  /\ kafka = {}
  /\ failures = 0
  /\ crashes = 0

-----------------------------------------------------------------------------
(* The business side: broadcast with a session, then the caller's commit.  *)

\* broadcast(event, db=session) adds the row and returns.
Stage(e) ==
  /\ row[e] = "none"
  /\ row' = [row EXCEPT ![e] = "staged"]
  /\ UNCHANGED <<relayVars, unsent, direct, busVars, kafka, failures, crashes>>

CommitStaged(e) ==
  /\ row[e] = "staged"
  /\ row' = [row EXCEPT ![e] = "PENDING"]
  /\ UNCHANGED <<relayVars, unsent, direct, busVars, kafka, failures, crashes>>

RollbackStaged(e) ==
  /\ row[e] = "staged"
  /\ row' = [row EXCEPT ![e] = "none"]
  /\ UNCHANGED <<relayVars, unsent, direct, busVars, kafka, failures, crashes>>

-----------------------------------------------------------------------------
(* The in-memory bus of one process: broadcast(event, db=None).            *)

\* Queue the message with the Kafka producer; an error there is swallowed.
Produce(s, e) ==
  \/ buffered' = [buffered EXCEPT ![s] = @ \cup {e}]
  \/ UNCHANGED buffered

\* A broadcast that returns: every listener ran, or the event was too deep.
Broadcast(s, e) ==
  IF Depth[e] > 10
    THEN /\ tooDeep' = tooDeep \cup {e}
         /\ UNCHANGED <<heard, buffered>>
    ELSE /\ e \notin Poison
         /\ Produce(s, e)
         /\ heard' = [heard EXCEPT ![e] = Listener]
         /\ UNCHANGED tooDeep

\* A broadcast that raises: a listener failed after the ones before it ran.
BroadcastRaises(s, e) ==
  /\ Depth[e] <= 10
  /\ \/ e \in Poison /\ UNCHANGED failures
     \/ e \notin Poison /\ failures < MaxFailures /\ failures' = failures + 1
  /\ Produce(s, e)
  /\ \E k \in Listener : heard' = [heard EXCEPT ![e] = @ \cup 1 .. (k - 1)]
  /\ UNCHANGED tooDeep

-----------------------------------------------------------------------------
(* The relay job: one run at a time in each process.                       *)

Pending == {e \in Event : row[e] = "PENDING"}

RelayIdle(s) == todo[s] = {} /\ marked[s] = {}

RelayStart(s) ==
  /\ RelayIdle(s)
  /\ \E batch \in SUBSET Pending \ {{}} :
       /\ \/ batch = Pending /\ Cardinality(Pending) <= BatchLimit
          \/ Cardinality(Pending) > BatchLimit /\ Cardinality(batch) = BatchLimit
       /\ todo' = [todo EXCEPT ![s] = batch]
  /\ UNCHANGED <<row, marked, unsent, direct, busVars, kafka, failures, crashes>>

RelaySend(s, e) ==
  /\ e \in todo[s]
  /\ Broadcast(s, e)
  /\ todo' = [todo EXCEPT ![s] = @ \ {e}]
  /\ marked' = [marked EXCEPT ![s] = @ \cup {e}]
  /\ UNCHANGED <<row, unsent, direct, kafka, failures, crashes>>

\* An exception anywhere in the batch: rollback, every mark is forgotten.
RelayRollback(s) ==
  /\ todo' = [todo EXCEPT ![s] = {}]
  /\ marked' = [marked EXCEPT ![s] = {}]

RelaySendRaises(s, e) ==
  /\ e \in todo[s]
  /\ BroadcastRaises(s, e)
  /\ RelayRollback(s)
  /\ UNCHANGED <<row, unsent, direct, kafka, crashes>>

\* Faulty variants: one UPDATE over every PENDING row; a commit left out.
RelayCommitBulk(s) ==
  /\ todo[s] = {} /\ marked[s] # {}
  /\ row' = [e \in Event |-> IF e \in Pending THEN "PUBLISHED" ELSE row[e]]
  /\ marked' = [marked EXCEPT ![s] = {}]
  /\ UNCHANGED <<todo, unsent, direct, busVars, kafka, failures, crashes>>

RelayCommitForgotten(s) ==
  /\ todo[s] = {} /\ marked[s] # {}
  /\ marked' = [marked EXCEPT ![s] = {}]
  /\ UNCHANGED <<row, todo, unsent, direct, busVars, kafka, failures, crashes>>

RelayCommit(s) ==
  /\ todo[s] = {} /\ marked[s] # {}
  /\ row' = [e \in Event |-> IF e \in marked[s] THEN "PUBLISHED" ELSE row[e]]
  /\ marked' = [marked EXCEPT ![s] = {}]
  /\ UNCHANGED <<todo, unsent, direct, busVars, kafka, failures, crashes>>

RelayCommitFails(s) ==
  /\ todo[s] = {} /\ marked[s] # {}
  /\ failures < MaxFailures
  /\ failures' = failures + 1
  /\ RelayRollback(s)
  /\ UNCHANGED <<row, unsent, direct, busVars, kafka, crashes>>

-----------------------------------------------------------------------------
(* Direct events: commit first, broadcast in memory afterwards.            *)

CommitDirect(s, d) ==
  /\ d \notin direct
  /\ direct' = direct \cup {d}
  /\ unsent' = [unsent EXCEPT ![s] = @ \cup {d}]
  /\ UNCHANGED <<row, relayVars, busVars, kafka, failures, crashes>>

\* The exception reaches the caller of the service; nothing sends it again.
BroadcastDirect(s, d) ==
  /\ d \in unsent[s]
  /\ \/ Broadcast(s, d) /\ UNCHANGED failures
     \/ BroadcastRaises(s, d)
  /\ unsent' = [unsent EXCEPT ![s] = @ \ {d}]
  /\ UNCHANGED <<row, relayVars, direct, kafka, crashes>>

-----------------------------------------------------------------------------
(* The Kafka client library delivers its local queue in the background.    *)

KafkaDeliver(s, e) ==
  /\ e \in buffered[s]
  /\ kafka' = kafka \cup {e}
  /\ buffered' = [buffered EXCEPT ![s] = @ \ {e}]
  /\ UNCHANGED <<row, relayVars, unsent, direct, heard, tooDeep, failures,
                 crashes>>

\* A process dies: its session, its bus and its Kafka queue are gone.
Crash(s) ==
  /\ crashes < MaxCrashes
  /\ crashes' = crashes + 1
  /\ RelayRollback(s)
  /\ unsent' = [unsent EXCEPT ![s] = {}]
  /\ buffered' = [buffered EXCEPT ![s] = {}]
  /\ UNCHANGED <<row, direct, heard, tooDeep, kafka, failures>>

Next ==
  \/ \E e \in Event : Stage(e) \/ CommitStaged(e) \/ RollbackStaged(e)
  \/ \E s \in Server :
       \/ RelayStart(s)
       \/ \E e \in Event : RelaySend(s, e) \/ RelaySendRaises(s, e)
       \/ RelayCommit(s) \/ RelayCommitFails(s)
       \/ \E d \in DirectEvent : CommitDirect(s, d) \/ BroadcastDirect(s, d)
       \/ \E e \in AnyEvent : KafkaDeliver(s, e)
       \/ Crash(s)

Spec == Init /\ [][Next]_vars

\* The scheduler runs the relay every five seconds in each process, and a
\* run goes on to its end: either by sending on or by raising.
RelayStep(s) ==
  \/ RelayStart(s)
  \/ \E e \in Event : RelaySend(s, e) \/ RelaySendRaises(s, e)
  \/ RelayCommit(s)

FairSpec == Spec /\ \A s \in Server : WF_vars(RelayStep(s))

-----------------------------------------------------------------------------
(* Properties                                                              *)

\* A relay broadcasts only what a business transaction committed: no
\* listener and no Kafka topic sees an event whose row is staged or was
\* rolled back (the dual-write hazard the outbox exists to remove).
NoPhantomEvents ==
  \A e \in Event :
    (heard[e] # {} \/ e \in kafka \/ \E s \in Server : e \in buffered[s])
      => row[e] \in {"PENDING", "PUBLISHED"}

\* A row is PUBLISHED only after the event went through a broadcast that
\* returned: all the listeners ran, or the bus refused it for its depth.
PublishedWasDispatched ==
  \A e \in Event : row[e] = "PUBLISHED" => (heard[e] = Listener \/ e \in tooDeep)

\* The relay's batch holds committed rows only, and a row it has marked in its
\* session has been dispatched: what makes the two invariants above inductive.
BatchIsCommitted ==
  \A s \in Server : \A e \in todo[s] \cup marked[s] : row[e] \in {"PENDING", "PUBLISHED"}

MarkedWasDispatched ==
  \A s \in Server : \A e \in marked[s] : heard[e] = Listener \/ e \in tooDeep

OutboxInv ==
  /\ TypeOK
  /\ NoPhantomEvents
  /\ PublishedWasDispatched
  /\ BatchIsCommitted
  /\ MarkedWasDispatched

\* Every committed event is eventually marked PUBLISHED, whatever failures
\* and crashes interrupt the relay, once they stop.
EventuallyPublished ==
  \A e \in Event : row[e] = "PENDING" ~> row[e] = "PUBLISHED"

\* The outbox keeps its contract: the relay's batches, rollbacks and crashes
\* never discharge an event that was not dispatched, and never dispatch one
\* that no transaction committed.
Debt ==
  [e \in Event |-> CASE row[e] \in {"none", "staged"} -> "none"
                     [] row[e] = "PENDING" -> "owed"
                     [] row[e] = "PUBLISHED" -> "discharged"]

Dispatched == {e \in Event : heard[e] = Listener \/ e \in tooDeep}

Contract == INSTANCE OutboxContract WITH debt <- Debt, dispatched <- Dispatched

ContractSpec == Contract!Spec

\* What is marked PUBLISHED is in Kafka or on its way there.
PublishedReachesKafka ==
  \A e \in Event : row[e] = "PUBLISHED" /\ Depth[e] <= 10
    => e \in kafka \/ \E s \in Server : e \in buffered[s]

=============================================================================
