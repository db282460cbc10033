--------------------------- MODULE OutboxContract ---------------------------
(***************************************************************************)
(* What the transactional outbox promises to the code that writes it: an   *)
(* event becomes owed when its transaction commits, an owed event may be   *)
(* dispatched any number of times, and a debt is discharged only for an    *)
(* event that was dispatched (at-least-once towards the in-memory bus).    *)
(***************************************************************************)
CONSTANT Event

VARIABLES
  debt,        \* "none", "owed" or "discharged" for each event
  dispatched   \* events that went through the bus

cvars == <<debt, dispatched>>

Init ==
  /\ debt = [e \in Event |-> "none"]
  /\ dispatched = {}

Owe(e) ==
  /\ debt[e] = "none"
  /\ debt' = [debt EXCEPT ![e] = "owed"]
  /\ UNCHANGED dispatched

Dispatch(e) ==
  /\ debt[e] # "none"
  /\ dispatched' = dispatched \cup {e}
  /\ UNCHANGED debt

\* A whole batch is discharged at once; every member was dispatched.
Discharge(batch) ==
  /\ \A e \in batch : debt[e] # "none" /\ e \in dispatched
  /\ debt' = [e \in Event |-> IF e \in batch THEN "discharged" ELSE debt[e]]
  /\ UNCHANGED dispatched

Next ==
  \/ \E e \in Event : Owe(e) \/ Dispatch(e)
  \/ \E batch \in SUBSET Event : Discharge(batch)

Spec == Init /\ [][Next]_cvars
=============================================================================
