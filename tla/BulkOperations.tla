--------------------------- MODULE BulkOperations ---------------------------
(***************************************************************************)
(* The bulk panel of the transaction screen (BulkOperationsPanel.tsx).     *)
(* The panel is a component of the screen: closing it, or changing the     *)
(* screen under it, forgets its state.  A run it started is an async       *)
(* function that goes through a copy of the selection and sends one resume *)
(* request after another; it lives on when the panel is gone.              *)
(***************************************************************************)
EXTENDS InstanceServer

CONSTANT MaxRuns   \* bound: bulk runs started

ASSUME BulkAssumption == MaxRuns \in Nat

BulkAction == {"approve", "retry", "cancel"}
Eligible == {"PAUSED", "AWAITING_REPAIR"}   \* of BULK_ELIGIBLE_STATUSES, those the server sets

VARIABLES
  bulk,   \* the state of the panel
  runs    \* the runs started, in order

bulkVars == <<bulk, runs>>

\* listed: the transactions the last list held; results: a run was started and
\* its rows are on display.
Panel == [open : BOOLEAN, filter : Eligible, listed : SUBSET Inst, selected : SUBSET Inst,
          act : BulkAction, results : BOOLEAN, running : BOOLEAN]

ClosedPanel == [open |-> FALSE, filter |-> "PAUSED", listed |-> {}, selected |-> {},
                act |-> "approve", results |-> FALSE, running |-> FALSE]

\* todo: the ids not yet looked at; at: the transaction whose request is on its
\* way, at "leg" of it; good, bad: the rows shown as done and as failed;
\* watched: the panel that started the run is still there.
Run == [todo : SUBSET Inst, act : BulkAction, at : SUBSET Inst, leg : {"there", "ok", "bad"},
        good : SUBSET Inst, bad : SUBSET Inst, watched : BOOLEAN, over : BOOLEAN]

BulkTypeOK ==
  /\ bulk \in Panel /\ runs \in Seq(Run) /\ Len(runs) <= MaxRuns
  /\ \A l \in DOMAIN runs : Cardinality(runs[l].at) <= 1
  /\ ~bulk.results => bulk.selected \subseteq bulk.listed

BulkInit == bulk = ClosedPanel /\ runs = <<>>

(***************************************************************************)
(* The panel                                                               *)
(***************************************************************************)
\* A status is chosen, or the first one is shown: its list arrives and the
\* selection is cleared.
Listed(st) == {i \in Inst : rows[i].status = st}
ShowStatus(st) ==
  /\ bulk.open /\ ~bulk.results
  /\ bulk' = [bulk EXCEPT !.filter = st, !.listed = Listed(st), !.selected = {}]
  /\ UNCHANGED <<runs, rows>>

Toggled(i) == IF i \in bulk.selected THEN bulk.selected \ {i} ELSE bulk.selected \cup {i}
AllToggled ==
  IF Cardinality(bulk.selected) = Cardinality(bulk.listed) THEN {} ELSE bulk.listed

\* Checkboxes and the action picker are shown until there are results.
Tick ==
  /\ bulk.open /\ ~bulk.results
  /\ \E s \in {Toggled(i) : i \in bulk.listed} \cup {AllToggled} : bulk' = [bulk EXCEPT !.selected = s]
  /\ UNCHANGED <<runs, rows>>

PickAction(a) ==
  /\ bulk.open /\ ~bulk.results /\ bulk.act # a
  /\ bulk' = [bulk EXCEPT !.act = a]
  /\ UNCHANGED <<runs, rows>>

RunOffered == bulk.open /\ ~bulk.results /\ bulk.selected # {} /\ ~bulk.running

\* handleRun up to its loop.
HandleRun ==
  /\ RunOffered /\ Len(runs) < MaxRuns
  /\ bulk' = [bulk EXCEPT !.results = TRUE, !.running = TRUE]
  /\ runs' = Append(runs, [todo |-> bulk.selected, act |-> bulk.act,
                           at |-> {}, leg |-> "there", good |-> {}, bad |-> {},
                           watched |-> TRUE, over |-> FALSE])
  /\ UNCHANGED rows

StartOver ==
  /\ bulk.open /\ bulk.results /\ ~bulk.running
  /\ bulk' = [bulk EXCEPT !.results = FALSE, !.selected = {}]
  /\ UNCHANGED <<runs, rows>>

(***************************************************************************)
(* The loop of a run                                                       *)
(***************************************************************************)
\* The next id.  Its workflow_id is looked up in the list the run was started
\* from, which holds every selected id.
LoopNext(l) ==
  LET r == runs[l] IN
  /\ r.at = {} /\ ~r.over
  /\ \E i \in r.todo :
       runs' = [runs EXCEPT ![l] = [r EXCEPT !.todo = @ \ {i}, !.at = {i}, !.leg = "there"]]
  /\ UNCHANGED <<bulk, rows>>

\* The server answers the request, or the connection breaks before or after it
\* acted.
LoopServed(l) ==
  LET r == runs[l] IN
  /\ r.leg = "there"
  /\ \E i \in r.at :
       \/ Take(i, r.act, rows[i].node) /\ \E leg \in {"ok", "bad"} : runs' = [runs EXCEPT ![l].leg = leg]
       \/ Refuse(i, r.act, rows[i].node) /\ runs' = [runs EXCEPT ![l].leg = "bad"]
  /\ UNCHANGED bulk

\* Faulty variant: an error ends the loop and leaves the panel running.
LoopAnsweredUncaught(l) ==
  LET r == runs[l] IN
  /\ r.at # {} /\ r.leg = "ok"
  /\ runs' = [runs EXCEPT ![l] = [r EXCEPT !.good = @ \cup r.at, !.at = {}]]
  /\ UNCHANGED <<bulk, rows>>

LoopAnswered(l) ==
  LET r == runs[l] IN
  /\ r.at # {} /\ r.leg # "there"
  /\ runs' = [runs EXCEPT ![l] =
       IF r.leg = "ok" THEN [r EXCEPT !.good = @ \cup r.at, !.at = {}]
                       ELSE [r EXCEPT !.bad = @ \cup r.at, !.at = {}]]
  /\ UNCHANGED <<bulk, rows>>

\* The loop is over: setRunning and refetch, which do nothing for a panel that
\* is gone.
LoopEnds(l) ==
  LET r == runs[l] IN
  /\ r.at = {} /\ r.todo = {} /\ ~r.over
  /\ runs' = [runs EXCEPT ![l].over = TRUE]
  /\ bulk' = IF r.watched THEN [bulk EXCEPT !.running = FALSE, !.listed = Listed(bulk.filter)]
                          ELSE bulk
  /\ UNCHANGED rows

LoopStep(l) == LoopNext(l) \/ LoopServed(l) \/ LoopAnswered(l) \/ LoopEnds(l)

PanelStep ==
  \/ \E st \in Eligible : ShowStatus(st)
  \/ \E a \in BulkAction : PickAction(a)
  \/ Tick \/ HandleRun \/ StartOver

=============================================================================
