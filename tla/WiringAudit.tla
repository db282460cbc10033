----------------------------- MODULE WiringAudit -----------------------------
(***************************************************************************)
(* The Wiring Audit panel of the workflow designer: the steps of all saved *)
(* workflows that still need a target, a target picked for some of them,   *)
(* and one request that writes all the picks.  The panel can be closed and *)
(* opened while a request is under way.                                    *)
(***************************************************************************)
EXTENDS Naturals, FiniteSets

CONSTANTS
  Hole,       \* a step (node, index, kind) that a workflow was saved with
  Target,     \* rules, formulas, APIs, workflows to pick from
  NoTarget    \* no pick

ASSUME NoTargetIsNone == NoTarget \notin Target

VARIABLES
  wired,      \* what the server has for a hole; a hole whose node is gone is not in it
  panel,      \* the panel
  patching    \* requests to write picks

auditVars == <<wired, panel, patching>>

Unwired == {h \in DOMAIN wired : wired[h] = NoTarget}

\* late is history: picks made while a request of this panel was under way.
Panel == [open : BOOLEAN, asking : BOOLEAN, shown : SUBSET Hole,
          picks : [Hole -> Target \cup {NoTarget}], pending : BOOLEAN, late : SUBSET Hole]

NoPicks == [h \in Hole |-> NoTarget]
ClosedPanel == [open |-> FALSE, asking |-> FALSE, shown |-> {}, picks |-> NoPicks,
                pending |-> FALSE, late |-> {}]
Patch == [picks : [Hole -> Target \cup {NoTarget}], live : BOOLEAN, served : BOOLEAN]

AuditInit == wired = NoPicks /\ panel = ClosedPanel /\ patching = {}

\* The button over the canvas: opening asks for the audit, closing forgets the picks.
ToggleAudit ==
  /\ panel' = IF panel.open THEN ClosedPanel
              ELSE [ClosedPanel EXCEPT !.open = TRUE, !.asking = TRUE]
  /\ patching' = {[p EXCEPT !.live = FALSE] : p \in patching}
  /\ wired' = wired

AuditArrives ==
  /\ panel.asking
  /\ panel' = [panel EXCEPT !.asking = FALSE, !.shown = Unwired]
  /\ UNCHANGED <<wired, patching>>

AuditFails ==
  /\ panel.asking
  /\ panel' = [panel EXCEPT !.asking = FALSE]
  /\ UNCHANGED <<wired, patching>>

\* The target picker of a step on show; the empty option takes the pick away.
PickTarget(h, t) ==
  /\ h \in panel.shown /\ panel.picks[h] # t
  /\ panel' = [panel EXCEPT !.picks[h] = t,
                            !.late = IF panel.pending THEN @ \cup {h} ELSE @]
  /\ UNCHANGED <<wired, patching>>

\* Apply Wiring is there with picks, and disabled while it saves.
ApplyOffered == panel.open /\ panel.picks # NoPicks /\ ~panel.pending

ApplyWiring ==
  /\ ApplyOffered
  /\ panel' = [panel EXCEPT !.pending = TRUE, !.late = {}]
  /\ patching' = patching \cup {[picks |-> panel.picks, live |-> TRUE, served |-> FALSE]}
  /\ wired' = wired

\* The server writes each pick whose node still exists, in one commit.
Served(p) ==
  [h \in DOMAIN wired |-> IF p.picks[h] # NoTarget THEN p.picks[h] ELSE wired[h]]

PatchServed(p) ==
  /\ ~p.served
  /\ wired' = Served(p)
  /\ patching' = (patching \ {p}) \cup {[p EXCEPT !.served = TRUE]}
  /\ panel' = panel

\* The answer of a request clears every pick of the panel that sent it, and
\* asks for the audit again.
Cleared == [panel EXCEPT !.picks = NoPicks, !.pending = FALSE, !.asking = TRUE, !.late = {}]

PatchAnswered(p) ==
  /\ p.served
  /\ patching' = patching \ {p}
  /\ panel' = IF p.live THEN Cleared
              ELSE IF panel.open THEN [panel EXCEPT !.asking = TRUE] ELSE panel
  /\ wired' = wired

\* Faulty variant: the picks are cleared when the request settles either way.
FailedCleared == Cleared

\* A request that failed, or was served and the answer lost: the picks stay.
Failed == [panel EXCEPT !.pending = FALSE, !.late = {}]

PatchFails(p) ==
  /\ patching' = patching \ {p}
  /\ panel' = IF p.live THEN Failed ELSE panel
  /\ wired' = wired

\* Somebody deletes a workflow, and its nodes with it.
HoleGone(h) ==
  /\ h \in DOMAIN wired
  /\ wired' = [g \in DOMAIN wired \ {h} |-> wired[g]]
  /\ UNCHANGED <<panel, patching>>

AuditOK ==
  /\ \A h \in DOMAIN wired : h \in Hole /\ wired[h] \in Target \cup {NoTarget}
  /\ panel \in Panel
  /\ patching \in SUBSET Patch

\* While the panel stays open, a request that settles never takes away a pick
\* whose step is left without a target, unless the pick was made while that
\* request was under way: then it is cleared with the others and never sent.
PickKept ==
  [][panel.open /\ panel'.open /\ panel.pending /\ ~panel'.pending =>
       \A h \in Hole :
         panel.picks[h] # NoTarget /\ panel'.picks[h] = NoTarget =>
           h \in panel.late \/ h \notin DOMAIN wired \/ wired[h] # NoTarget]_auditVars
=============================================================================
