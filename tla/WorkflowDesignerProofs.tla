----------------------- MODULE WorkflowDesignerProofs -----------------------
(***************************************************************************)
(* Proofs about the workflow designer and the store around it, for any     *)
(* packages, products, workflows, templates, diagrams and bounds.          *)
(***************************************************************************)
EXTENDS WorkflowDesigner, TLAPS

(***************************************************************************)
(* The canvas and its source                                               *)
(***************************************************************************)
\* What a designer that is closed had on its canvas is gone: without this an
\* answer that replaces the draft would leave a canvas without its source.
SourceInv == CanvasHasSource /\ (~Open => canvas = Empty)

\* What a list puts on the canvas, or leaves there.
Sourced(c, d) == c \in {Empty, d} \/ \E p \in DOMAIN SeedOf : c = SeedOf[p]

\* Loading puts a saved workflow there, or nothing.
LEMMA AutoLoadIsSourced ==
  ASSUME NEW core, NEW seen, NEW c, NEW d, Sourced(c, d)
  PROVE  Sourced(AutoLoad(core, seen, c), d)
BY DEF AutoLoad, Loaded, Sourced

\* An edit puts what it makes in the draft.
LEMMA EditIsSourced ==
  ASSUME SourceInv, Visible, NEW c, NEW d, Edit(c, d)
  PROVE  SourceInv'
BY DEF Edit, Drafted, SourceInv, CanvasHasSource, Visible, Open

\* A look changes neither.
LEMMA LookIsSourced ==
  ASSUME SourceInv, NEW d, Look(d)
  PROVE  SourceInv'
BY DEF Look, SourceInv, CanvasHasSource, Open, Empty

\* Every edit and every click on the canvas.
LEMMA DesignIsSourced ==
  ASSUME SourceInv, Design
  PROVE  SourceInv'
<1>1. CASE AddNewNode \/ DropShape \/ DropSubWorkflow \/ Connect \/ EdgeUpdate
             \/ EdgeContextMenu \/ EdgeRemovedByKey
  BY <1>1, EditIsSourced DEF AddNewNode, DropShape, DropSubWorkflow, Connect, EdgeUpdate,
     EdgeContextMenu, EdgeRemovedByKey, Editing
<1>2. CASE DeleteFromTable \/ DeleteFromMenu \/ NodeRemovedByKey \/ Retitle \/ SaveDraft
             \/ SaveAll \/ EditEdge \/ DeleteEdge
  BY <1>2, EditIsSourced DEF DeleteFromTable, DeleteFromMenu, DeleteNode, NodeRemovedByKey,
     Retitle, SaveDraft, SaveAll, EditEdge, DeleteEdge, Editing
<1>3. CASE SelectNode \/ SelectEdge \/ SelectRow \/ PaneClick \/ OpenContextMenu
             \/ CloseDrawer \/ ModifyConfiguration \/ CloseEdgeDrawer \/ OpenTemplates
  BY <1>3, LookIsSourced DEF SelectNode, SelectEdge, SelectRow, PaneClick, OpenContextMenu,
     CloseDrawer, ModifyConfiguration, CloseEdgeDrawer, OpenTemplates
<1>4. CASE Publish \/ CloneTemplate \/ ParseDiagram
  <2>1. UNCHANGED <<store, draft, canvas>>
    BY <1>4 DEF Publish, CloneTemplate, ParseDiagram, Asks
  <2>. QED BY <2>1 DEF SourceInv, CanvasHasSource, Open
<1>. QED BY <1>1, <1>2, <1>3, <1>4 DEF Design

\* The designer opens with the draft, closes with nothing, and takes over what
\* belongs to another product.
LEMMA GoesIsSourced ==
  ASSUME SourceInv, NEW s, Goes(s)
  PROVE  SourceInv'
<1>0. Sourced(canvas, draft) /\ store' = s
  BY DEF SourceInv, CanvasHasSource, Sourced, Goes
<1>1. CASE Open /\ s.module # "workflow-designer"
  <2>1. canvas' = Empty
    BY <1>1 DEF Goes, Unmounts
  <2>. QED BY <2>1 DEF SourceInv, CanvasHasSource, Empty
<1>2. CASE ~Open /\ s.module = "workflow-designer"
  <2> DEFINE c == IF draft = None THEN Empty ELSE draft
  <2>1. canvas' = AutoLoad(s.core, list.seen, c) /\ draft' = draft
    BY <1>2 DEF Goes, Mounts
  <2>2. Sourced(canvas', draft')
    BY <2>1, AutoLoadIsSourced DEF Sourced
  <2>3. Open'
    BY <1>0, <1>2 DEF Open
  <2>. QED BY <2>2, <2>3 DEF SourceInv, CanvasHasSource, Sourced
<1>3. CASE Open /\ s.module = "workflow-designer"
  <2>1. draft' = draft /\ canvas' \in {canvas, AutoLoad(s.core, list.seen, canvas)}
    BY <1>3 DEF Goes, Stays
  <2>2. Sourced(canvas', draft')
    BY <1>0, <2>1, AutoLoadIsSourced
  <2>3. Open'
    BY <1>0, <1>3 DEF Open
  <2>. QED BY <2>2, <2>3 DEF SourceInv, CanvasHasSource, Sourced
<1>4. CASE ~Open /\ s.module # "workflow-designer"
  <2>1. UNCHANGED <<canvas, draft>>
    BY <1>4 DEF Goes
  <2>. QED BY <1>4, <2>1 DEF SourceInv, CanvasHasSource, Empty
<1>. QED BY <1>1, <1>2, <1>3, <1>4

\* Every way to leave the designer, or to come to it.
LEMMA MoveIsSourced ==
  ASSUME SourceInv, Move
  PROVE  SourceInv'
<1>1. CASE Navigate \/ Leave \/ EnterPackage \/ PickProduct \/ PickInBanner
  BY <1>1, GoesIsSourced DEF Navigate, Leave, EnterPackage, PickProduct, PickInBanner
<1>2. CASE Invoke
  <2>1. canvas' = Empty
    BY <1>2 DEF Invoke, Unmounts
  <2>. QED BY <2>1 DEF SourceInv, CanvasHasSource, Empty
<1>3. CASE InvokeSubFlow
  BY <1>3 DEF InvokeSubFlow, SourceInv, CanvasHasSource, Open, Empty
<1>. QED BY <1>1, <1>2, <1>3 DEF Move

\* Lists, and answers to requests of a designer that may be closed by then.
LEMMA NetworkIsSourced ==
  ASSUME SourceInv, Network
  PROVE  SourceInv'
<1>1. CASE ListArrives
  <2>1. UNCHANGED <<store, draft>> /\ canvas' \in {canvas, AutoLoad(store.core, list.posts, canvas)}
        /\ (~Open => canvas' = canvas)
    BY <1>1 DEF ListArrives
  <2>2. Sourced(canvas', draft')
    BY <2>1, AutoLoadIsSourced DEF SourceInv, CanvasHasSource, Sourced
  <2>. QED BY <2>1, <2>2 DEF SourceInv, CanvasHasSource, Sourced, Open, Empty
<1>2. CASE \E c \in calls : CallAnswered(c)
  <2>. PICK c \in calls : Answered(c)
    BY <1>2 DEF CallAnswered
  <2>1. store' = store /\ draft' = c.canvas /\ canvas' = IF Open THEN c.canvas ELSE canvas
    BY DEF Answered
  <2>. QED BY <2>1 DEF SourceInv, CanvasHasSource, Open, Empty
<1>3. CASE \E c \in calls : PublishAnswered(c) \/ CallFails(c)
  <2>1. UNCHANGED <<store, draft, canvas>>
    BY <1>3 DEF PublishAnswered, CallFails
  <2>. QED BY <2>1 DEF SourceInv, CanvasHasSource, Open, Empty
<1>4. CASE ListFails \/ ListCollected \/ DraftStored \/ DraftLost \/ OthersSave
  <2>1. UNCHANGED <<store, draft, canvas>>
    BY <1>4 DEF ListFails, ListCollected, DraftStored, DraftLost, OthersSave
  <2>. QED BY <2>1 DEF SourceInv, CanvasHasSource, Open, Empty
<1>. QED BY <1>1, <1>2, <1>3, <1>4 DEF Network, Answers

\* What the canvas shows is never only there: it is the draft or a saved workflow,
\* through every edit, visit, list and late answer.
THEOREM CanvasSourced == Spec => []CanvasHasSource
<1>1. Init => SourceInv
  BY DEF Init, SourceInv, CanvasHasSource
<1>2. SourceInv /\ [Next]_vars => SourceInv'
  <2>. SUFFICES ASSUME SourceInv, [Next]_vars PROVE SourceInv'
    OBVIOUS
  <2>1. CASE Auditing \/ UNCHANGED vars
    <3>1. UNCHANGED <<store, draft, canvas>>
      BY <2>1 DEF Auditing, vars, designerVars
    <3>. QED BY <3>1 DEF SourceInv, CanvasHasSource, Open, Empty
  <2>. QED BY <2>1, DesignIsSourced, MoveIsSourced, NetworkIsSourced DEF Next
<1>3. SourceInv => CanvasHasSource
  BY DEF SourceInv
<1>. QED BY <1>1, <1>2, <1>3, PTL DEF Spec

(***************************************************************************)
(* Product and sub-product                                                 *)
(***************************************************************************)
\* The two keys of the store.
Keyed(s) == {"core", "sub"} \subseteq DOMAIN s /\ (s.sub # None => s.core # None)

\* The mutators of the store.
LEMMA MutatorsKeepKeys ==
  ASSUME NEW s, Keyed(s)
  PROVE  /\ \A m : Keyed(WithModule(s, m))
         /\ \A p : Keyed(WithCore(s, p)) /\ Keyed(WithPackage(s, p))
         /\ Keyed(ExitPackage(s))
<1>1. \A t, m : Keyed(t) => Keyed(WithModule(t, m))
  BY DEF WithModule, Keyed
<1>2. \A p : Keyed(WithCore(s, p))
  BY DEF WithCore, Keyed
<1>3. \A p : Keyed(WithPackage(s, p))
  BY DEF WithPackage, Keyed
<1>. QED BY <1>1, <1>2, <1>3 DEF ExitPackage

\* The banner.
LEMMA BannerKeepsKeys ==
  ASSUME NEW s, Keyed(s), NEW t \in BannerPicks(s)
  PROVE  Keyed(t)
BY MutatorsKeepKeys DEF BannerPicks, Keyed

\* No sub-product without its product, wherever the product is changed from.
THEOREM SubHasProduct == Spec => []SubOfProduct
<1>1. Init => Keyed(store)
  BY DEF Init, StoreInit, Keyed
<1>2. Keyed(store) /\ [Next]_vars => Keyed(store)'
  <2>. SUFFICES ASSUME Keyed(store), [Next]_vars PROVE Keyed(store')
    BY DEF Keyed
  <2>1. CASE Navigate \/ Leave \/ EnterPackage \/ PickProduct \/ PickInBanner
    BY <2>1, MutatorsKeepKeys, BannerKeepsKeys DEF Navigate, Leave, EnterPackage, PickProduct,
       PickInBanner, Goes
  <2>2. CASE Invoke \/ InvokeSubFlow
    BY <2>2, MutatorsKeepKeys DEF Invoke, InvokeSubFlow
  <2>3. CASE Design \/ Network \/ Auditing \/ UNCHANGED vars
    <3>1. CASE Network \/ Auditing \/ UNCHANGED vars
      BY <3>1 DEF Network, Auditing, vars, designerVars, ListArrives, ListFails,
         ListCollected, DraftStored, DraftLost, OthersSave, Answers, CallAnswered, Answered,
         PublishAnswered, CallFails
    <3>2. CASE Design
      BY <3>2 DEF Design, AddNewNode, DropShape, DropSubWorkflow, Connect, EdgeUpdate,
         EdgeContextMenu, EdgeRemovedByKey, DeleteFromTable, DeleteFromMenu, DeleteNode,
         NodeRemovedByKey, Retitle, SaveDraft, SaveAll, EditEdge, DeleteEdge, Edit,
         SelectNode, SelectEdge, SelectRow, PaneClick, OpenContextMenu, CloseDrawer,
         ModifyConfiguration, CloseEdgeDrawer, OpenTemplates, Look, Publish, CloneTemplate,
         ParseDiagram, Asks
    <3>. QED BY <2>3, <3>1, <3>2
  <2>. QED BY <2>1, <2>2, <2>3 DEF Next, Move
<1>3. Keyed(store) => SubOfProduct
  BY DEF Keyed, SubOfProduct
<1>. QED BY <1>1, <1>2, <1>3, PTL DEF Spec

(***************************************************************************)
(* The way back from a studio                                              *)
(***************************************************************************)
\* A designer that opens on a draft selects the step its studio was opened from, and
\* takes it out of the store.
LEMMA MountingReturns ==
  ASSUME NEW s, Mounts(s), draft # None
  PROVE  back' = 0 /\ desk'.sel = IF back \in draft.nodes THEN back ELSE 0
<1>1. Returned(BlankDesk, draft) = [BlankDesk EXCEPT !.sel = IF back \in draft.nodes THEN back ELSE 0]
  BY DEF Returned, BlankDesk
<1> DEFINE d == Returned(BlankDesk, draft)
<1>2. d.sel = (IF back \in draft.nodes THEN back ELSE 0) /\ DOMAIN d = DOMAIN BlankDesk
  BY <1>1 DEF BlankDesk
<1> HIDE DEF d
<1>3. \A c : Hydrated(d, c).sel = d.sel
  BY DEF Hydrated
<1>4. desk' = Hydrated(d, AutoLoad(s.core, list.seen, draft)) /\ back' = 0
  BY DEF Mounts, BackUsed, d
<1>. QED BY <1>2, <1>3, <1>4

\* Only what the header, the banner and the pickers do opens the designer.
LEMMA OpeningMounts ==
  ASSUME [Next]_vars, ~Open, Open'
  PROVE  \E s : Mounts(s)
<1>1. store' # store
  BY DEF Open
<1>2. CASE Navigate \/ Leave \/ EnterPackage \/ PickProduct \/ PickInBanner
  <2>1. PICK s : Goes(s)
    BY <1>2 DEF Navigate, Leave, EnterPackage, PickProduct, PickInBanner
  <2>2. s.module = "workflow-designer"
    BY <2>1 DEF Goes, Open
  <2>. QED BY <2>1, <2>2 DEF Goes
<1>3. CASE Invoke \/ InvokeSubFlow
  BY <1>3 DEF Invoke, InvokeSubFlow, Visible
<1>4. CASE Network \/ Auditing \/ UNCHANGED vars
  BY <1>1, <1>4 DEF Network, Auditing, vars, designerVars, ListArrives, ListFails,
     ListCollected, DraftStored, DraftLost, OthersSave, Answers, CallAnswered, Answered,
     PublishAnswered, CallFails
<1>5. CASE Design
  BY <1>1, <1>5 DEF Design, AddNewNode, DropShape, DropSubWorkflow, Connect, EdgeUpdate,
     EdgeContextMenu, EdgeRemovedByKey, DeleteFromTable, DeleteFromMenu, DeleteNode,
     NodeRemovedByKey, Retitle, SaveDraft, SaveAll, EditEdge, DeleteEdge, Edit,
     SelectNode, SelectEdge, SelectRow, PaneClick, OpenContextMenu, CloseDrawer,
     ModifyConfiguration, CloseEdgeDrawer, OpenTemplates, Look, Publish, CloneTemplate,
     ParseDiagram, Asks
<1>. QED BY <1>2, <1>3, <1>4, <1>5 DEF Next, Move

\* Coming back from a studio with a draft, the step it was opened from is selected if the
\* draft still has it, and the store forgets it.
THEOREM ReturnsAreExact == Spec => ReturnsToStep
<1>1. [Next]_vars =>
        [~Open /\ Open' /\ draft # None =>
           back' = 0 /\ desk'.sel = IF back \in draft.nodes THEN back ELSE 0]_designerVars
  BY MountingReturns, OpeningMounts
<1>. QED BY <1>1, PTL DEF Spec, ReturnsToStep

(***************************************************************************)
(* The wiring audit                                                        *)
(***************************************************************************)
\* The request that the panel waits for: it holds what the panel still shows of the picks
\* it was sent with, and what it has written is wired, or gone with its step.
Carries(p) ==
  /\ \A h \in Hole \ panel.late : p.picks[h] = panel.picks[h]
  /\ p.served => \A h \in DOMAIN wired : p.picks[h] # NoTarget => wired[h] # NoTarget

\* The panel waits for one request at most, and while it is open.
PicksInv ==
  /\ AuditOK
  /\ panel.pending => panel.open
  /\ \A p \in patching : p.live => panel.pending /\ Carries(p)
  /\ \A p, q \in patching : p.live /\ q.live => p = q

\* Without a request that the panel waits for there is nothing to hold.
LEMMA NobodyWaits ==
  ASSUME AuditOK', panel'.pending => panel'.open, \A p \in patching' : ~p.live
  PROVE  PicksInv'
BY DEF PicksInv

\* A panel that is closed, or whose designer is left, waits for nothing.
LEMMA ForgottenPatches ==
  ASSUME PicksInv, patching' = {[p EXCEPT !.live = FALSE] : p \in patching}, wired' = wired,
         panel' = ClosedPanel \/ panel' = [ClosedPanel EXCEPT !.open = TRUE, !.asking = TRUE]
  PROVE  PicksInv'
<1>1. \A p \in patching : p \in Patch
  BY DEF PicksInv, AuditOK
<1>2. \A p \in patching' : p \in Patch /\ ~p.live
  BY <1>1 DEF Patch
<1>3. panel' \in Panel /\ ~panel'.pending
  <2>1. NoPicks \in [Hole -> Target \cup {NoTarget}]
    BY DEF NoPicks
  <2>2. ClosedPanel \in Panel /\ ~ClosedPanel.pending
    BY <2>1 DEF ClosedPanel, Panel
  <2> HIDE DEF ClosedPanel
  <2>. QED BY <2>2 DEF Panel
<1>4. AuditOK'
  BY <1>2, <1>3 DEF PicksInv, AuditOK
<1>. QED BY <1>2, <1>3, <1>4, NobodyWaits

\* What users do in the panel.
LEMMA PanelClicksKeep ==
  ASSUME PicksInv, ToggleAudit \/ ApplyWiring
      \/ \E h \in Hole, t \in Target \cup {NoTarget} : PickTarget(h, t)
  PROVE  PicksInv'
<1>0. panel \in Panel /\ \A p \in patching : p \in Patch
  BY DEF PicksInv, AuditOK
<1>1. CASE ToggleAudit
  BY <1>1, ForgottenPatches DEF ToggleAudit
<1>2. CASE ApplyWiring
  <2>. PICK r : r = [picks |-> panel.picks, live |-> TRUE, served |-> FALSE]
    OBVIOUS
  <2>1. /\ panel.open /\ ~panel.pending /\ wired' = wired
        /\ panel' = [panel EXCEPT !.pending = TRUE, !.late = {}] /\ patching' = patching \cup {r}
    BY <1>2 DEF ApplyWiring, ApplyOffered
  <2>2. panel' \in Panel /\ panel'.pending /\ panel'.open /\ panel'.picks = panel.picks
    BY <1>0, <2>1 DEF Panel
  <2>3. r \in Patch /\ ~r.served /\ r.picks = panel.picks
    BY <1>0 DEF Panel, Patch
  <2>4. \A p \in patching : ~p.live
    BY <2>1 DEF PicksInv
  <2>5. AuditOK'
    BY <2>1, <2>2, <2>3 DEF PicksInv, AuditOK
  <2>6. Carries(r)'
    BY <2>2, <2>3 DEF Carries
  <2>7. \A p \in patching' : p.live => p = r
    BY <2>1, <2>4
  <2>8. \A p \in patching' : p.live => Carries(p)'
    BY <2>6, <2>7
  <2>. QED BY <2>2, <2>5, <2>7, <2>8 DEF PicksInv
<1>3. ASSUME NEW h \in Hole, NEW t \in Target \cup {NoTarget}, PickTarget(h, t) PROVE PicksInv'
  <2>1. UNCHANGED <<wired, patching>>
    BY <1>3 DEF PickTarget
  <2>2. /\ panel' \in Panel /\ panel'.open = panel.open /\ panel'.pending = panel.pending
        /\ \A g \in Hole : g # h => panel'.picks[g] = panel.picks[g]
        /\ panel.pending => panel'.late = panel.late \cup {h}
    BY <1>0, <1>3 DEF PickTarget, Panel
  <2>3. AuditOK'
    BY <2>1, <2>2 DEF PicksInv, AuditOK
  <2>4. ASSUME NEW p \in patching, p.live PROVE panel'.pending /\ Carries(p)'
    BY <2>1, <2>2, <2>4 DEF PicksInv, Carries
  <2>. QED BY <2>1, <2>2, <2>3, <2>4 DEF PicksInv
<1>. QED BY <1>1, <1>2, <1>3

\* Audits that arrive, or do not, and workflows that others delete.
LEMMA AuditsKeep ==
  ASSUME PicksInv, AuditArrives \/ AuditFails \/ \E h \in Hole : HoleGone(h)
  PROVE  PicksInv'
<1>0. panel \in Panel
  BY DEF PicksInv, AuditOK
<1>1. CASE AuditArrives \/ AuditFails
  <2>1. UNCHANGED <<wired, patching>>
    BY <1>1 DEF AuditArrives, AuditFails
  <2>2. Unwired \subseteq Hole
    BY DEF Unwired, PicksInv, AuditOK
  <2>3. /\ panel' \in Panel /\ panel'.open = panel.open /\ panel'.pending = panel.pending
        /\ panel'.picks = panel.picks /\ panel'.late = panel.late
    BY <1>0, <1>1, <2>2 DEF AuditArrives, AuditFails, Panel
  <2>. QED BY <2>1, <2>3 DEF PicksInv, AuditOK, Carries
<1>2. ASSUME NEW h \in Hole, HoleGone(h) PROVE PicksInv'
  <2>1. wired' = [g \in DOMAIN wired \ {h} |-> wired[g]] /\ UNCHANGED <<panel, patching>>
    BY <1>2 DEF HoleGone
  <2>2. DOMAIN wired' \subseteq DOMAIN wired /\ \A g \in DOMAIN wired' : wired'[g] = wired[g]
    BY <2>1
  <2>. QED BY <2>1, <2>2 DEF PicksInv, AuditOK, Carries
<1>. QED BY <1>1, <1>2

\* The server writes the picks: whatever had a target keeps one.
LEMMA PatchServedKeeps ==
  ASSUME PicksInv, NEW p \in patching, PatchServed(p)
  PROVE  PicksInv'
<1>1. panel' = panel /\ wired' = Served(p)
  BY DEF PatchServed
<1>2. p \in Patch
  BY DEF PicksInv, AuditOK
<1>. PICK r : r = [p EXCEPT !.served = TRUE]
  OBVIOUS
<1>3. r \in Patch /\ r.picks = p.picks /\ r.live = p.live
  BY <1>2 DEF Patch
<1>4. patching' = (patching \ {p}) \cup {r}
  BY DEF PatchServed
<1>5. /\ DOMAIN wired' = DOMAIN wired
      /\ \A h \in DOMAIN wired : wired'[h] = IF p.picks[h] # NoTarget THEN p.picks[h] ELSE wired[h]
  BY <1>1 DEF Served
<1>6. \A h \in DOMAIN wired : h \in Hole /\ p.picks[h] \in Target \cup {NoTarget}
  BY <1>2 DEF PicksInv, AuditOK, Patch
<1>7. AuditOK'
  BY <1>1, <1>3, <1>4, <1>5, <1>6 DEF PicksInv, AuditOK
<1>8. r.live => panel'.pending /\ Carries(r)'
  BY <1>1, <1>3, <1>5 DEF PicksInv, Carries
<1>9. \A q \in patching : q.live => panel'.pending /\ Carries(q)'
  BY <1>1, <1>5 DEF PicksInv, Carries
<1>10. \A q, s \in patching' : q.live /\ s.live => q = s
  BY <1>3, <1>4 DEF PicksInv
<1>. QED BY <1>1, <1>4, <1>7, <1>8, <1>9, <1>10 DEF PicksInv

\* The request the panel waits for settles, or one it does not wait for.
LEMMA PatchEndsKeeps ==
  ASSUME PicksInv, NEW p \in patching, PatchAnswered(p) \/ PatchFails(p)
  PROVE  PicksInv'
<1>0. panel \in Panel
  BY DEF PicksInv, AuditOK
<1>1. patching' = patching \ {p} /\ wired' = wired
  BY DEF PatchAnswered, PatchFails
<1>2. CASE p.live
  <2>1. \A q \in patching' : ~q.live
    BY <1>1, <1>2 DEF PicksInv
  <2>2. panel' \in Panel /\ ~panel'.pending
    BY <1>0, <1>2 DEF PatchAnswered, PatchFails, Cleared, Failed, Panel, NoPicks
  <2>3. AuditOK'
    BY <1>1, <2>2 DEF PicksInv, AuditOK
  <2>. QED BY <2>1, <2>2, <2>3, NobodyWaits
<1>3. CASE ~p.live
  <2>1. panel' \in {panel, [panel EXCEPT !.asking = TRUE]}
    BY <1>3 DEF PatchAnswered, PatchFails
  <2>2. /\ panel' \in Panel /\ panel'.open = panel.open /\ panel'.pending = panel.pending
        /\ panel'.picks = panel.picks /\ panel'.late = panel.late
    BY <1>0, <2>1 DEF Panel
  <2>. QED BY <1>1, <2>2 DEF PicksInv, AuditOK, Carries
<1>. QED BY <1>2, <1>3

\* What the rest of the designer does to the panel: it closes it, or leaves it alone.
LEMMA PanelLeftAlone ==
  ASSUME [Next]_vars, ~Auditing
  PROVE  \/ UNCHANGED auditVars
         \/ /\ panel' = ClosedPanel /\ patching' = {[p EXCEPT !.live = FALSE] : p \in patching}
            /\ wired' = wired
<1>1. CASE Navigate \/ Leave \/ EnterPackage \/ PickProduct \/ PickInBanner
  <2>1. PICK s : Goes(s)
    BY <1>1 DEF Navigate, Leave, EnterPackage, PickProduct, PickInBanner
  <2>. QED BY <2>1 DEF Goes, Unmounts, Mounts, Stays, auditVars
<1>2. CASE Invoke \/ InvokeSubFlow
  BY <1>2 DEF Invoke, InvokeSubFlow, Unmounts, auditVars
<1>3. CASE Network \/ UNCHANGED vars
  BY <1>3 DEF Network, vars, auditVars, ListArrives, ListFails, ListCollected, DraftStored,
     DraftLost, OthersSave, Answers, CallAnswered, Answered, PublishAnswered, CallFails
<1>4. CASE Design
  BY <1>4 DEF auditVars, Design, AddNewNode, DropShape, DropSubWorkflow, Connect,
     EdgeUpdate, EdgeContextMenu, EdgeRemovedByKey, DeleteFromTable, DeleteFromMenu,
     DeleteNode, NodeRemovedByKey, Retitle, SaveDraft, SaveAll, EditEdge, DeleteEdge,
     Edit, SelectNode, SelectEdge, SelectRow, PaneClick, OpenContextMenu, CloseDrawer,
     ModifyConfiguration, CloseEdgeDrawer, OpenTemplates, Look, Publish, CloneTemplate,
     ParseDiagram, Asks
<1>. QED BY <1>1, <1>2, <1>3, <1>4 DEF Next, Move

\* Every step, of the panel or of the designer around it.
LEMMA PicksInvNext == PicksInv /\ [Next]_vars => PicksInv'
<1>. SUFFICES ASSUME PicksInv, [Next]_vars PROVE PicksInv'
  OBVIOUS
<1>1. CASE Auditing
  BY <1>1, PanelClicksKeep, AuditsKeep, PatchServedKeeps, PatchEndsKeeps DEF Auditing
<1>2. CASE UNCHANGED auditVars
  BY <1>2 DEF auditVars, PicksInv, AuditOK, Carries
<1>. QED BY <1>1, <1>2, PanelLeftAlone, ForgottenPatches

\* What a request takes away when it settles.
LEMMA SettledPicks ==
  ASSUME PicksInv, [Next]_vars, panel.open, panel'.open, panel.pending, ~panel'.pending,
         NEW h \in Hole, panel.picks[h] # NoTarget, panel'.picks[h] = NoTarget
  PROVE  h \in panel.late \/ h \notin DOMAIN wired \/ wired[h] # NoTarget
<1>0. panel \in Panel
  BY DEF PicksInv, AuditOK
<1>1. Auditing
  BY PanelLeftAlone DEF auditVars, ClosedPanel
<1>2. PICK p \in patching : PatchAnswered(p) \/ PatchFails(p)
  <2>1. ~ToggleAudit
    BY DEF ToggleAudit, ClosedPanel
  <2>2. ~ApplyWiring /\ ~AuditArrives /\ ~AuditFails
    BY <1>0 DEF ApplyWiring, ApplyOffered, AuditArrives, AuditFails, Panel
  <2>3. \A g, t : ~PickTarget(g, t)
    BY <1>0 DEF PickTarget, Panel
  <2>4. (\A p \in patching : ~PatchServed(p)) /\ (\A g \in Hole : ~HoleGone(g))
    BY DEF PatchServed, HoleGone
  <2>. QED BY <1>1, <2>1, <2>2, <2>3, <2>4 DEF Auditing
<1>3. p.live /\ p.served
  <2>1. p.live
    BY <1>0, <1>2 DEF PatchAnswered, PatchFails, Panel
  <2>2. ~PatchFails(p)
    BY <1>0, <2>1 DEF PatchFails, Failed, Panel
  <2>. QED BY <1>2, <2>1, <2>2 DEF PatchAnswered
<1>. QED BY <1>3 DEF PicksInv, Carries

\* No request that settles takes away a pick whose step is left without a target, unless
\* the pick was made after the request was sent.
THEOREM PicksAreKept == Spec => PickKept
<1>1. Init => PicksInv
  BY DEF Init, AuditInit, PicksInv, AuditOK, NoPicks, ClosedPanel, Panel
<1>2. PicksInv /\ [Next]_vars =>
        [panel.open /\ panel'.open /\ panel.pending /\ ~panel'.pending =>
           \A h \in Hole :
             panel.picks[h] # NoTarget /\ panel'.picks[h] = NoTarget =>
               h \in panel.late \/ h \notin DOMAIN wired \/ wired[h] # NoTarget]_(auditVars)
  BY SettledPicks
<1>. QED BY <1>1, <1>2, PicksInvNext, PTL DEF Spec, PickKept

=============================================================================
