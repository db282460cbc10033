--------------------------- MODULE WorkflowDesigner ---------------------------
(***************************************************************************)
(* The workflow designer (WorkflowCanvas.tsx with its drawers, sidebar and *)
(* nodes): what is on the canvas, the draft of it in the global store, the *)
(* list of saved workflows in the query cache that replaces the canvas     *)
(* when it changes, and the requests to save, publish, clone and parse.    *)
(*                                                                         *)
(* An event handler, the render after it and the effects of that render    *)
(* are one step.  A node is its id and whether the drawer configured it;   *)
(* titles, positions, numbering and swimlanes are left out.  Ids made by   *)
(* the canvas never collide here; in the code they are random.             *)
(***************************************************************************)
EXTENDS PlatformStore, WiringAudit

CONSTANTS
  Persisted,       \* node ids that the server made, numbers above MaxStep
  MaxStep,         \* the canvas makes the ids 1..MaxStep
  SeedOf,          \* the saved workflow of a product, for the products that have one
  TemplateCanvas,  \* what a template puts on the canvas
  Diagram,         \* what a parsed diagram puts on the canvas
  DiagramStep,     \* the ids of its nodes
  MaxPosts,        \* bound: workflows saved
  Toured,          \* bound: the modules that are visited
  Budgets          \* bounds: per kind of event, one function for each sitting

Step == 1..MaxStep \cup Persisted \cup DiagramStep
Canvas == [nodes : SUBSET Step, links : SUBSET (Step \X Step), saved : SUBSET Step]
Empty == [nodes |-> {}, links |-> {}, saved |-> {}]

VARIABLES
  draft,    \* workflowDraft of the global store
  back,     \* workflowReturnStepId of the global store
  canvas,   \* nodes and edges
  desk,     \* the rest of the state of the component
  list,     \* the workflow list: in the cache, asked for, and at the server
  calls,    \* requests to clone, parse and publish
  left      \* budgets

designerVars == <<store, draft, back, canvas, desk, list, calls, left>>
vars == <<designerVars, auditVars>>

Desk == [sel : Step \cup {0}, edge : (Step \X Step) \cup {None}, menu : Step \cup {0},
         locked : BOOLEAN, modal : BOOLEAN, cloning : BOOLEAN, parsing : BOOLEAN]
BlankDesk == [sel |-> 0, edge |-> None, menu |-> 0, locked |-> FALSE, modal |-> FALSE,
              cloning |-> FALSE, parsing |-> FALSE]

\* seen: how many workflows the cached list has, -1 if there is no list;
\* posts: how many the server has; drafts: saves on their way to it.
List == [seen : -1..MaxPosts, fetching : BOOLEAN, posts : 0..MaxPosts, drafts : 0..MaxPosts]

Bounded == {"edits", "clicks", "visits", "calls", "others", "picks"}
Spend(k) == left[k] > 0 /\ left' = [left EXCEPT ![k] = @ - 1]

Init ==
  /\ StoreInit /\ AuditInit
  /\ draft = None /\ back = 0 /\ canvas = Empty /\ desk = BlankDesk /\ calls = {}
  /\ list = [seen |-> -1, fetching |-> FALSE, posts |-> 0, drafts |-> 0]
  /\ left \in Budgets

Open == store.module = "workflow-designer"

\* The first load hides the canvas and everything on it.
Visible == Open /\ ~(list.seen = -1 /\ list.fetching)

(***************************************************************************)
(* Effects                                                                 *)
(***************************************************************************)
\* The list finds a product's workflow only if it was seeded: the server
\* stores no product with what the canvas posts.
Loaded(p) == IF p \in DOMAIN SeedOf THEN SeedOf[p] ELSE Empty

\* Auto-load: runs when the product or the list has changed.
AutoLoad(core, seen, c) ==
  IF core = None THEN Empty ELSE IF seen = -1 THEN c ELSE Loaded(core)

\* The drawer reads a node when it gets to show another one.
Hydrated(d, c) == [d EXCEPT !.locked = IF d.sel # desk.sel THEN d.sel \in c.saved
                                       ELSE d.locked /\ d.sel # 0]

\* The drawer asks for the workflows too when it mounts.
DrawerAsks(d, l) == [l EXCEPT !.fetching = @ \/ (desk.sel = 0 /\ d.sel # 0)]

\* handleSaveDraftToDB: one more workflow on its way to the server, which takes
\* it whatever its edges name.
DraftPosted(c) ==
  IF store.core # None /\ c.nodes # {}
  THEN [list EXCEPT !.drafts = @ + 1] ELSE list

\* The draft effect: the draft is put on the canvas, and the step that a studio
\* was opened from is selected again.
Returned(d, c) == [d EXCEPT !.sel = IF back \in c.nodes THEN back ELSE @]

\* Faulty variant: the step to return to stays in the store.
BackKept == back

BackUsed == 0

\* Faulty variant: a change of edges alone is not put in the draft.
DraftedNodes(c) == IF c.nodes # canvas.nodes THEN c ELSE draft

Drafted(c) == c

\* saveDraft with c, then what the handler does to the rest, d, and the effects.
Edit(c, d) ==
  LET e == Hydrated(Returned(d, c), c) IN
  /\ canvas' = c /\ draft' = Drafted(c) /\ back' = BackUsed
  /\ desk' = e
  /\ list' = DrawerAsks(e, DraftPosted(c))
  /\ list.posts + list.drafts < MaxPosts
  /\ UNCHANGED <<store, calls, auditVars>>

\* A handler that changes no more than what is selected or open.
Look(d) ==
  /\ desk' = Hydrated(d, canvas)
  /\ list' = DrawerAsks(d, list)
  /\ UNCHANGED <<store, draft, back, canvas, calls, auditVars>>

Editing == Visible /\ Spend("edits")
Clicking == Visible /\ Spend("clicks")

(***************************************************************************)
(* Adding                                                                  *)
(***************************************************************************)
InUse == canvas.nodes \cup {desk.sel, desk.menu, back}
         \cup (IF draft = None THEN {} ELSE draft.nodes)
         \cup UNION {{l[1], l[2]} : l \in canvas.links}
FreshId(n) == n \in 1..MaxStep \ InUse /\ 1..(n - 1) \subseteq InUse

With(n) == [canvas EXCEPT !.nodes = @ \cup {n}]
Linked(c, l) == [c EXCEPT !.links = @ \cup {l}]

\* + Add New Step of the table: the new step is selected.
AddNewNode == Editing /\ \E n \in Step : FreshId(n) /\ Edit(With(n), [desk EXCEPT !.sel = n])

\* A shape dragged from the toolbox.
DropShape == Editing /\ \E n \in Step : FreshId(n) /\ Edit(With(n), desk)

\* A sub-workflow can be dragged with a step selected, and is linked to that
\* step, which need not be on the canvas any more.
SubWorkflowDraggable == desk.sel # 0
DropSubWorkflow ==
  /\ Editing /\ SubWorkflowDraggable
  /\ \E n \in Step : FreshId(n) /\ Edit(Linked(With(n), <<desk.sel, n>>), desk)

(***************************************************************************)
(* Connecting                                                              *)
(***************************************************************************)
Connect ==
  /\ Editing
  /\ \E a, b \in canvas.nodes : <<a, b>> \notin canvas.links /\ Edit(Linked(canvas, <<a, b>>), desk)

Unlinked(l) == [canvas EXCEPT !.links = @ \ {l}]

\* An arrowhead dragged to another step.
EdgeUpdate ==
  /\ Editing
  /\ \E l \in canvas.links, b \in canvas.nodes :
       l[2] # b /\ Edit(Linked(Unlinked(l), <<l[1], b>>), desk)

\* Right click on an edge, and yes to the question.
EdgeContextMenu ==
  /\ Editing
  /\ \E l \in canvas.links :
       Edit(Unlinked(l), [desk EXCEPT !.edge = IF @ = l THEN None ELSE @])

\* The delete key on a selected edge.
EdgeRemovedByKey == Editing /\ \E l \in canvas.links : Edit(Unlinked(l), desk)

(***************************************************************************)
(* Deleting and changing steps                                             *)
(***************************************************************************)
Deleted(n) ==
  [nodes |-> canvas.nodes \ {n}, saved |-> canvas.saved \ {n},
   links |-> {l \in canvas.links : n \notin {l[1], l[2]}}]

\* Delete of the context menu and of the table.
DeleteNode(n) ==
  Edit(Deleted(n), [desk EXCEPT !.sel = IF @ = n THEN 0 ELSE @, !.menu = 0])

DeleteFromTable == Editing /\ \E n \in canvas.nodes : DeleteNode(n)
DeleteFromMenu == Editing /\ desk.menu # 0 /\ DeleteNode(desk.menu)

\* The delete key on the selected node.  React Flow removes its edges first,
\* and the handler for the node then saves the edges of the render before.
NodeRemovedByKey ==
  /\ Editing /\ desk.sel \in canvas.nodes
  /\ Edit([canvas EXCEPT !.nodes = @ \ {desk.sel}, !.saved = @ \ {desk.sel}], desk)

\* A title typed on the node itself goes past the drawer, which shows the old one.
Retitle == Editing /\ canvas.nodes # {} /\ Edit(canvas, desk)

\* Save Draft: the canvas as it is.
SaveDraft == Editing /\ Edit(canvas, desk)

(***************************************************************************)
(* Selecting                                                               *)
(***************************************************************************)
SelectNode ==
  Clicking /\ \E n \in canvas.nodes : Look([desk EXCEPT !.sel = n, !.edge = None, !.menu = 0])
SelectEdge ==
  Clicking /\ \E l \in canvas.links : Look([desk EXCEPT !.sel = 0, !.edge = l, !.menu = 0])
SelectRow == Clicking /\ \E n \in canvas.nodes : Look([desk EXCEPT !.sel = n])
PaneClick == Clicking /\ Look([desk EXCEPT !.sel = 0, !.edge = None, !.menu = 0])
OpenContextMenu == Clicking /\ \E n \in canvas.nodes : Look([desk EXCEPT !.menu = n])

(***************************************************************************)
(* The drawer of a step                                                    *)
(***************************************************************************)
DrawerOpen == desk.sel # 0
CloseDrawer == Clicking /\ DrawerOpen /\ Look([desk EXCEPT !.sel = 0])

\* A step that was configured before is read only until Modify Configuration.
ModifyConfiguration == Clicking /\ DrawerOpen /\ desk.locked /\ Look([desk EXCEPT !.locked = FALSE])

\* Save Changes writes the fields into the node, if it is still there.
SaveAll ==
  /\ Editing /\ DrawerOpen /\ ~desk.locked
  /\ Edit([canvas EXCEPT !.saved = @ \cup ({desk.sel} \cap canvas.nodes)], [desk EXCEPT !.sel = 0])

\* Where the buttons lead: of the drawer of a studio step, of the tabs of the
\* drawer, and of the workspace of the selected step below the canvas.  The
\* fields between them are the drawer's own until Save Changes.
StudioStep ==
  {"calculation-engine", "business-rules", "report-designer", "dge-canvas", "api-designer",
   "ai-assistant", "event-repository", "document-master"}
ScreenTab == {"screen-designer"}
LogicTab ==
  {"business-rules", "calculation-engine", "api-designer", "reconciliation-engine",
   "report-designer", "notification-engine"}
DocumentsTab == {"doc-checklists", "unstructured-document-studio"}
SignalsTab == {"notification-engine", "comm-templates"}
ReversalTab == {"api-designer"}
RuleTables == {"business-rules", "calculation-engine"}
ConnectTables == {"api-designer", "doc-checklists"}
OutputTables == {"report-designer", "event-repository"}
FlowTables == {"reconciliation-engine"}
InvokedModule ==
  StudioStep \cup ScreenTab \cup LogicTab \cup DocumentsTab \cup SignalsTab \cup ReversalTab
  \cup RuleTables \cup ConnectTables \cup OutputTables \cup FlowTables

(***************************************************************************)
(* The drawer of an edge.  Its change and its delete both end with         *)
(* saveDraft of the canvas rendered before them, which takes them back.    *)
(***************************************************************************)
EditEdge == Editing /\ desk.edge # None /\ Edit(canvas, desk)
DeleteEdge == Editing /\ desk.edge # None /\ Edit(canvas, [desk EXCEPT !.edge = None])
CloseEdgeDrawer == Clicking /\ desk.edge # None /\ Look([desk EXCEPT !.edge = None])

(***************************************************************************)
(* Coming and going                                                        *)
(***************************************************************************)
\* What becomes of the component when the store goes to s.  An unmounted
\* designer loses everything that is not in the store or the cache, and the
\* answers to its requests find no component.  A mounted one asks for the list
\* and runs both effects.
Unmounted == {[c EXCEPT !.live = FALSE] : c \in calls}

Mounts(s) ==
  LET c == IF draft = None THEN Empty ELSE draft
      d == IF draft = None THEN BlankDesk ELSE Hydrated(Returned(BlankDesk, c), AutoLoad(s.core, list.seen, c))
  IN /\ canvas' = AutoLoad(s.core, list.seen, c)
     /\ desk' = d
     /\ back' = IF draft = None THEN back ELSE BackUsed
     /\ list' = [list EXCEPT !.fetching = TRUE]
     /\ UNCHANGED <<draft, calls, auditVars>>

Unmounts(b) ==
  /\ canvas' = Empty /\ desk' = BlankDesk /\ back' = b /\ calls' = Unmounted
  /\ panel' = ClosedPanel /\ patching' = {[p EXCEPT !.live = FALSE] : p \in patching}
  /\ UNCHANGED <<draft, list, wired>>

Stays(s) ==
  /\ canvas' = IF s.core = store.core THEN canvas ELSE AutoLoad(s.core, list.seen, canvas)
  /\ UNCHANGED <<draft, back, desk, list, calls, auditVars>>

Goes(s) ==
  /\ s # store /\ store' = s
  /\ CASE Open /\ s.module # "workflow-designer" -> Unmounts(back)
       [] ~Open /\ s.module = "workflow-designer" -> Mounts(s)
       [] OTHER -> IF Open THEN Stays(s)
                   ELSE UNCHANGED <<draft, back, canvas, desk, list, calls, auditVars>>

\* A configure button: the step is put in the store and the studio opened.
Invoke ==
  /\ Visible /\ Spend("visits") /\ desk.sel # 0
  /\ \E m \in InvokedModule \cap Toured : store' = WithModule(store, m)
  /\ Unmounts(desk.sel)

\* Nested Sub-Flows leads to the designer itself: the step is put in the store
\* and nothing takes it out again before the next edit.
InvokeSubFlow ==
  /\ Visible /\ Spend("visits") /\ desk.sel # 0 /\ back' = desk.sel
  /\ UNCHANGED <<store, draft, canvas, desk, list, calls, auditVars>>

\* The header: its menus, the exits, and the way back while there is a draft.
ReturnOffered == ~Open /\ draft # None
Navigate ==
  /\ Spend("visits")
  /\ \E m \in (Menus \cap Toured) \cup (IF ReturnOffered THEN {"workflow-designer"} ELSE {}) :
       Goes(WithModule(store, m))
Leave == Spend("visits") /\ store.package # None /\ Goes(ExitPackage(store))
EnterPackage == Spend("visits") /\ store.module = "dashboard" /\ \E p \in Package : Goes(WithPackage(store, p))

\* The product picker of the designer, and the banner of the other studios.
PickProduct == Spend("visits") /\ Visible /\ \E p \in Product \cup {None} : Goes(WithCore(store, p))
PickInBanner ==
  /\ Spend("visits") /\ store.module \in StudioModule
  /\ \E s \in BannerPicks(store) : Goes(s)

(***************************************************************************)
(* The list of workflows                                                   *)
(***************************************************************************)
\* With a step selected its drawer mounts with the canvas, and asks again.
Remounted == list.seen = -1 /\ Open /\ desk.sel # 0

ListArrives ==
  /\ list.fetching
  /\ list' = [list EXCEPT !.fetching = Remounted, !.seen = list.posts]
  /\ canvas' = IF Open /\ list.seen # list.posts THEN AutoLoad(store.core, list.posts, canvas)
               ELSE canvas
  /\ UNCHANGED <<store, draft, back, desk, calls, auditVars, left>>

\* A first load that fails shows the canvas too.
ListFails ==
  /\ list.fetching
  /\ Spend("others")
  /\ list' = [list EXCEPT !.fetching = Remounted]
  /\ UNCHANGED <<store, draft, back, canvas, desk, calls, auditVars>>

\* Five minutes with nobody looking: the cache lets the list go.
ListCollected ==
  /\ ~Open /\ ~list.fetching /\ list.seen # -1
  /\ Spend("others")
  /\ list' = [list EXCEPT !.seen = -1]
  /\ UNCHANGED <<store, draft, back, canvas, desk, calls, auditVars>>

DraftStored ==
  /\ list.drafts > 0
  /\ list' = [list EXCEPT !.drafts = @ - 1, !.posts = @ + 1]
  /\ UNCHANGED <<store, draft, back, canvas, desk, calls, auditVars, left>>

\* A save that fails is noted in the console only.
DraftLost ==
  /\ list.drafts > 0
  /\ Spend("others")
  /\ list' = [list EXCEPT !.drafts = @ - 1]
  /\ UNCHANGED <<store, draft, back, canvas, desk, calls, auditVars>>

\* Somebody else saves a workflow.
OthersSave ==
  /\ Spend("others") /\ list.posts + list.drafts < MaxPosts
  /\ list' = [list EXCEPT !.posts = @ + 1]
  /\ UNCHANGED <<store, draft, back, canvas, desk, calls, auditVars>>

(***************************************************************************)
(* Publish, clone, parse                                                   *)
(***************************************************************************)
Call == [kind : {"clone", "parse", "publish"}, canvas : Canvas, live : BOOLEAN, n : Nat]

Asks(k, c, d) ==
  /\ Visible /\ Spend("calls")
  /\ list.posts + list.drafts + Cardinality(calls) < MaxPosts
  /\ calls' = calls \cup {[kind |-> k, canvas |-> c, live |-> TRUE, n |-> left["calls"]]}
  /\ desk' = Hydrated(d, canvas)
  /\ UNCHANGED <<store, draft, back, canvas, list, auditVars>>

\* Publish Blueprint is refused without a product, and can be pressed again
\* while it is under way.
Publish == store.core # None /\ Asks("publish", canvas, desk)

OpenTemplates == Clicking /\ Look([desk EXCEPT !.modal = ~@])

\* + Use in the list of templates.
CloneOffered == desk.modal /\ ~desk.cloning /\ store.core # None
CloneTemplate == CloneOffered /\ Asks("clone", TemplateCanvas, [desk EXCEPT !.cloning = TRUE])

ParseOffered == ~desk.parsing /\ store.core # None
ParseDiagram == ParseOffered /\ Asks("parse", Diagram, [desk EXCEPT !.parsing = TRUE])

\* The flag of a request is reset whether it succeeds or fails.
Settled(c, d) ==
  IF ~c.live THEN d
  ELSE CASE c.kind = "clone" -> [d EXCEPT !.cloning = FALSE]
         [] c.kind = "parse" -> [d EXCEPT !.parsing = FALSE]
         [] OTHER -> d

\* Faulty variant: only a success resets it.
UnsettledByFailure(c, d) == d

SettledByFailure(c, d) == Settled(c, d)

\* A clone or a diagram goes into the store's draft, and with it onto the
\* canvas of whichever designer is mounted, also when the component that asked
\* is gone.  A clone closes the list of templates of its own component.
Answered(c) ==
  LET d == IF c.kind = "clone" /\ c.live THEN [desk EXCEPT !.modal = FALSE] ELSE desk
      e == Settled(c, d)
      f == IF Open THEN Returned(e, c.canvas) ELSE e
      l == IF c.kind = "clone" THEN [list EXCEPT !.posts = @ + 1] ELSE list
  IN /\ calls' = calls \ {c}
     /\ draft' = c.canvas
     /\ canvas' = IF Open THEN c.canvas ELSE canvas
     /\ back' = IF Open THEN BackUsed ELSE back
     /\ desk' = Hydrated(f, c.canvas)
     /\ list' = IF Visible THEN DrawerAsks(f, l) ELSE l
     /\ UNCHANGED <<store, auditVars, left>>

CallAnswered(c) == c.kind # "publish" /\ Answered(c)

\* The server makes the workflow; an edge whose ends are not codes of its nodes
\* is stored with them as they are.
PublishAnswered(c) ==
  /\ c.kind = "publish" /\ calls' = calls \ {c}
  /\ list' = [list EXCEPT !.posts = @ + 1]
  /\ UNCHANGED <<store, draft, back, canvas, desk, auditVars, left>>

CallFails(c) ==
  /\ Spend("others") /\ calls' = calls \ {c} /\ desk' = SettledByFailure(c, desk)
  /\ UNCHANGED <<store, draft, back, canvas, list, auditVars>>

(***************************************************************************)
(* The wiring audit                                                        *)
(***************************************************************************)
Auditing ==
  /\ UNCHANGED <<store, draft, back, canvas, desk, list, calls>>
  /\ \/ /\ Visible /\ Spend("picks")
        /\ ToggleAudit \/ ApplyWiring \/ \E h \in Hole, t \in Target \cup {NoTarget} : PickTarget(h, t)
     \/ Spend("others") /\ (AuditFails \/ \E p \in patching : PatchFails(p) \/ \E h \in Hole : HoleGone(h))
     \/ left' = left /\ (AuditArrives \/ \E p \in patching : PatchServed(p) \/ PatchAnswered(p))

(***************************************************************************)
(* Next                                                                    *)
(***************************************************************************)
Design ==
  \/ AddNewNode \/ DropShape \/ DropSubWorkflow
  \/ Connect \/ EdgeUpdate \/ EdgeContextMenu \/ EdgeRemovedByKey
  \/ DeleteFromTable \/ DeleteFromMenu \/ NodeRemovedByKey \/ Retitle \/ SaveDraft
  \/ SaveAll \/ EditEdge \/ DeleteEdge
  \/ SelectNode \/ SelectEdge \/ SelectRow \/ PaneClick \/ OpenContextMenu
  \/ CloseDrawer \/ ModifyConfiguration \/ CloseEdgeDrawer \/ OpenTemplates
  \/ Publish \/ CloneTemplate \/ ParseDiagram
Move ==
  Invoke \/ InvokeSubFlow \/ Navigate \/ Leave \/ EnterPackage \/ PickProduct \/ PickInBanner
Answers == \E c \in calls : CallAnswered(c) \/ PublishAnswered(c) \/ CallFails(c)
Network == ListArrives \/ ListFails \/ ListCollected \/ DraftStored \/ DraftLost \/ OthersSave \/ Answers

Next == Design \/ Move \/ Network \/ Auditing

\* Requests settle: axios and the server answer or fail.
Fairness == WF_vars(ListArrives \/ ListFails) /\ WF_vars(DraftStored \/ DraftLost) /\ WF_vars(Answers)

Spec == Init /\ [][Next]_vars /\ Fairness

(***************************************************************************)
(* Properties                                                              *)
(***************************************************************************)
TypeOK ==
  /\ store \in Store
  /\ draft \in Canvas \cup {None} /\ back \in Step \cup {0}
  /\ canvas \in Canvas /\ desk \in Desk /\ list \in List
  /\ calls \in SUBSET Call
  /\ AuditOK

\* What the canvas shows has a source that outlives the component: it is empty,
\* or the draft in the store, or the saved workflow of a product.  A node that
\* was only on the canvas would be gone with the next navigation.
CanvasHasSource ==
  \/ canvas \in {Empty, draft}
  \/ \E p \in DOMAIN SeedOf : canvas = SeedOf[p]

\* Coming back from a studio with a draft: the step the studio was opened from
\* is selected if the draft still has it, and it is not left in the store,
\* where a later edit would jump to it.
ReturnsToStep ==
  [][~Open /\ Open' /\ draft # None =>
       back' = 0 /\ desk'.sel = IF back \in draft.nodes THEN back ELSE 0]_designerVars

\* No sub-product without its product, whichever of the header, the banner and
\* the designer changed the product: studios never show the sub-product of a
\* product that was selected before.
SubOfProduct == store.sub # None => store.core # None

\* Parsing and cloning end: the spinner stops, or the designer is closed.
CallsEnd == (desk.parsing ~> ~desk.parsing) /\ (desk.cloning ~> ~desk.cloning)
=============================================================================
