---------------------------- MODULE PlatformStore ----------------------------
(***************************************************************************)
(* The global store of the front end (usePlatformStore.ts), the router     *)
(* that mounts one module at a time (App.tsx), and the header and the      *)
(* cockpit banner that change module, package and product from anywhere.   *)
(* Language, role, admin mode and the Workflow contexts are left out: no   *)
(* behaviour modelled here depends on them.                                *)
(***************************************************************************)
EXTENDS Integers, FiniteSets, Sequences

CONSTANTS
  Package,      \* product packages, the domains of the header
  Product,      \* core products
  SubProduct,   \* sub-products
  None          \* null

ASSUME NoneIsNoValue == None \notin Package \cup Product \cup SubProduct

VARIABLE store

\* The modules that App has a view for.  Two of them need a package.
NeedPackage == {"domain-dashboard", "products-registry"}
StudioModule ==
  {"field-registry", "dge-canvas", "calculation-engine", "business-rules", "api-designer",
   "batch-gateway-designer", "ai-assistant", "screen-designer", "insights-factory",
   "event-repository", "execution-audit", "behavioral-profiles", "reconciliation-engine",
   "recon-tracking", "report-designer", "unstructured-document-studio",
   "file-template-designer", "entitlements", "comm-templates", "doc-checklists",
   "notification-engine", "legacy-onboarding", "product-registry", "master-data-explorer",
   "subproduct-registry", "queue-infrastructure", "authorization-matrix", "role-profiles",
   "user-profiles", "ingestion-pipeline"}
Routed ==
  NeedPackage \cup StudioModule \cup
  {"dashboard", "global-technical-dashboard", "workflow-designer", "package-runtime",
   "runtime-transaction-shell", "transaction-workflow-screen"}

\* A view is on the screen.
Mounted == store.module \in Routed /\ (store.module \in NeedPackage => store.package # None)

\* DOCUMENT_MASTER steps lead to a module that App has no view for.
Module == Routed \cup {"document-master"}

Store == [package : Package \cup {None}, core : Product \cup {None},
          sub : SubProduct \cup {None}, module : Module,
          view : {"LIST", "CREATE", "EDIT", "VIEW"}, unsaved : BOOLEAN]

StoreInit ==
  store = [package |-> None, core |-> None, sub |-> None, module |-> "dashboard",
           view |-> "LIST", unsaved |-> FALSE]

(***************************************************************************)
(* The mutators: the store after the call.                                 *)
(***************************************************************************)
WithPackage(s, p) ==
  [s EXCEPT !.package = p, !.core = None, !.sub = None, !.view = "LIST", !.unsaved = FALSE,
            !.module = IF p = None THEN "dashboard" ELSE "domain-dashboard"]

\* Faulty variant: the sub-product of the product before is kept.
WithCoreAlone(s, p) == [s EXCEPT !.core = p]

WithCore(s, p) == [s EXCEPT !.core = p, !.sub = None]

WithModule(s, m) == [s EXCEPT !.module = m, !.view = "LIST"]

(***************************************************************************)
(* The menus of the header.  Which accordion is open is left out.          *)
(***************************************************************************)
AssistantLinks == {"ai-assistant", "transaction-workflow-screen"}
MasterDataMenu ==
  {"product-registry", "subproduct-registry", "field-registry", "master-data-explorer",
   "user-profiles", "role-profiles", "entitlements", "authorization-matrix",
   "queue-infrastructure"}
DefineDataMenu ==
  {"doc-checklists", "file-template-designer", "unstructured-document-studio", "dge-canvas"}
DesignLogicMenu == {"workflow-designer", "business-rules", "calculation-engine"}
ConnectMenu ==
  {"api-designer", "batch-gateway-designer", "screen-designer", "legacy-onboarding",
   "comm-templates", "notification-engine"}
MonitorMenu == {"reconciliation-engine", "behavioral-profiles", "report-designer", "insights-factory"}
OperationsMenu ==
  {"ingestion-pipeline", "recon-tracking", "event-repository", "execution-audit",
   "global-technical-dashboard"}

\* What the header leads to, inside a package and outside.
Menus ==
  IF store.package # None
  THEN AssistantLinks \cup MasterDataMenu \cup DefineDataMenu \cup DesignLogicMenu
       \cup ConnectMenu \cup MonitorMenu \cup OperationsMenu \cup {"domain-dashboard"}
  ELSE {"dashboard", "global-technical-dashboard"}

\* Exit Package, and the logo.
ExitPackage(s) == WithModule(WithPackage(s, None), "dashboard")

\* The two-key banner of the studios lists the products of the package, and the
\* sub-products once a product is chosen.
BannerPicks(s) ==
  {WithCore(s, p) : p \in IF s.package = None THEN {None} ELSE Product \cup {None}}
  \cup {[s EXCEPT !.sub = b] : b \in IF s.core = None THEN {} ELSE SubProduct \cup {None}}
=============================================================================
