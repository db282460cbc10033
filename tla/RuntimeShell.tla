---------------------------- MODULE RuntimeShell ----------------------------
(***************************************************************************)
(* The package runtime: a shell with a sidebar of domains and their live   *)
(* screens (PackageRuntimeShell.tsx, PackageSidebarNav.tsx) around the     *)
(* transaction shell (RuntimeTransactionShell.tsx), where workflows are    *)
(* started and paused transactions decided upon.  The server is            *)
(* InstanceServer; a transaction is of one workflow for good, and nodes of *)
(* two workflows have no id in common.                                     *)
(* Payload, context and trace of a transaction are left out; the list of   *)
(* workflows is taken to be there.                                         *)
(***************************************************************************)
EXTENDS Studio, InstanceServer

CONSTANTS
  Workflow, NoFlow, NoInst,
  FlowOf,            \* the workflow of each transaction
  Screened,          \* nodes that have a screen
  Complete,          \* transactions whose context fills the mandatory fields
  Domain, NoDomain   \* domains of the sidebar, each with one live screen

ASSUME RuntimeAssumption ==
  /\ NoFlow \notin Workflow /\ NoInst \notin Inst /\ NoDomain \notin Domain
  /\ FlowOf \in [Inst -> Workflow] /\ Screened \subseteq Node /\ Complete \subseteq Inst

VARIABLES
  shell,         \* the state of PackageRuntimeShell and its sidebar
  txn,           \* the state of RuntimeTransactionShell
  sections,      \* the queries of the sidebar: the screens of each domain
  instanceList,  \* the query ['workflow-instances']
  launch,        \* the last request to start a transaction
  resumes,       \* the last requests to resume one
  fetches        \* requests for the screen of a node on their way

shellVars == <<shell, txn, sections, instanceList, launch, resumes, fetches>>
runtimeVars == <<shellVars, rows>>

\* page: the screen that is open, by its domain; ready: its definition is there.
Shell == [mode : {"welcome", "screen", "transaction"}, open : SUBSET Domain, page : Domain \cup {NoDomain},
          ready : BOOLEAN, sheet : Sheet]
BlankShell == [mode |-> "welcome", open |-> {}, page |-> NoDomain, ready |-> FALSE, sheet |-> NewSheet(FALSE)]

\* active: the transaction shown, and its status; node, screen: of it, or 0.
Decision == {"APPROVED", "REJECTED", "ESCALATED"}
Txn == [view : {"queue", "launcher", "running"}, flow : Workflow \cup {NoFlow}, active : Inst \cup {NoInst},
        status : Status, node : 0 .. NNodes, screen : 0 .. NNodes, decision : Decision, sheet : Sheet]
BlankTxn == [view |-> "queue", flow |-> NoFlow, active |-> NoInst, status |-> "ABSENT", node |-> 0,
             screen |-> 0, decision |-> "APPROVED", sheet |-> NewSheet(FALSE)]

Launch == [st : {"none", "sent"}, mine : BOOLEAN, flow : Workflow \cup {NoFlow}]
NoLaunch == [st |-> "none", mine |-> FALSE, flow |-> NoFlow]
Resume == [st : {"none", "sent", "ran", "refused"}, mine : BOOLEAN, flow : Workflow \cup {NoFlow},
           inst : Inst \cup {NoInst}, word : Decision]
NoResume == [st |-> "none", mine |-> FALSE, flow |-> NoFlow, inst |-> NoInst, word |-> "APPROVED"]
ResumeSlot == {1, 2}

ShellTypeOK ==
  /\ shell \in Shell /\ txn \in Txn /\ sections \in [Domain -> {"unasked", "asked", "ready"}]
  /\ rows \in [Inst -> Row] /\ instanceList.data \in [Inst -> Row]
  /\ launch \in Launch /\ resumes \in [ResumeSlot -> Resume]
  /\ fetches \subseteq [node : Node, mine : BOOLEAN]

ShellInit ==
  /\ ServerInit /\ shell = BlankShell /\ txn = BlankTxn
  /\ sections = [d \in Domain |-> "unasked"] /\ instanceList = Unasked([i \in Inst |-> Unread])
  /\ launch = NoLaunch /\ resumes = [s \in ResumeSlot |-> NoResume] /\ fetches = {}

(***************************************************************************)
(* The shell and its sidebar                                               *)
(***************************************************************************)
InShell == At("runtime", {})
\* The transaction shell unmounts, whatever it is waiting for.
TxnLost ==
  /\ txn' = BlankTxn /\ launch' = Deserted(launch)
  /\ resumes' = [s \in ResumeSlot |-> Deserted(resumes[s])]
  /\ fetches' = {[f EXCEPT !.mine = FALSE] : f \in fetches}

\* A domain that is expanded the first time asks for its screens.
ToggleDomain(d) ==
  /\ InShell /\ shell' = [shell EXCEPT !.open = IF d \in @ THEN @ \ {d} ELSE @ \cup {d}]
  /\ sections' = [sections EXCEPT ![d] = IF @ = "unasked" THEN "asked" ELSE @]
  /\ UNCHANGED <<txn, instanceList, launch, resumes, fetches, rows>>
SectionArrives(d) ==
  /\ sections[d] = "asked" /\ sections' = [sections EXCEPT ![d] = "ready"]
  /\ UNCHANGED <<shell, txn, instanceList, launch, resumes, fetches, rows, studioVars>>

OpenPage(d) ==
  /\ InShell /\ d \in shell.open /\ sections[d] = "ready" /\ d # shell.page
  /\ shell' = [shell EXCEPT !.mode = "screen", !.page = d, !.ready = FALSE]
  /\ TxnLost /\ UNCHANGED <<sections, instanceList, rows>>
PageReady ==
  /\ Here("runtime") /\ shell.mode = "screen" /\ ~shell.ready
  /\ shell' = [shell EXCEPT !.ready = TRUE, !.sheet = NewSheet(FALSE)]
  /\ UNCHANGED <<txn, sections, instanceList, launch, resumes, fetches, rows, studioVars>>
\* The form of a page only shows what would be sent.
OnPage(s) ==
  /\ InShell /\ shell.mode = "screen" /\ shell.ready /\ shell' = [shell EXCEPT !.sheet = s]
  /\ UNCHANGED <<txn, sections, instanceList, launch, resumes, fetches, rows>>
TypeOnPage == OnPage(FieldTyped(shell.sheet))
SubmitPage == \E a \in FormAction : OnPage(Acted(shell.sheet, a))

\* The queue of transactions is asked for when the transaction shell mounts.
OpenTransactions ==
  /\ InShell /\ shell.mode # "transaction"
  /\ shell' = [shell EXCEPT !.mode = "transaction", !.page = NoDomain, !.ready = FALSE]
  /\ instanceList' = Asked(instanceList, rows)
  /\ UNCHANGED <<txn, sections, launch, resumes, fetches, rows>>

(***************************************************************************)
(* The transaction shell                                                   *)
(***************************************************************************)
InTxn == InShell /\ shell.mode = "transaction"
Move(t) == txn' = t /\ UNCHANGED <<shell, sections, instanceList, launch, resumes, fetches, rows>>

ShowQueue == InTxn /\ txn.view # "queue" /\ Move([txn EXCEPT !.view = "queue"])
NewTransaction == InTxn /\ Move([txn EXCEPT !.view = "launcher", !.flow = NoFlow])
ChooseFlow(w) == InTxn /\ txn.view = "launcher" /\ Move([txn EXCEPT !.flow = w])
RefreshQueue ==
  /\ InTxn /\ txn.view = "queue" /\ instanceList' = Refreshed(instanceList, rows)
  /\ UNCHANGED <<shell, txn, sections, launch, resumes, fetches, rows>>

Screens(n) == IF n \in Screened THEN {[node |-> n, mine |-> TRUE]} ELSE {}
\* The form of a screen that stays on the screen is loaded anew.
Remounted(filled) ==
  IF txn.view = "running" /\ txn.screen # 0 THEN Reloaded(txn.sheet, filled) ELSE NewSheet(filled)

\* loadInstance: the node is looked up in the workflow selected before; a node with
\* a screen keeps the screen that is shown until its own arrives.
Loading(t, i, st, n) ==
  [t EXCEPT !.view = "running", !.active = i, !.status = st, !.node = n,
            !.screen = IF n \in Screened THEN @ ELSE 0,
            !.sheet = Remounted(i \in Complete)]
CurrentNode(i, r) == IF txn.flow = FlowOf[i] THEN r.node ELSE 0

OpenInstance(i) ==
  /\ InTxn /\ txn.view = "queue" /\ instanceList.data[i].status # "ABSENT"
  /\ LET r == instanceList.data[i]
         n == CurrentNode(i, r)
     IN /\ txn' = [Loading(txn, i, r.status, n) EXCEPT !.flow = FlowOf[i]]
        /\ fetches' = fetches \cup Screens(n)
  /\ UNCHANGED <<shell, sections, instanceList, launch, resumes, rows>>

\* The screen, or none after a failure, is shown with whatever is shown by now.
ScreenArrives(f) ==
  /\ f \in fetches /\ fetches' = fetches \ {f}
  /\ \E s \in {f.node, 0} :
       txn' = IF ~f.mine THEN txn
              ELSE [txn EXCEPT !.screen = s,
                               !.sheet = IF txn.screen = 0 THEN NewSheet(txn.active \in Complete) ELSE @]
  /\ UNCHANGED <<shell, sections, instanceList, launch, resumes, rows, studioVars>>

LaunchTransaction ==
  /\ At("runtime", {"sends"}) /\ shell.mode = "transaction" /\ txn.view = "launcher"
  /\ txn.flow # NoFlow /\ launch.st = "none"
  /\ launch' = [st |-> "sent", mine |-> TRUE, flow |-> txn.flow]
  /\ UNCHANGED <<shell, txn, sections, instanceList, resumes, fetches, rows>>

\* handleResume: the word goes out with the workflow that is selected.
ResumeWith(word) ==
  /\ At("runtime", {"sends"}) /\ shell.mode = "transaction"
  /\ txn.view = "running" /\ txn.status = "PAUSED" /\ txn.active # NoInst /\ txn.flow # NoFlow
  /\ \E s \in ResumeSlot :
       /\ resumes[s].st # "sent"
       /\ resumes' = [resumes EXCEPT ![s] =
            [st |-> "sent", mine |-> TRUE, flow |-> txn.flow, inst |-> txn.active, word |-> word]]
  /\ UNCHANGED <<shell, sections, instanceList, launch, fetches, rows>>
\* Without a screen: two buttons, disabled while a request is on its way.
Waiting == \E s \in ResumeSlot : resumes[s].st = "sent" /\ resumes[s].mine
ApproveOrReject(word) ==
  txn.screen = 0 /\ ~Waiting /\ word \in {"APPROVED", "REJECTED"} /\ ResumeWith(word) /\ UNCHANGED txn
\* With one: its form and the selector of the banner; Cancel is a rejection.
OnScreen == shell.mode = "transaction" /\ txn.view = "running" /\ txn.status = "PAUSED" /\ txn.screen # 0
ChooseDecision(word) ==
  /\ InTxn /\ txn.view = "running" /\ txn.status = "PAUSED" /\ word # txn.decision
  /\ Move([txn EXCEPT !.decision = word])
TypeOnScreen == InShell /\ OnScreen /\ Move([txn EXCEPT !.sheet = FieldTyped(@)])
SubmitScreen(a) ==
  /\ OnScreen /\ txn' = [txn EXCEPT !.sheet = Acted(@, a)]
  /\ IF Passes(txn.sheet, a) /\ txn.flow # NoFlow
     THEN ResumeWith(IF a = "SUBMIT" THEN txn.decision ELSE "REJECTED")
     ELSE InShell /\ UNCHANGED <<shell, sections, instanceList, launch, resumes, fetches, rows>>

(***************************************************************************)
(* The answers                                                             *)
(***************************************************************************)
Queue == Here("runtime") /\ shell.mode = "transaction"

\* invalidateQueries(['workflow-instances'])
QueueStale == instanceList' = IF Queue THEN Refreshed(instanceList, rows') ELSE Missed(instanceList)

Born == {j \in Inst : ~Exists(j) /\ rows'[j].status # "ABSENT"}

\* A launch that pauses goes through loadInstance, with an answer that names no
\* node; a run that fails has no row, and no id in its answer.
LaunchAnswered ==
  /\ launch.st = "sent" /\ launch' = NoLaunch
  /\ \/ /\ \E j \in Inst : FlowOf[j] = launch.flow /\ Execute(j)
        /\ \E j \in Born :
             txn' = IF ~launch.mine THEN txn
                    ELSE IF rows'[j].status = "PAUSED" THEN Loading(txn, j, "PAUSED", 0)
                    ELSE [txn EXCEPT !.view = "running", !.active = j, !.status = rows'[j].status,
                                     !.sheet = Remounted(FALSE)]
     \/ /\ UNCHANGED rows
        /\ txn' = IF ~launch.mine THEN txn
                  ELSE [txn EXCEPT !.view = "running", !.active = NoInst, !.status = "FAILED",
                                   !.sheet = Remounted(FALSE)]
  /\ QueueStale
  /\ UNCHANGED <<shell, sections, resumes, fetches, studioVars>>
LaunchFailed ==
  /\ launch.st = "sent" /\ launch' = NoLaunch /\ Use({"breaks"})
  /\ \/ UNCHANGED <<rows, instanceList>>
     \/ /\ \E j \in Inst : FlowOf[j] = launch.flow /\ Execute(j)
        /\ instanceList' = [instanceList EXCEPT !.gap = TRUE]
  /\ UNCHANGED <<shell, txn, sections, resumes, fetches, studio>>

\* resume_workflow_run: none of the shell's words is "approve" or "reject", so each
\* is taken for a bare resume, which runs a paused transaction on.
Resumed(r) ==
  /\ r.flow = FlowOf[r.inst] /\ rows[r.inst].status = "PAUSED" /\ RunOn(r.inst, "approve")
  /\ \A j \in Born : FlowOf[j] = r.flow
\* {...prev, ...data}: id and status of the answer, over what is shown by now.
Merged(i) ==
  LET j == IF Born = {} THEN i ELSE CHOOSE k \in Born : TRUE
  IN [txn EXCEPT !.active = IF rows'[j].status = "FAILED" THEN @ ELSE j,
                 !.status = rows'[j].status,
                 !.node = IF rows'[j].status = "PAUSED" THEN @ ELSE 0,
                 !.screen = IF rows'[j].status = "PAUSED" THEN @ ELSE 0]
ResumeAnswered(s) ==
  /\ resumes[s].st = "sent" /\ Resumed(resumes[s])
  /\ resumes' = [resumes EXCEPT ![s].st = "ran"]
  /\ txn' = IF resumes[s].mine THEN Merged(resumes[s].inst) ELSE txn
  /\ QueueStale
  /\ UNCHANGED <<shell, sections, launch, fetches, studioVars>>
\* Another workflow's transaction or one that is not paused (400), a run that raises,
\* or a connection that breaks: a message is shown.
ResumeRefused(s) ==
  /\ resumes[s].st = "sent" /\ resumes' = [resumes EXCEPT ![s].st = "refused"]
  /\ \/ UNCHANGED <<rows, instanceList, left>>
     \/ /\ Use({"breaks"}) /\ Resumed(resumes[s])
        /\ instanceList' = [instanceList EXCEPT !.gap = TRUE]
  /\ UNCHANGED <<shell, txn, sections, launch, fetches, studio>>

QueueArrives ==
  /\ instanceList.asked /\ instanceList' \in Answers(instanceList, rows)
  /\ UNCHANGED <<shell, txn, sections, launch, resumes, fetches, rows, studioVars>>
\* Another user decides: the queue is not asked for again by itself.
OthersDecide ==
  /\ Use({"others"})
  /\ \E i \in Inst, k \in {"approve", "reject"} : Take(i, k, 1)
  /\ \A j \in Born : \E i \in Inst : Exists(i) /\ rows'[i] # rows[i] /\ FlowOf[i] = FlowOf[j]
  /\ instanceList' = [instanceList EXCEPT !.gap = TRUE]
  /\ UNCHANGED <<shell, txn, sections, launch, resumes, fetches, studio>>

RuntimeLost == shell' = BlankShell /\ TxnLost /\ UNCHANGED <<sections, instanceList, rows>>
EnterRuntime == Enter("runtime") /\ RuntimeLost
\* Back to Designer, and every menu.
ExitRuntime == Exit("runtime") /\ RuntimeLost

ShellClicks ==
  \/ (\E d \in Domain : ToggleDomain(d) \/ OpenPage(d)) \/ TypeOnPage \/ SubmitPage \/ OpenTransactions
  \/ ShowQueue \/ NewTransaction \/ RefreshQueue \/ LaunchTransaction \/ TypeOnScreen
  \/ (\E w \in Workflow : ChooseFlow(w)) \/ (\E i \in Inst : OpenInstance(i))
  \/ (\E word \in Decision : ApproveOrReject(word) \/ ChooseDecision(word))
  \/ \E a \in FormAction : SubmitScreen(a)
ShellAnswers ==
  \/ (\E d \in Domain : SectionArrives(d)) \/ PageReady \/ (\E f \in fetches : ScreenArrives(f))
  \/ LaunchAnswered \/ LaunchFailed \/ QueueArrives
  \/ \E s \in ResumeSlot : ResumeAnswered(s) \/ ResumeRefused(s)
ShellNext == ShellClicks \/ ShellAnswers \/ OthersDecide \/ EnterRuntime \/ ExitRuntime

(***************************************************************************)
(* Properties                                                              *)
(***************************************************************************)
\* The queue on the screen, when it is not being asked for, shows the transactions as
\* they are, unless others decided, or an answer was lost or came off the screen.
ShownQueueIsTrue == Queue /\ ~instanceList.asked /\ ~instanceList.gap => instanceList.data = rows

\* "THE fix that makes Reject # Approve": a rejection never runs a transaction on.
RejectNeverRunsOn == \A s \in ResumeSlot : resumes[s].word = "REJECTED" => resumes[s].st # "ran"
=============================================================================
