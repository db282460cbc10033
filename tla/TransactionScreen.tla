------------------------- MODULE TransactionScreen -------------------------
(***************************************************************************)
(* The operator's transaction screen (TransactionWorkflowScreen.tsx and    *)
(* the panels it opens): one browser, whose query cache keeps a copy of    *)
(* each transaction it has shown, refreshed by a poll, and whose decisions *)
(* are requests that say which transaction they are about but not which    *)
(* state of it the operator saw.                                           *)
(*                                                                         *)
(* The screen is one React component: its state is kept while the operator *)
(* goes from one transaction to the next, and lost when another module is  *)
(* opened.  An answer runs the handlers of the last rendering, so what it  *)
(* refreshes is the transaction on the screen then, not the one it is      *)
(* about.                                                                  *)
(***************************************************************************)
EXTENDS BulkOperations

CONSTANTS
  NoInst,        \* no transaction: the worklist
  Mine,          \* transactions whose maker_id is the user of the browser
  OnFailRepair,  \* nodes with on_failure REPAIR_QUEUE
  Capturing,     \* nodes with a screen template
  Budgets        \* bounds: the sittings looked at, see Sitting

\* clicks: what the operator does, the decisions of each kind among it; execute,
\* bulks: openings of the initiation wizard and of the bulk panel; moves: decisions
\* of other operators; breaks: fetches that fail.
Bounded == Kind \cup {"execute", "clicks", "bulks", "moves", "breaks"}
Sitting == [Bounded -> Nat]

ASSUME ScreenAssumption ==
  /\ NoInst \notin Inst /\ Mine \subseteq Inst
  /\ OnFailRepair \subseteq Node /\ Capturing \subseteq Node
  /\ Budgets \subseteq Sitting

VARIABLES
  scr,      \* the state of the screen
  cache,    \* the query cache: the row last fetched of each transaction
  fetch,    \* GETs on their way, at most one for each transaction
  broken,   \* transactions whose last fetch failed
  calls,    \* the decisions and executions sent, in order
  left      \* what is left of the sitting's bounds

vars == <<rows, bulkVars, scr, cache, fetch, broken, calls, left>>

\* station: the node picked on the tracker, 0 to follow the transaction; bulk,
\* run: the bulk panel and the initiation wizard are asked for; step: that of the
\* wizard; reversal: the node the reversal drawer is for, 0 when it is closed;
\* reason: what is typed as the reason of a rejection, 0 when empty, otherwise
\* the number of calls when it was typed, plus one.
Screen == [inst : Inst \cup {NoInst}, station : 0 .. NNodes, bulk : BOOLEAN, run : BOOLEAN,
           step : {"choosing", "form", "running", "error"}, reversal : 0 .. NNodes,
           rejecting : BOOLEAN, reason : Nat]

Blank == [inst |-> NoInst, station |-> 0, bulk |-> FALSE, run |-> FALSE, step |-> "choosing",
          reversal |-> 0, rejecting |-> FALSE, reason |-> 0]

\* key: the transaction its onSuccess refreshes; st: sent, answered ok or bad
\* and the answer on its way, handled (done, failed); ver: the version the
\* decision made; stayed: the transaction has been on the screen ever since the
\* click; live: what is still mounted of the component that sent it and the
\* screen around it.
Call == [kind : Kind \cup {"execute"}, inst : Inst \cup {NoInst}, key : Inst \cup {NoInst},
         node : 0 .. NNodes, reason : Nat, st : {"sent", "ok", "bad", "done", "failed"},
         ver : Nat, stayed : BOOLEAN, live : {"sender", "screen", "none"}]

TypeOK ==
  /\ rows \in [Inst -> Row] /\ BulkTypeOK
  /\ scr \in Screen /\ scr.reason <= Len(calls) + 1
  /\ cache \in [Inst -> Row]
  /\ \A i \in Inst : cache[i].ver <= rows[i].ver
  /\ fetch \in [Inst -> [st : {"idle", "asked", "read"}, row : Row]]
  /\ broken \subseteq Inst
  /\ calls \in Seq(Call)
  /\ left \in Sitting

Init ==
  /\ ServerInit /\ BulkInit
  /\ scr = Blank
  /\ cache = [i \in Inst |-> Unread]
  /\ fetch = [i \in Inst |-> [st |-> "idle", row |-> Unread]]
  /\ broken = {} /\ calls = <<>>
  /\ left \in Budgets

Use(what) ==
  /\ \A w \in what : left[w] > 0
  /\ left' = [w \in Bounded |-> IF w \in what THEN left[w] - 1 ELSE left[w]]
Click == Use({"clicks"})

(***************************************************************************)
(* What is rendered                                                        *)
(***************************************************************************)
Cached(i) == cache[i].status # "ABSENT"

\* The early returns: worklist, loading, error, live data.
View ==
  IF scr.inst = NoInst THEN "worklist"
  ELSE IF ~Cached(scr.inst) /\ fetch[scr.inst].st # "idle" THEN "loading"
  ELSE IF ~Cached(scr.inst) \/ scr.inst \in broken THEN "error"
  ELSE "live"

Live == View = "live"
Shown == cache[scr.inst]
Viewed == IF scr.station = 0 THEN Shown.node ELSE scr.station
AtCurrent == Viewed = Shown.node
IsMaker == scr.inst \in Mine

\* mapInstanceToStations: nodes before the current one count as completed.
Completed(n) == n < Shown.node \/ (n = Shown.node /\ Shown.status = "COMPLETED")

\* The bulk panel is mounted as long as the live view renders it; a run goes on
\* without the panel that started it.
BulkShown == Live /\ scr.bulk
Follow ==
  /\ bulk' = IF ~BulkShown' THEN ClosedPanel
             ELSE IF bulk.open THEN bulk ELSE [ClosedPanel EXCEPT !.open = TRUE]
  /\ runs' = IF bulk.open /\ ~BulkShown'
             THEN [l \in DOMAIN runs |-> [runs[l] EXCEPT !.watched = FALSE]] ELSE runs

(***************************************************************************)
(* The calls and their mutation hooks                                      *)
(***************************************************************************)
Pending(c) == calls[c].st \in {"sent", "ok", "bad"}
\* A hook follows its last call only.
Latest(c) == ~\E d \in DOMAIN calls : d > c /\ calls[d].kind = calls[c].kind
IsPending(k) ==
  \E c \in DOMAIN calls : calls[c].kind = k /\ calls[c].live = "sender" /\ Latest(c) /\ Pending(c)

\* The calls once the screen has gone to transaction i with wizard step st: the
\* handlers of the last call of each kind are those of the new rendering.
Rekeyed(i, st) ==
  [c \in DOMAIN calls |-> LET k == calls[c] IN [k EXCEPT
     !.key = IF k.live = "sender" /\ k.kind # "execute" /\ Pending(c) /\ Latest(c) THEN i ELSE @,
     !.stayed = @ /\ (i = k.inst \/ ~Pending(c)),
     !.live = IF k.kind = "execute" /\ @ = "sender" /\ st # "running" THEN "screen" ELSE @]]

\* invalidateQueries: a fetch that refreshes a copy is dropped and sent again,
\* one that has no copy yet is kept; what is not on the screen is not fetched.
Refetched(i) ==
  IF i = NoInst \/ i # scr.inst \/ (~Cached(i) /\ fetch[i].st # "idle") THEN fetch
  ELSE [fetch EXCEPT ![i] = [st |-> "asked", row |-> Unread]]

(***************************************************************************)
(* Going from one transaction to another                                   *)
(***************************************************************************)
\* setSelectedInstanceId, the other fields as in s.  The new transaction is
\* fetched unless a fetch is on its way; the wizard starts anew when the view
\* around it changes.
GoTo(i, s) ==
  LET moved == i # scr.inst
      kept == ~moved \/ (Live /\ i # NoInst /\ Cached(i) /\ i \notin broken)
      step == IF kept THEN s.step ELSE "choosing"
  IN /\ scr' = [s EXCEPT !.inst = i, !.station = IF moved THEN 0 ELSE @, !.step = step]
     /\ fetch' = IF i # NoInst /\ moved /\ fetch[i].st = "idle"
                 THEN [fetch EXCEPT ![i].st = "asked"] ELSE fetch
     /\ calls' = Rekeyed(i, step)
     /\ UNCHANGED <<rows, cache, broken>>

OpenFromWorklist(i) == View = "worklist" /\ Exists(i) /\ Click /\ GoTo(i, scr) /\ Follow
\* The picker and the search panel close the bulk panel when they are opened.
OpenFromPicker(i) == Live /\ Exists(i) /\ Click /\ GoTo(i, [scr EXCEPT !.bulk = FALSE]) /\ Follow
OpenFromSearch(i) ==
  View \in {"worklist", "live"} /\ Exists(i) /\ Click /\ GoTo(i, [scr EXCEPT !.bulk = FALSE]) /\ Follow
BackToWorklist == Live /\ Click /\ GoTo(NoInst, scr) /\ Follow

\* Another module is opened and the screen opened again: its state is lost, the
\* cache and the requests on their way are kept.
Return ==
  /\ scr # Blank \/ \E c \in DOMAIN calls : calls[c].live # "none"
  /\ Click
  /\ scr' = Blank
  /\ calls' = [c \in DOMAIN calls |-> [calls[c] EXCEPT !.live = "none", !.stayed = @ /\ ~Pending(c)]]
  /\ UNCHANGED <<rows, cache, fetch, broken>> /\ Follow

\* A change of the screen's own state alone.
Show(s) == scr' = s /\ UNCHANGED <<rows, cache, fetch, broken, calls>> /\ Follow

OpenBulk == Live /\ ~scr.bulk /\ Use({"bulks"}) /\ Show([scr EXCEPT !.bulk = TRUE])
\* Its own button, Escape, the X-Ray and the other panels close it.
CloseBulk == scr.bulk /\ Click /\ Show([scr EXCEPT !.bulk = FALSE])
OpenRun ==
  /\ View \in {"worklist", "live"} /\ ~scr.run
  /\ Use({"execute"}) /\ Show([scr EXCEPT !.run = TRUE, !.step = "choosing", !.bulk = FALSE])

\* A station of the tracker or of the breadcrumb is clicked.
ViewStation(n) == Live /\ n # scr.station /\ Click /\ Show([scr EXCEPT !.station = n])

(***************************************************************************)
(* The poll and the fetches                                                *)
(***************************************************************************)
\* Faulty variant: a transaction that waits for a repair is taken for finished.
PollStopsEarly == Terminal \cup {"FAILED_TECHNICAL", "BLOCKED", "AWAITING_REPAIR"}

\* refetchInterval of the transaction on the screen; a fetch on its way is kept.
PollStops == Terminal \cup {"FAILED_TECHNICAL", "BLOCKED"}

Poll ==
  /\ View \in {"live", "error"} /\ Cached(scr.inst) /\ Shown.status \notin PollStops
  /\ fetch[scr.inst].st = "idle"
  /\ fetch' = [fetch EXCEPT ![scr.inst].st = "asked"]
  /\ UNCHANGED <<rows, bulkVars, scr, cache, broken, calls, left>>

\* The server reads the row; the answer is on its way.
FetchRead(i) ==
  /\ fetch[i].st = "asked"
  /\ fetch' = [fetch EXCEPT ![i] = [st |-> "read", row |-> rows[i]]]
  /\ UNCHANGED <<rows, bulkVars, scr, cache, broken, calls, left>>

FetchArrives(i) ==
  /\ fetch[i].st = "read"
  /\ cache' = [cache EXCEPT ![i] = fetch[i].row]
  /\ fetch' = [fetch EXCEPT ![i] = [st |-> "idle", row |-> Unread]]
  /\ broken' = broken \ {i}
  /\ UNCHANGED <<rows, scr, calls, left>> /\ Follow

\* Both attempts fail: the error view replaces the transaction, a copy of it in
\* the cache or not.
FetchFails(i) ==
  /\ fetch[i].st \in {"asked", "read"} /\ Use({"breaks"})
  /\ fetch' = [fetch EXCEPT ![i] = [st |-> "idle", row |-> Unread]]
  /\ broken' = broken \cup {i}
  /\ LET step == IF i = scr.inst THEN "choosing" ELSE scr.step
     IN scr' = [scr EXCEPT !.step = step] /\ calls' = Rekeyed(scr.inst, step)
  /\ UNCHANGED <<rows, cache>> /\ Follow

(***************************************************************************)
(* Decisions                                                               *)
(***************************************************************************)
\* mutate(): the request names the transaction on the screen.
Mutate(k, n, why) ==
  /\ Use({"clicks", k})
  /\ calls' = Append(calls, [kind |-> k, inst |-> scr.inst, key |-> scr.inst, node |-> n,
                             reason |-> why, st |-> "sent", ver |-> 0, stayed |-> TRUE, live |-> "sender"])
  /\ UNCHANGED <<rows, scr, cache, fetch, broken>> /\ Follow

\* The decision bar: the current step of a paused transaction of somebody else.
CheckerBar == Live /\ AtCurrent /\ Shown.status = "PAUSED" /\ ~IsMaker
Approve == CheckerBar /\ ~IsPending("approve") /\ ~scr.rejecting /\ Mutate("approve", 0, 0)
StartReject == CheckerBar /\ ~scr.rejecting /\ Click /\ Show([scr EXCEPT !.rejecting = TRUE])
TypeReason == CheckerBar /\ scr.rejecting /\ Click /\ Show([scr EXCEPT !.reason = Len(calls) + 1])
DropReject ==
  CheckerBar /\ scr.rejecting /\ Click /\ Show([scr EXCEPT !.rejecting = FALSE, !.reason = 0])
ConfirmReject ==
  /\ CheckerBar /\ scr.rejecting /\ scr.reason # 0 /\ ~IsPending("reject")
  /\ Mutate("reject", 0, scr.reason)

\* The form of the step: its button that cancels opens the reject panel, every
\* other one approves, also while an approval is pending.
SubmitForm == CheckerBar /\ Viewed \in Capturing /\ Mutate("approve", 0, 0)

\* The failure bar and the diagnostics panel, whose button to cancel asks
\* nothing.
FailureBar == Live /\ AtCurrent /\ Shown.status = "AWAITING_REPAIR"
Retry == FailureBar /\ ~IsPending("retry") /\ Mutate("retry", 0, 0)
SendToRepair == FailureBar /\ Viewed \in OnFailRepair /\ ~IsPending("repair") /\ Mutate("repair", 0, 0)
SkipStep == FailureBar /\ Viewed \in Skippable /\ ~IsPending("skip") /\ Mutate("skip", 0, 0)
CancelTransaction == FailureBar /\ Mutate("cancel", 0, 0)

\* The drawer of a reversal.
OpenReversal ==
  /\ Live /\ Completed(Viewed) /\ Viewed \notin Irreversible /\ scr.reversal # Viewed
  /\ Click /\ Show([scr EXCEPT !.reversal = Viewed])
CloseReversal ==
  Live /\ scr.reversal # 0 /\ ~IsPending("reverse") /\ Click /\ Show([scr EXCEPT !.reversal = 0])
SubmitReversal ==
  /\ Live /\ scr.reversal \in Node \ Irreversible /\ ~IsPending("reverse")
  /\ Mutate("reverse", scr.reversal, 0)

(***************************************************************************)
(* The initiation wizard                                                   *)
(***************************************************************************)
WizardShown == scr.run /\ View \in {"worklist", "live"}
\* A workflow with an entry screen is selected.
ChooseWorkflow ==
  WizardShown /\ scr.step = "choosing" /\ Click /\ Show([scr EXCEPT !.step = "form"])
\* Another product or sub-product clears it.
ChooseProduct ==
  WizardShown /\ scr.step \in {"form", "error"} /\ Click /\ Show([scr EXCEPT !.step = "choosing"])
SubmitCapture ==
  /\ WizardShown /\ scr.step \in {"form", "error"} /\ Click
  /\ calls' = Append(calls, [kind |-> "execute", inst |-> NoInst, key |-> NoInst, node |-> 0, reason |-> 0,
                             st |-> "sent", ver |-> 0, stayed |-> FALSE, live |-> "sender"])
  /\ scr' = [scr EXCEPT !.step = "running"]
  /\ UNCHANGED <<rows, cache, fetch, broken>> /\ Follow
\* Cancel, also while the execution runs.
CloseRun ==
  /\ WizardShown /\ Click
  /\ scr' = [scr EXCEPT !.run = FALSE, !.step = "choosing"]
  /\ calls' = Rekeyed(scr.inst, "choosing")
  /\ UNCHANGED <<rows, cache, fetch, broken>> /\ Follow

(***************************************************************************)
(* The server and the answers                                              *)
(***************************************************************************)
Outcome(c, st, v) == calls' = [calls EXCEPT ![c].st = st, ![c].ver = v]

\* A decision reaches the server, or the connection breaks before or after.
Served(c) ==
  LET k == calls[c] IN
  /\ k.st = "sent" /\ k.kind # "execute"
  /\ \/ Take(k.inst, k.kind, k.node) /\ (Outcome(c, "ok", rows'[k.inst].ver) \/ Outcome(c, "bad", 0))
     \/ Outcome(c, "bad", 0) /\ UNCHANGED rows
  /\ UNCHANGED <<bulkVars, scr, cache, fetch, broken, left>>

\* An execution; a run that reaches the step limit is answered without a
\* transaction.
Executed(c) ==
  LET k == calls[c] IN
  /\ k.st = "sent" /\ k.kind = "execute"
  /\ \/ \E j \in Inst : Execute(j) /\ (calls' = [calls EXCEPT ![c].st = "ok", ![c].inst = j]
                                       \/ Outcome(c, "bad", 0))
     \/ \E st \in {"ok", "bad"} : Outcome(c, st, 0) /\ UNCHANGED rows
  /\ UNCHANGED <<bulkVars, scr, cache, fetch, broken, left>>

\* Faulty variant: the typed reason stays.
AnsweredScreenKept(k) ==
  [scr EXCEPT !.rejecting = @ /\ k # "reject", !.reversal = IF k = "reverse" THEN 0 ELSE @]

\* onSuccess of a decision closes its reject panel or drawer, ...
AnsweredScreen(k) ==
  [scr EXCEPT !.rejecting = @ /\ k # "reject", !.reason = IF k = "reject" THEN 0 ELSE @,
              !.reversal = IF k = "reverse" THEN 0 ELSE @]
\* Faulty variant of Succeeded: no fetch.
SucceededUnfetched(c) ==
  LET k == calls[c] IN
  /\ k.kind # "execute" /\ k.st = "ok"
  /\ scr' = IF k.live = "sender" THEN AnsweredScreen(k.kind) ELSE scr
  /\ calls' = [calls EXCEPT ![c].st = "done"]
  /\ UNCHANGED <<rows, cache, fetch, broken, left>> /\ Follow

\* ... and has the transaction that is then on the screen fetched again.
Succeeded(c) ==
  LET k == calls[c] IN
  /\ k.kind # "execute" /\ k.st = "ok"
  /\ fetch' = Refetched(k.key)
  /\ scr' = IF k.live = "sender" THEN AnsweredScreen(k.kind) ELSE scr
  /\ calls' = [calls EXCEPT ![c].st = "done"]
  /\ UNCHANGED <<rows, cache, broken, left>> /\ Follow

\* onError: a banner, whatever transaction is then on the screen; the wizard
\* shows its form again.
Failed(c) ==
  LET k == calls[c] IN
  /\ k.st = "bad"
  /\ scr' = IF k.kind = "execute" /\ k.live = "sender" THEN [scr EXCEPT !.step = "error"] ELSE scr
  /\ calls' = [calls EXCEPT ![c].st = "failed"]
  /\ UNCHANGED <<rows, cache, fetch, broken, left>> /\ Follow

\* onInstanceCreated: the screen goes to the new transaction and the wizard is
\* closed, whatever the operator does by then.
Created(c) ==
  LET k == calls[c] IN
  /\ k.kind = "execute" /\ k.st = "ok"
  /\ IF k.live = "none" THEN UNCHANGED <<rows, scr, fetch, cache, broken>> /\ Outcome(c, "done", 0)
     ELSE /\ scr' = [scr EXCEPT !.run = FALSE, !.inst = k.inst, !.step = "choosing",
                                !.station = IF k.inst = scr.inst THEN @ ELSE 0]
          /\ fetch' = IF k.inst \notin {NoInst, scr.inst} /\ fetch[k.inst].st = "idle"
                      THEN [fetch EXCEPT ![k.inst].st = "asked"] ELSE fetch
          /\ calls' = [Rekeyed(k.inst, "choosing") EXCEPT ![c].st = "done"]
          /\ UNCHANGED <<rows, cache, broken>>
  /\ UNCHANGED left /\ Follow

\* Another operator decides, somewhere else.
Elsewhere(i, k, n) ==
  /\ Use({"moves"}) /\ Take(i, k, n)
  /\ UNCHANGED <<bulkVars, scr, cache, fetch, broken, calls>>

(***************************************************************************)
(* The specification                                                       *)
(***************************************************************************)
Navigate ==
  \/ \E i \in Inst : OpenFromWorklist(i) \/ OpenFromPicker(i) \/ OpenFromSearch(i)
  \/ \E n \in 0 .. NNodes : ViewStation(n)
  \/ BackToWorklist \/ Return \/ OpenBulk \/ CloseBulk
Decide ==
  \/ Approve \/ StartReject \/ TypeReason \/ DropReject \/ ConfirmReject \/ SubmitForm
  \/ Retry \/ SendToRepair \/ SkipStep \/ CancelTransaction
  \/ OpenReversal \/ CloseReversal \/ SubmitReversal
Initiate == OpenRun \/ ChooseWorkflow \/ ChooseProduct \/ SubmitCapture \/ CloseRun
Network ==
  \/ \E i \in Inst : FetchRead(i) \/ FetchArrives(i) \/ FetchFails(i)
  \/ \E c \in DOMAIN calls : Served(c) \/ Executed(c) \/ Succeeded(c) \/ Failed(c) \/ Created(c)
Others == \E i \in Inst, k \in Kind, n \in Node : (k = "reverse" \/ n = rows[i].node) /\ Elsewhere(i, k, n)

OnPanel == PanelStep /\ Click /\ UNCHANGED <<scr, cache, fetch, broken, calls>>
Loops == (\E l \in DOMAIN runs : LoopStep(l)) /\ UNCHANGED <<scr, cache, fetch, broken, calls, left>>

Next == Navigate \/ Decide \/ Initiate \/ OnPanel \/ Loops \/ Poll \/ Network \/ Others

\* The poll's timer fires and every request is answered or broken off; nobody
\* has to click.
Fairness ==
  /\ WF_vars(Poll) /\ WF_vars(Loops)
  /\ \A i \in Inst : WF_vars(FetchRead(i)) /\ WF_vars(FetchArrives(i))

Spec == Init /\ [][Next]_vars /\ Fairness

(***************************************************************************)
(* Properties                                                              *)
(***************************************************************************)
\* A decision that was answered while its transaction stayed on the screen is
\* seen there: with no fetch on its way the screen never shows the transaction
\* as it was before (invalidateQueries drops a poll that read the row earlier).
ReadsOwnWrite ==
  \A c \in DOMAIN calls :
    LET k == calls[c] IN
    /\ k.kind # "execute" /\ k.st = "done" /\ k.stayed
    /\ k.inst \notin broken /\ fetch[k.inst].st = "idle"
    => cache[k.inst].ver >= k.ver

\* A reason typed once rejects once: no two rejections that were answered carry
\* the same typed reason, although the reject panel and its text stay on the
\* screen when another transaction is opened.
ReasonUsedOnce ==
  \A c, d \in DOMAIN calls :
    c # d /\ {calls[c].kind, calls[d].kind} = {"reject"} /\ {calls[c].st, calls[d].st} = {"done"}
    => calls[c].reason # calls[d].reason

\* A transaction shown in motion does not stay on the screen as it no longer is:
\* the poll catches up with what others decided, also after failed fetches, until
\* the screen shows the transaction finished.  (A reversal of a completed one is
\* not noticed: the poll has stopped.)
ScreenCatchesUp ==
  \A i \in Inst :
    (scr.inst = i /\ Cached(i) /\ cache[i].status \notin Terminal /\ cache[i] # rows[i])
      ~> (scr.inst # i \/ cache[i] = rows[i] \/ cache[i].status \in Terminal)

\* A bulk run comes to its end, one error or all: every transaction it was
\* started for is shown as done or failed, and the panel can be used again.
BulkRunEnds ==
  \A l \in 1 .. MaxRuns :
    (l \in DOMAIN runs)
      ~> (l \in DOMAIN runs /\ runs[l].over /\ runs[l].todo = {} /\ (runs[l].watched => ~bulk.running))

\* "You cannot authorize or reject this transaction step because you initiated
\* it": no approval of the maker's own transaction is sent from this browser.
MakerNeverApproves ==
  /\ \A c \in DOMAIN calls : calls[c].kind \in {"approve", "reject"} => calls[c].inst \notin Mine
  /\ \A l \in DOMAIN runs : runs[l].act = "approve" => runs[l].at \cap Mine = {}

=============================================================================
