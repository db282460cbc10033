------------------------- MODULE NotificationEngine -------------------------
(***************************************************************************)
(* The studio of the notification policies (NotificationEngineStudio.tsx): *)
(* the list, the form of a new policy, the editor of one there is, with    *)
(* the requests to notification_policies.py, one at a time there.  Of a    *)
(* trigger is kept its place, of a form of one whether it has a name and   *)
(* all that the server wants.                                              *)
(***************************************************************************)
EXTENDS Studio

CONSTANTS
  Policy, NoPolicy,
  PolicyName, NoName,
  Trigger, NoTrigger,
  Established,         \* the policies stored at the start, if there are any
  MaxRows              \* bound: forms of triggers in a new policy

PolicyStatus == {"DRAFT", "PENDING_APPROVAL", "LIVE", "ARCHIVED"}
\* own: created by this user; at: its triggers, each with its sort_order.
IsPolicy(p) ==
  /\ p = [name |-> p.name, status |-> p.status, own |-> p.own, at |-> p.at]
  /\ p.name \in PolicyName /\ p.status \in PolicyStatus /\ p.own \in BOOLEAN
  /\ DOMAIN p.at \subseteq Trigger /\ p.at \in [DOMAIN p.at -> Nat]

ASSUME NotificationAssumption ==
  /\ NoPolicy \notin Policy /\ NoName \notin PolicyName
  /\ IsFiniteSet(Trigger) /\ NoTrigger \notin Trigger
  /\ Established = [p \in DOMAIN Established |-> Established[p]]
  /\ DOMAIN Established \subseteq Policy /\ (\A p \in DOMAIN Established : IsPolicy(Established[p]))
  /\ MaxRows \in Nat \ {0}

VARIABLES
  notifier,    \* the state of the component
  policies,    \* the stored policies
  policyList,  \* the query ['notification-policies', package]
  policyLooks, \* the queries ['notification-policy', id]
  notices      \* requests on their way

notificationVars == <<notifier, policies, policyList, policyLooks, notices>>

\* A form of a trigger: no name yet, or one, with or without a template and a recipient.
TriggerEntry == {"blank", "named", "complete"}
TriggerEntries == {s \in Seq(TriggerEntry) : Len(s) \in 1 .. MaxRows}
\* editing: whose editor it is; adding: the form for one more trigger is open.
Notifier == [view : {"list", "editor"}, editing : Policy \cup {NoPolicy}, name : PolicyName \cup {NoName},
             rows : TriggerEntries, adding : BOOLEAN, trigger : TriggerEntry]
BlankNotifier == [view |-> "list", editing |-> NoPolicy, name |-> NoName, rows |-> <<"blank">>,
                  adding |-> FALSE, trigger |-> "blank"]

NoticeOp == {"create", "add", "remove", "submit", "live"}
\* Of the forms that are sent: how many, and whether the server finds all it wants.
Forms == [count : 0 .. MaxRows, complete : BOOLEAN]
\* seen: the editor that the component showed last, as far as this request follows it.
Notice == [op : NoticeOp, mine : BOOLEAN, own : BOOLEAN, policy : Policy \cup {NoPolicy},
           seen : Policy \cup {NoPolicy}, trigger : Trigger \cup {NoTrigger},
           name : PolicyName \cup {NoName}, forms : Forms]

\* No answer yet.
Unseen == [name |-> NoName, status |-> "ARCHIVED", own |-> FALSE, at |-> <<>>]
NoPolicies == [p \in {} |-> Unseen]

NotificationTypeOK ==
  /\ notifier \in Notifier /\ notices \subseteq Notice
  /\ DOMAIN policies \subseteq Policy /\ \A p \in DOMAIN policies : IsPolicy(policies[p])
  /\ \A p \in DOMAIN policyList.data : IsPolicy(policyList.data[p])
  /\ \A p \in Policy : IsPolicy(policyLooks[p].data) \/ policyLooks[p].data = Unseen

NotificationInit ==
  /\ notifier = BlankNotifier /\ policies \in {NoPolicies, Established} /\ notices = {}
  /\ policyList = Unasked(NoPolicies) /\ policyLooks = [p \in Policy |-> Unasked(Unseen)]

(***************************************************************************)
(* From view to view                                                       *)
(***************************************************************************)
OnPolicies == notifier.view = "list"
Edited(p) == Here("notifications") /\ notifier.view = "editor" /\ notifier.editing = p
Notify(n) == At("notifications", {}) /\ notifier' = n /\ UNCHANGED policies
Drafted(n) == Notify(n) /\ UNCHANGED <<policyList, policyLooks, notices>>

\* A request on its way keeps the callbacks of the last rendering.
Followed(p) == notices' = {IF x.mine THEN [x EXCEPT !.seen = p] ELSE x : x \in notices}
Opened(p) ==
  policyLooks' = [q \in Policy |-> IF q = p THEN Asked(policyLooks[q], policies[q]) ELSE policyLooks[q]]

EditPolicy(p) ==
  /\ OnPolicies /\ p \in DOMAIN policyList.data
  /\ Notify([notifier EXCEPT !.view = "editor", !.editing = p])
  /\ Opened(p) /\ Followed(p) /\ UNCHANGED policyList
NewPolicy ==
  /\ OnPolicies /\ Notify([notifier EXCEPT !.view = "editor", !.editing = NoPolicy])
  /\ Followed(NoPolicy) /\ UNCHANGED <<policyList, policyLooks>>
\* The button of an empty list.
CreateFirstPolicy ==
  /\ OnPolicies /\ ~policyList.asked /\ DOMAIN policyList.data = {}
  /\ Notify([notifier EXCEPT !.view = "editor"])
  /\ Opened(notifier.editing) /\ UNCHANGED <<policyList, notices>>
\* What is typed stays, also a trigger typed for another policy.
BackToPolicies ==
  /\ ~OnPolicies /\ Notify([notifier EXCEPT !.view = "list", !.editing = NoPolicy])
  /\ policyList' = Asked(policyList, policies) /\ Followed(NoPolicy) /\ UNCHANGED policyLooks

(***************************************************************************)
(* The forms                                                               *)
(***************************************************************************)
OnNew == ~OnPolicies /\ notifier.editing = NoPolicy
OnPolicy == ~OnPolicies /\ notifier.editing # NoPolicy
Looked == policyLooks[notifier.editing].data
\* What is not known to be LIVE may be changed.
Changeable == OnPolicy /\ Looked.status # "LIVE"

TypeName(n) == OnNew /\ n # notifier.name /\ Drafted([notifier EXCEPT !.name = n])
AddRow == OnNew /\ Len(notifier.rows) < MaxRows /\ Drafted([notifier EXCEPT !.rows = Append(@, "blank")])
FillRow(i, e) ==
  /\ OnNew /\ i \in DOMAIN notifier.rows /\ e # notifier.rows[i]
  /\ Drafted([notifier EXCEPT !.rows[i] = e])
RemoveRow(i) ==
  /\ OnNew /\ i \in DOMAIN notifier.rows /\ Len(notifier.rows) > 1
  /\ Drafted([notifier EXCEPT !.rows = SubSeq(@, 1, i - 1) \o SubSeq(@, i + 1, Len(@))])

OpenTrigger == Changeable /\ Drafted([notifier EXCEPT !.adding = TRUE, !.trigger = "blank"])
FillTrigger(e) ==
  Changeable /\ notifier.adding /\ e # notifier.trigger /\ Drafted([notifier EXCEPT !.trigger = e])
CancelTrigger == Changeable /\ notifier.adding /\ Drafted([notifier EXCEPT !.adding = FALSE])

(***************************************************************************)
(* Requests                                                                *)
(***************************************************************************)
Pending(op) == \E x \in notices : x.op = op /\ x.mine
\* The forms without a name are not sent.
Named(rows) ==
  LET sent == {i \in DOMAIN rows : rows[i] # "blank"}
  IN [count |-> Cardinality(sent), complete |-> \A i \in sent : rows[i] = "complete"]
NoticeOf(op, p, t, rows) ==
  [op |-> op, mine |-> TRUE, own |-> TRUE, policy |-> p, seen |-> notifier.editing, trigger |-> t,
   name |-> IF op = "create" THEN notifier.name ELSE NoName, forms |-> Named(rows)]
\* A later request of the kind takes the earlier one's place with the component.
Tell(x) ==
  /\ At("notifications", {"sends"})
  /\ notices' = {IF y.op = x.op THEN [y EXCEPT !.mine = FALSE] ELSE y : y \in notices} \cup {x}
  /\ UNCHANGED <<notifier, policies, policyList, policyLooks>>

CreatePolicy ==
  /\ OnNew /\ ~Pending("create") /\ notifier.name # NoName /\ Named(notifier.rows).count > 0
  /\ Tell(NoticeOf("create", NoPolicy, NoTrigger, notifier.rows))
AddTrigger ==
  /\ Changeable /\ notifier.adding /\ notifier.trigger # "blank" /\ ~Pending("add")
  /\ Tell(NoticeOf("add", notifier.editing, NoTrigger, <<notifier.trigger>>))
\* The cross of a trigger is never disabled.
RemoveTrigger(t) ==
  /\ Changeable /\ t \in DOMAIN Looked.at
  /\ Tell(NoticeOf("remove", notifier.editing, t, <<"blank">>))

\* The button on the card, and the one in the editor.
Offers(p, status) ==
  \/ OnPolicies /\ p \in DOMAIN policyList.data /\ policyList.data[p].status = status
  \/ /\ OnPolicy /\ p = notifier.editing /\ Looked.status = status
     /\ status = "DRAFT" => DOMAIN Looked.at # {}
SubmitPolicy(p) ==
  Offers(p, "DRAFT") /\ ~Pending("submit") /\ Tell(NoticeOf("submit", p, NoTrigger, <<"blank">>))
MakePolicyLive(p) ==
  Offers(p, "PENDING_APPROVAL") /\ ~Pending("live") /\ Tell(NoticeOf("live", p, NoTrigger, <<"blank">>))

(***************************************************************************)
(* notification_policies.py                                                *)
(***************************************************************************)
\* Whether the server does what x asks for; own: this user sends it.
Takes(x) ==
  CASE x.op = "create" -> x.forms.complete
    [] x.op = "add"    -> policies[x.policy].status # "LIVE" /\ x.forms.complete
    [] x.op = "remove" -> policies[x.policy].status # "LIVE"
    [] x.op = "submit" -> policies[x.policy].status = "DRAFT" /\ DOMAIN policies[x.policy].at # {}
    [] x.op = "live"   -> policies[x.policy].status = "PENDING_APPROVAL" /\ policies[x.policy].own # x.own

FreeTriggers == Trigger \ UNION {DOMAIN policies[p].at : p \in DOMAIN policies}
\* Ids are drawn; the triggers of a new policy are numbered as they are sent.
Created(x) ==
  \E p \in Policy \ DOMAIN policies, ids \in SUBSET FreeTriggers :
    /\ Cardinality(ids) = x.forms.count
    /\ \E at \in [ids -> 0 .. x.forms.count - 1] :
         /\ \A s, t \in ids : at[s] = at[t] => s = t
         /\ policies' = [q \in DOMAIN policies \cup {p} |->
              IF q = p THEN [name |-> x.name, status |-> "DRAFT", own |-> x.own, at |-> at] ELSE policies[q]]
\* A new trigger gets the number of triggers there are.
TriggerAdded(x) ==
  \E t \in FreeTriggers :
    policies' = [policies EXCEPT ![x.policy].at =
      [s \in DOMAIN @ \cup {t} |-> IF s = t THEN Cardinality(DOMAIN @) ELSE @[s]]]
TriggerRemoved(x) ==
  policies' = [policies EXCEPT ![x.policy].at = [s \in DOMAIN @ \ {x.trigger} |-> @[s]]]
\* The one that was live under the same name is archived.
MadeLive(x) ==
  policies' = [p \in DOMAIN policies |->
    IF p = x.policy THEN [policies[p] EXCEPT !.status = "LIVE"]
    ELSE IF policies[p].status = "LIVE" /\ policies[p].name = policies[x.policy].name
         THEN [policies[p] EXCEPT !.status = "ARCHIVED"]
    ELSE policies[p]]
Carried(x) ==
  /\ Takes(x)
  /\ \/ x.op = "create" /\ Created(x)
     \/ x.op = "add" /\ TriggerAdded(x)
     \/ x.op = "remove" /\ TriggerRemoved(x)
     \/ x.op = "submit" /\ policies' = [policies EXCEPT ![x.policy].status = "PENDING_APPROVAL"]
     \/ x.op = "live" /\ MadeLive(x)

(***************************************************************************)
(* The answers                                                             *)
(***************************************************************************)
PolicyChanged(p) == p \in DOMAIN policies /\ policies'[p] # policies[p]
\* Nobody tells the queries.
LooksUntold ==
  [p \in Policy |-> IF PolicyChanged(p) THEN [policyLooks[p] EXCEPT !.gap = TRUE] ELSE policyLooks[p]]
ListUntold == [policyList EXCEPT !.gap = TRUE]

\* The editor that was shown last is asked for again, whichever policy was changed.
LooksTold(x) ==
  [p \in Policy |->
     IF p # x.seen THEN LooksUntold[p]
     ELSE IF Edited(p) THEN Refreshed(policyLooks[p], policies'[p]) ELSE Missed(policyLooks[p])]
\* The list is asked for again where it is shown; behind an editor it is disabled.
ListTold ==
  IF Here("notifications") /\ OnPolicies THEN Refreshed(policyList, policies') ELSE Missed(policyList)

\* A policy is created: the list is shown, whatever is edited by now.
PolicyCreated(x) ==
  /\ UNCHANGED policyLooks
  /\ IF x.mine
     THEN /\ notifier' = [notifier EXCEPT !.view = "list", !.name = NoName, !.rows = <<"blank">>]
          /\ policyList' = IF OnPolicies THEN ListTold ELSE Asked(ListTold, policies')
     ELSE policyList' = ListTold /\ UNCHANGED notifier
TriggersChanged(x) ==
  /\ policyList' = ListUntold /\ policyLooks' = LooksTold(x)
  /\ notifier' = IF x.op = "add" /\ x.mine THEN [notifier EXCEPT !.adding = FALSE, !.trigger = "blank"]
                 ELSE notifier
StatusChanged(x) == policyList' = ListTold /\ policyLooks' = LooksTold(x) /\ UNCHANGED notifier

NoticeAnswered(x) ==
  /\ x \in notices /\ notices' = notices \ {x} /\ Carried(x)
  /\ CASE x.op = "create"            -> PolicyCreated(x)
       [] x.op \in {"add", "remove"} -> TriggersChanged(x)
       [] OTHER                      -> StatusChanged(x)
  /\ UNCHANGED studioVars
\* A message is shown; the connection may break after the commit.
NoticeFailed(x) ==
  /\ x \in notices /\ notices' = notices \ {x}
  /\ \/ ~Takes(x) /\ UNCHANGED <<policies, policyList, policyLooks, left>>
     \/ Takes(x) /\ Use({"breaks"}) /\ UNCHANGED <<policies, policyList, policyLooks>>
     \/ Carried(x) /\ Use({"breaks"}) /\ policyList' = ListUntold /\ policyLooks' = LooksUntold
  /\ UNCHANGED <<notifier, studio>>

PoliciesArrive ==
  /\ policyList.asked /\ policyList' \in Answers(policyList, policies)
  /\ UNCHANGED <<notifier, policies, policyLooks, notices, studioVars>>
LookArrives(p) ==
  /\ policyLooks[p].asked
  /\ \E a \in Answers(policyLooks[p], policies[p]) : policyLooks' = [policyLooks EXCEPT ![p] = a]
  /\ UNCHANGED <<notifier, policies, policyList, notices, studioVars>>

\* Another user adds a trigger, submits a policy or makes one live.
OthersPublish ==
  /\ Use({"others"})
  /\ \E op \in {"add", "submit", "live"}, p \in DOMAIN policies :
       Carried([NoticeOf(op, p, NoTrigger, <<"complete">>) EXCEPT !.own = FALSE])
  /\ policyList' = ListUntold /\ policyLooks' = LooksUntold
  /\ UNCHANGED <<notifier, notices, studio>>

NotifierLost ==
  /\ notifier' = BlankNotifier /\ notices' = {[x EXCEPT !.mine = FALSE] : x \in notices}
  /\ UNCHANGED <<policies, policyLooks>>
EnterNotifications == Enter("notifications") /\ NotifierLost /\ policyList' = Asked(policyList, policies)
ExitNotifications == Exit("notifications") /\ NotifierLost /\ UNCHANGED policyList

PolicyClicks ==
  \/ NewPolicy \/ CreateFirstPolicy \/ BackToPolicies \/ AddRow \/ OpenTrigger \/ CancelTrigger
  \/ CreatePolicy \/ AddTrigger
  \/ \E p \in Policy : EditPolicy(p) \/ SubmitPolicy(p) \/ MakePolicyLive(p)
  \/ (\E n \in PolicyName : TypeName(n)) \/ (\E t \in Trigger : RemoveTrigger(t))
  \/ (\E e \in TriggerEntry : FillTrigger(e))
  \/ \E i \in 1 .. MaxRows : RemoveRow(i) \/ \E e \in TriggerEntry : FillRow(i, e)
PolicyAnswers ==
  \/ \E x \in notices : NoticeAnswered(x) \/ NoticeFailed(x)
  \/ PoliciesArrive \/ \E p \in Policy : LookArrives(p)
NotificationNext == PolicyClicks \/ PolicyAnswers \/ OthersPublish \/ EnterNotifications \/ ExitNotifications

(***************************************************************************)
(* Properties                                                              *)
(***************************************************************************)
\* The list and the policy on the screen, when they are not being asked for, are what
\* the server has, unless others changed it, an answer was lost, or it told another
\* query than the one that it made stale.
ShownPoliciesAreTrue ==
  /\ Here("notifications") /\ OnPolicies /\ ~policyList.asked /\ ~policyList.gap => policyList.data = policies
  /\ \A p \in Policy :
       Edited(p) /\ ~policyLooks[p].asked /\ ~policyLooks[p].gap => policyLooks[p].data = policies[p]

\* "fires every LIVE trigger in the attached policy in sort_order sequence": no two
\* triggers of a policy have the same place.
TriggersAreInOrder ==
  \A p \in DOMAIN policies : \A s, t \in DOMAIN policies[p].at :
    policies[p].at[s] = policies[p].at[t] => s = t
=============================================================================
