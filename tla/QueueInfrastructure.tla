------------------------ MODULE QueueInfrastructure ------------------------
(***************************************************************************)
(* The studio of the external queues (QueueInfrastructureStudio.tsx): a    *)
(* tab for the connections, one for the logical queues in their hierarchy, *)
(* one for the routing rules of a queue.  The first two work alike, on     *)
(* items of two kinds.  Of an item is kept whose settings it has, and of a *)
(* queue whether it is a MASTER and what its parent is.                    *)
(***************************************************************************)
EXTENDS Studio

CONSTANTS
  Item, NoItem, Unset,  \* ids of connections and queues; null and undefined
  Rule, NoRule,         \* ids of routing rules
  Furnished, Placed     \* the items and the rules stored at the start

ItemKind == {"connection", "queue"}
StoredItem == [kind : ItemKind, of : Item, master : BOOLEAN, parent : Item \cup {NoItem}]

ASSUME QueueAssumption ==
  /\ {NoItem, Unset} \cap Item = {} /\ NoItem # Unset /\ NoRule \notin Rule
  /\ DOMAIN Furnished \subseteq Item /\ Furnished \in [DOMAIN Furnished -> StoredItem]
  /\ \A i \in DOMAIN Furnished : Furnished[i].of = i
  /\ DOMAIN Placed \subseteq Rule /\ Placed \in [DOMAIN Placed -> Item]

VARIABLES
  cockpit,    \* the state of the component
  items,      \* the stored connections and queues
  itemLists,  \* the queries of both
  itemSaves,  \* the last request to save an item of each kind
  rules,      \* the stored routing rules, with their queues
  ruleLists,  \* the query ['routing-rules', id] of each queue, and of all
  ruleSaves   \* requests for rules on their way

queueVars == <<cockpit, items, itemLists, itemSaves, rules, ruleLists, ruleSaves>>

Form == [of : Item \cup {NoItem}, master : BOOLEAN, parent : Item \cup {NoItem, Unset}]
BlankForm(k) == [of |-> NoItem, master |-> k = "queue", parent |-> Unset]
\* selected: the item that is shown; copy: what it was when it was chosen or saved.
Bench == [mode : {"view", "edit", "new"}, selected : Item \cup {NoItem}, copy : Form, form : Form]
RuleForm == [shown : BOOLEAN, id : Rule \cup {NoRule}, queue : Item \cup {NoItem}]
NoForm == [shown |-> FALSE, id |-> NoRule, queue |-> NoItem]

\* rulesOf: the queue whose rules are listed; tested: whose test result is shown.
Cockpit == [tab : ItemKind \cup {"routing"}, bench : [ItemKind -> Bench], tested : Item \cup {NoItem},
            testing : Item \cup {NoItem}, rulesOf : Item \cup {NoItem}, rule : RuleForm]
BlankCockpit ==
  [tab |-> "connection", tested |-> NoItem, testing |-> NoItem, rulesOf |-> NoItem, rule |-> NoForm,
   bench |-> [k \in ItemKind |-> [mode |-> "view", selected |-> NoItem, copy |-> BlankForm(k), form |-> BlankForm(k)]]]

\* id: NoItem for a new item, NoRule for a new rule.
ItemSave == [st : {"none", "sent"}, mine : BOOLEAN, id : Item \cup {NoItem}, form : Form]
NoSave(k) == [st |-> "none", mine |-> FALSE, id |-> NoItem, form |-> BlankForm(k)]
RuleSave == [op : {"save", "delete"}, mine : BOOLEAN, id : Rule \cup {NoRule}, queue : Item \cup {NoItem}]

QueueTypeOK ==
  /\ cockpit \in Cockpit /\ itemSaves \in [ItemKind -> ItemSave] /\ ruleSaves \subseteq RuleSave
  /\ DOMAIN items \subseteq Item /\ items \in [DOMAIN items -> StoredItem]
  /\ DOMAIN rules \subseteq Rule /\ rules \in [DOMAIN rules -> Item]
  /\ DOMAIN itemLists = ItemKind
  /\ \A q \in Item \cup {NoItem} : ruleLists[q].data \cup ruleLists[q].old \subseteq Rule

OfKind(k) == [i \in {j \in DOMAIN items : items[j].kind = k} |-> items[i]]
RulesOf(q) == IF q = NoItem THEN DOMAIN rules ELSE {r \in DOMAIN rules : rules[r] = q}
Nobody == [i \in {} |-> NoItem]

QueueInit ==
  /\ cockpit = BlankCockpit /\ items = Furnished /\ rules = Placed
  /\ itemLists = [k \in ItemKind |-> Unasked(Nobody)]
  /\ ruleLists = [q \in Item \cup {NoItem} |-> Unasked({})]
  /\ itemSaves = [k \in ItemKind |-> NoSave(k)] /\ ruleSaves = {}

Steer(c) ==
  /\ At("queues", {}) /\ cockpit' = c
  /\ UNCHANGED <<items, itemLists, itemSaves, rules, ruleSaves>>
Turned(c) == Steer(c) /\ UNCHANGED ruleLists
\* The rules on the screen are asked for when the tab or the queue is chosen.
Routed(c) ==
  Steer(c) /\ ruleLists' = [ruleLists EXCEPT ![c.rulesOf] = Asked(@, RulesOf(c.rulesOf))]
ChooseTab(t) ==
  /\ t # cockpit.tab
  /\ LET c == [cockpit EXCEPT !.tab = t] IN IF t = "routing" THEN Routed(c) ELSE Turned(c)

(***************************************************************************)
(* Connections and queues                                                  *)
(***************************************************************************)
Half(k) == cockpit.bench[k]
OnTab(k) == k \in ItemKind /\ cockpit.tab = k
Untested(k) == IF k = "connection" THEN NoItem ELSE cockpit.tested
Copied(x) == [of |-> x.of, master |-> x.master, parent |-> x.parent]

NewItem(k) ==
  /\ OnTab(k)
  /\ Turned([cockpit EXCEPT !.bench[k] = [@ EXCEPT !.mode = "new", !.selected = NoItem, !.form = BlankForm(k)],
                            !.tested = Untested(k)])
SelectItem(k, i) ==
  /\ OnTab(k) /\ i \in DOMAIN itemLists[k].data
  /\ LET copy == Copied(itemLists[k].data[i])
     IN Turned([cockpit EXCEPT !.bench[k] = [mode |-> "view", selected |-> i, copy |-> copy, form |-> copy],
                               !.tested = Untested(k)])
EditItem(k) ==
  /\ OnTab(k) /\ Half(k).mode = "view" /\ Half(k).selected # NoItem
  /\ Turned([cockpit EXCEPT !.bench[k].mode = "edit", !.bench[k].form = Half(k).copy])
CancelItem(k) == OnTab(k) /\ Half(k).mode # "view" /\ Turned([cockpit EXCEPT !.bench[k].mode = "view"])

\* The form of a queue: the type, and for all but a MASTER the parent.
ChooseType(m) ==
  /\ OnTab("queue") /\ Half("queue").mode # "view" /\ m # Half("queue").form.master
  /\ Turned([cockpit EXCEPT !.bench["queue"].form.master = m])
MastersShown == {i \in DOMAIN itemLists["queue"].data : itemLists["queue"].data[i].master}
ChooseParent(p) ==
  /\ OnTab("queue") /\ Half("queue").mode # "view" /\ ~Half("queue").form.master
  /\ p \in MastersShown \cup {Unset} /\ p # Half("queue").form.parent
  /\ Turned([cockpit EXCEPT !.bench["queue"].form.parent = p])

SaveItem(k) ==
  /\ At("queues", {"sends"}) /\ OnTab(k) /\ Half(k).mode # "view" /\ itemSaves[k].st = "none"
  /\ itemSaves' = [itemSaves EXCEPT ![k] =
       [st |-> "sent", mine |-> TRUE, form |-> Half(k).form,
        id |-> IF Half(k).mode = "new" THEN NoItem ELSE Half(k).selected]]
  /\ UNCHANGED <<cockpit, items, itemLists, rules, ruleLists, ruleSaves>>

\* The row that is stored: a parent that is undefined is not sent.
RowOf(k, i) ==
  LET s == itemSaves[k]
  IN [kind |-> k, of |-> IF s.id = NoItem THEN i ELSE s.form.of, master |-> s.form.master,
      parent |-> IF s.form.parent # Unset THEN s.form.parent
                 ELSE IF s.id = NoItem THEN NoItem ELSE items[i].parent]
ItemStored(k, i) ==
  /\ itemSaves[k].st = "sent"
  /\ i \in IF itemSaves[k].id = NoItem THEN Item \ DOMAIN items ELSE {itemSaves[k].id}
  /\ items' = [j \in DOMAIN items \cup {i} |-> IF j = i THEN RowOf(k, i) ELSE items[j]]
  /\ itemSaves' = [itemSaves EXCEPT ![k] = NoSave(k)]
  /\ itemLists' = [itemLists EXCEPT ![k] = IF Here("queues") THEN Refreshed(@, OfKind(k)') ELSE Missed(@)]

\* onSuccess ends the editing, of whatever is edited by now, and shows what was
\* updated.
AfterSave(k, i) ==
  IF itemSaves[k].id = NoItem THEN [Half(k) EXCEPT !.mode = "view"]
  ELSE [Half(k) EXCEPT !.mode = "view", !.selected = i, !.copy = Copied(RowOf(k, i))]

ItemSaved(k, i) ==
  /\ ItemStored(k, i)
  /\ cockpit' = IF itemSaves[k].mine THEN [cockpit EXCEPT !.bench[k] = AfterSave(k, i)] ELSE cockpit
  /\ UNCHANGED <<rules, ruleLists, ruleSaves, studioVars>>
\* There is no onError.
ItemNotSaved(k) ==
  /\ itemSaves[k].st = "sent" /\ Use({"breaks"})
  /\ itemSaves' = [itemSaves EXCEPT ![k] = NoSave(k)]
  /\ UNCHANGED <<cockpit, items, itemLists, rules, ruleLists, ruleSaves, studio>>

\* The test of a connection; its answer, good or bad, is shown with whatever
\* connection is shown by then.
TestConnection ==
  /\ OnTab("connection") /\ Half("connection").mode = "view" /\ Half("connection").selected # NoItem
  /\ cockpit.testing = NoItem
  /\ Turned([cockpit EXCEPT !.testing = Half("connection").selected, !.tested = NoItem])
ConnectionTested ==
  /\ cockpit.testing # NoItem
  /\ cockpit' = [cockpit EXCEPT !.tested = cockpit.testing, !.testing = NoItem]
  /\ UNCHANGED <<items, itemLists, itemSaves, rules, ruleLists, ruleSaves, studioVars>>

(***************************************************************************)
(* Routing rules                                                           *)
(***************************************************************************)
OnRouting == cockpit.tab = "routing"
\* The button of a queue leads to its rules.
ShowRules ==
  /\ OnTab("queue") /\ Half("queue").mode = "view" /\ Half("queue").selected # NoItem
  /\ Routed([cockpit EXCEPT !.tab = "routing", !.rulesOf = Half("queue").selected])
\* The selector; a form that is open stays as it is.
ChooseQueue(q) ==
  /\ OnRouting /\ q \in DOMAIN itemLists["queue"].data \cup {NoItem} /\ q # cockpit.rulesOf
  /\ Routed([cockpit EXCEPT !.rulesOf = q])

AddRule ==
  /\ OnRouting /\ cockpit.rulesOf # NoItem
  /\ Turned([cockpit EXCEPT !.rule = [shown |-> TRUE, id |-> NoRule, queue |-> cockpit.rulesOf]])
EditRule(r) ==
  /\ OnRouting /\ r \in ruleLists[cockpit.rulesOf].data \cap DOMAIN rules
  /\ Turned([cockpit EXCEPT !.rule = [shown |-> TRUE, id |-> r, queue |-> rules[r]]])
CancelRule == OnRouting /\ cockpit.rule.shown /\ Turned([cockpit EXCEPT !.rule = NoForm])

SendRule(s) ==
  /\ At("queues", {"sends"}) /\ ruleSaves' = ruleSaves \cup {s}
  /\ UNCHANGED <<cockpit, items, itemLists, itemSaves, rules, ruleLists>>
SaveRule ==
  /\ OnRouting /\ cockpit.rule.shown /\ ~\E s \in ruleSaves : s.op = "save" /\ s.mine
  /\ SendRule([op |-> "save", mine |-> TRUE, id |-> cockpit.rule.id, queue |-> cockpit.rule.queue])
DeleteRule(r) ==
  /\ OnRouting /\ r \in ruleLists[cockpit.rulesOf].data
  /\ SendRule([op |-> "delete", mine |-> TRUE, id |-> r, queue |-> NoItem])

\* The rules of the queue that is selected by now are asked for again.
RulesRefreshed(s) ==
  [q \in DOMAIN ruleLists |->
     IF q = cockpit.rulesOf /\ OnRouting /\ Here("queues") THEN Refreshed(ruleLists[q], RulesOf(q)')
     ELSE Missed(ruleLists[q])]

\* onSuccess closes the form that is open by now.
RoutingSaved(s) ==
  /\ s \in ruleSaves /\ ruleSaves' = ruleSaves \ {s}
  /\ \/ /\ s.op = "save" /\ (s.id = NoRule \/ s.id \in DOMAIN rules)
        /\ \E r \in IF s.id = NoRule THEN Rule \ DOMAIN rules ELSE {s.id} :
             rules' = [t \in DOMAIN rules \cup {r} |-> IF t = r THEN s.queue ELSE rules[t]]
        /\ cockpit' = IF s.mine THEN [cockpit EXCEPT !.rule = NoForm] ELSE cockpit
     \/ /\ s.op = "delete" /\ s.id \in DOMAIN rules
        /\ rules' = [t \in DOMAIN rules \ {s.id} |-> rules[t]]
        /\ UNCHANGED cockpit
  /\ ruleLists' = RulesRefreshed(s)
  /\ UNCHANGED <<items, itemLists, itemSaves, studioVars>>
\* The rule is gone already, or the connection breaks: nothing is shown.
RoutingNotSaved(s) ==
  /\ s \in ruleSaves /\ ruleSaves' = ruleSaves \ {s}
  /\ \/ s.id # NoRule /\ s.id \notin DOMAIN rules /\ UNCHANGED left
     \/ Use({"breaks"})
  /\ UNCHANGED <<cockpit, items, itemLists, itemSaves, rules, ruleLists, studio>>

(***************************************************************************)
(* The queries, coming and going                                           *)
(***************************************************************************)
ItemsArrive(k) ==
  /\ itemLists[k].asked
  /\ \E a \in Answers(itemLists[k], OfKind(k)) : itemLists' = [itemLists EXCEPT ![k] = a]
  /\ UNCHANGED <<cockpit, items, itemSaves, rules, ruleLists, ruleSaves, studioVars>>
RulesArrive(q) ==
  /\ ruleLists[q].asked
  /\ \E a \in Answers(ruleLists[q], RulesOf(q)) : ruleLists' = [ruleLists EXCEPT ![q] = a]
  /\ UNCHANGED <<cockpit, items, itemLists, itemSaves, rules, ruleSaves, studioVars>>

CockpitLost ==
  /\ cockpit' = BlankCockpit /\ UNCHANGED <<items, rules, ruleLists>>
  /\ itemSaves' = [k \in ItemKind |-> [itemSaves[k] EXCEPT !.mine = FALSE]]
  /\ ruleSaves' = {[s EXCEPT !.mine = FALSE] : s \in ruleSaves}
EnterQueues ==
  /\ Enter("queues") /\ CockpitLost
  /\ itemLists' = [k \in ItemKind |-> Asked(itemLists[k], OfKind(k))]
ExitQueues == Exit("queues") /\ CockpitLost /\ UNCHANGED itemLists

ItemClicks(k) ==
  NewItem(k) \/ EditItem(k) \/ CancelItem(k) \/ SaveItem(k) \/ \E i \in Item : SelectItem(k, i)
QueueClicks ==
  \/ \E t \in ItemKind \cup {"routing"} : ChooseTab(t)
  \/ \E k \in ItemKind : ItemClicks(k)
  \/ (\E m \in BOOLEAN : ChooseType(m)) \/ (\E p \in Item \cup {Unset} : ChooseParent(p))
  \/ TestConnection \/ ShowRules \/ (\E q \in Item \cup {NoItem} : ChooseQueue(q))
  \/ AddRule \/ CancelRule \/ SaveRule \/ \E r \in Rule : EditRule(r) \/ DeleteRule(r)
QueueAnswers ==
  \/ \E k \in ItemKind : ItemNotSaved(k) \/ ItemsArrive(k) \/ \E i \in Item : ItemSaved(k, i)
  \/ ConnectionTested
  \/ \E s \in ruleSaves : RoutingSaved(s) \/ RoutingNotSaved(s)
  \/ \E q \in Item \cup {NoItem} : RulesArrive(q)

QueueNext == QueueClicks \/ QueueAnswers \/ EnterQueues \/ ExitQueues

(***************************************************************************)
(* Properties                                                              *)
(***************************************************************************)
\* Whatever is selected, edited and answered in whatever order, a connection or a
\* queue gets only settings that were drawn up for itself.
SettingsAreOwn == \A i \in DOMAIN items : items[i].of = i

\* The rules on the screen, when they are not being asked for, are those of the
\* selected queue, unless an earlier look at them was still on its way.
ShownRulesAreTrue ==
  Here("queues") /\ OnRouting /\ ~ruleLists[cockpit.rulesOf].asked /\ ~ruleLists[cockpit.rulesOf].gap
    => ruleLists[cockpit.rulesOf].data = RulesOf(cockpit.rulesOf)

\* The tree of the queues: masters with their children, and those with no parent.
InTree(q) ==
  LET list == itemLists["queue"].data
  IN list[q].master \/ list[q].parent = NoItem \/ list[q].parent \in MastersShown
\* "This gives them a visual interface with ... queue hierarchy tree": each queue of
\* the list is in it.
EveryQueueIsListed == \A q \in DOMAIN itemLists["queue"].data : InTree(q)
=============================================================================
