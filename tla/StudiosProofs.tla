---------------------------- MODULE StudiosProofs ----------------------------
(***************************************************************************)
(* Proofs about the studios, for any insights, rules, programs, fields,    *)
(* page sizes, queues, masters, transactions, policies and sittings: every *)
(* variable keeps its type, what a stored insight is bound to exists, the  *)
(* engine runs a calculation in the order it is shown, drafts stay with    *)
(* what they were drawn up for, a page number offered is of a page there   *)
(* is, and what a studio shows is what the server has unless nobody told   *)
(* it.  Each studio has an invariant of its own, in a section of its own;  *)
(* the last section puts them together.                                    *)
(***************************************************************************)
EXTENDS Studios, FiniteSetTheorems, WellFoundedInduction, TLAPS

(***************************************************************************)
(* Numbers                                                                 *)
(***************************************************************************)

\* A set of numbers that has zero, and the next of each of its members, has them all.
LEMMA AllNumbers ==
  ASSUME NEW S \in SUBSET Nat, 0 \in S, \A n \in S : n + 1 \in S
  PROVE  Nat \subseteq S
<1>. SUFFICES ASSUME Nat \ S # {} PROVE FALSE
  OBVIOUS
<1> DEFINE R == OpToRel(<, Nat)
<1>1. IsWellFoundedOn(R, Nat)
  BY NatLessThanWellFounded
<1>2. \A m, n \in Nat : m < n => <<m, n>> \in R
  BY DEF OpToRel
<1> HIDE DEF R
<1>3. PICK n \in Nat \ S : \A m \in Nat \ S : ~(<<m, n>> \in R)
  <2>1. Nat \ S \subseteq Nat
    OBVIOUS
  <2>. QED BY <1>1, <2>1, WFMin
<1>4. n - 1 \in Nat /\ n - 1 < n
  OBVIOUS
<1>5. n - 1 \in S
  BY <1>2, <1>3, <1>4
<1>. QED BY <1>3, <1>4, <1>5

(***************************************************************************)
(* Sittings and queries                                                    *)
(***************************************************************************)
\* A step of the sitting: it keeps the bounds, and the studio it is in.
Sat ==
  /\ UNCHANGED left \/ \E what : Use(what)
  /\ UNCHANGED studio \/ \E v \in {"shown", "crashed", "left"} : studio' = [studio EXCEPT !.view = v]

\* The application starts on a sitting of the bounds.
LEMMA SittingInit == StudioInit => StudioTypeOK
BY SittingsAreBounds DEF StudioInit, StudioTypeOK

\* A step of a sitting keeps the bounds, and the studio.
LEMMA SittingTyped == StudioTypeOK /\ Sat => StudioTypeOK' /\ studio'.desk = studio.desk
<1>. SUFFICES ASSUME StudioTypeOK, Sat PROVE StudioTypeOK' /\ studio'.desk = studio.desk
  OBVIOUS
<1>1. left' \in [Bounded -> Nat]
  BY DEF Sat, Use, StudioTypeOK
<1>2. studio' \in [desk : Desk, view : {"shown", "crashed", "left"}] /\ studio'.desk = studio.desk
  BY DEF Sat, StudioTypeOK
<1>. QED BY <1>1, <1>2 DEF StudioTypeOK

\* What a user does in a studio is a step of the sitting,
LEMMA AtSits == ASSUME NEW s, NEW what, At(s, what) PROVE Sat
BY DEF At, Sat

\* and so is opening it and leaving it.
LEMMA ComesAndGoes == ASSUME NEW s, Enter(s) \/ Exit(s) PROVE Sat
BY DEF Enter, Exit, Sat

\* A query, whatever it asks for.
Query(q) == q \in [data : {q.data}, asked : BOOLEAN, old : {q.old}, gap : BOOLEAN]

\* Without a gap, the answer on its way brings what the server has now, and so does
\* the query itself, when it is on the screen and nothing is on its way.
Truthful(q, now, shown) ==
  /\ Query(q)
  /\ q.asked /\ ~q.gap => q.old = now
  /\ shown /\ ~q.asked /\ ~q.gap => q.data = now

\* The fields of a query, one by one.
LEMMA RefreshedFields ==
  ASSUME NEW q, Query(q), NEW now
  PROVE  /\ Query(Refreshed(q, now)) /\ Refreshed(q, now).data = q.data /\ Refreshed(q, now).old = now
         /\ Refreshed(q, now).asked /\ ~Refreshed(q, now).gap
BY DEF Query, Refreshed

\* A query that misses a change keeps what it has,
LEMMA MissedFields ==
  ASSUME NEW q, Query(q)
  PROVE  /\ Query(Missed(q)) /\ Missed(q).data = q.data /\ Missed(q).old = q.old
         /\ (Missed(q).asked <=> q.asked) /\ (Missed(q).gap <=> q.asked)
BY DEF Query, Missed

\* one that is known to have missed one keeps it, too,
LEMMA GapFields ==
  ASSUME NEW q, Query(q)
  PROVE  LET r == [q EXCEPT !.gap = TRUE]
         IN  Query(r) /\ r.data = q.data /\ r.old = q.old /\ (r.asked <=> q.asked) /\ r.gap
BY DEF Query

\* and one that is answered has what the answer brought.
LEMMA AnswerFields ==
  ASSUME NEW q, Query(q), NEW now, NEW r \in Answers(q, now)
  PROVE  /\ Query(r) /\ ~r.asked /\ (r.gap <=> q.gap) /\ r.data \in {q.old, now} /\ r.old = r.data
<1>1. PICK v \in {q.old, now} : r = [Unasked(v) EXCEPT !.gap = q.gap]
  BY DEF Answers
<1>. QED BY <1>1 DEF Query, Unasked

\* Nobody looks at a list nobody asked for.
LEMMA UnaskedIsTruthful ==
  ASSUME NEW v, NEW now
  PROVE  Truthful(Unasked(v), now, FALSE)
BY DEF Truthful, Query, Unasked

\* Asking again makes up for whatever was missed,
LEMMA RefreshedIsTruthful ==
  ASSUME NEW q, Query(q), NEW now, NEW shown
  PROVE  Truthful(Refreshed(q, now), now, shown)
BY RefreshedFields DEF Truthful

\* and asking for the first time does not miss anything.
LEMMA AskedIsTruthful ==
  ASSUME NEW q, NEW now, NEW was, Truthful(q, now, was), NEW shown
  PROVE  Truthful(Asked(q, now), now, shown)
<1>1. CASE q.asked
  BY <1>1 DEF Truthful, Asked
<1>2. CASE ~q.asked
  <2>1. Query(q)
    BY DEF Truthful
  <2>. QED BY <1>2, <2>1, RefreshedIsTruthful DEF Asked
<1>. QED BY <1>1, <1>2

\* Off the screen, the server may change: an answer on its way is not trusted.
LEMMA MissedIsTruthful ==
  ASSUME NEW q, Query(q), NEW now
  PROVE  Truthful(Missed(q), now, FALSE)
BY MissedFields DEF Truthful

\* An answer shows what the server has, or what it had when it was late.
LEMMA AnswersAreTruthful ==
  ASSUME NEW q, NEW now, NEW was, Truthful(q, now, was), q.asked, NEW a \in Answers(q, now), NEW shown
  PROVE  Truthful(a, now, shown)
<1>1. /\ Query(a) /\ ~a.asked /\ (a.gap <=> q.gap) /\ a.data \in {q.old, now}
  BY AnswerFields DEF Truthful
<1>2. ~q.gap => q.old = now
  BY DEF Truthful
<1>. QED BY <1>1, <1>2 DEF Truthful

\* A gap excuses everything.
LEMMA GapIsTruthful ==
  ASSUME NEW q, Query(q), NEW now, NEW shown
  PROVE  Truthful([q EXCEPT !.gap = TRUE], now, shown)
BY GapFields DEF Truthful

\* What leaves the screen is asked less of.
LEMMA HiddenIsTruthful ==
  ASSUME NEW q, NEW now, NEW was, Truthful(q, now, was), NEW shown, shown => was
  PROVE  Truthful(q, now, shown)
BY DEF Truthful

\* Queries of answers in S.
QueryOf(S) == [data : S, asked : BOOLEAN, old : S, gap : BOOLEAN]

\* A query over S stays one, whatever is done to it.
LEMMA QueryKinds ==
  ASSUME NEW S, NEW q \in QueryOf(S), NEW now \in S
  PROVE  /\ Query(q)
         /\ {q, Refreshed(q, now), Asked(q, now), Missed(q), [q EXCEPT !.gap = TRUE]} \subseteq QueryOf(S)
         /\ Answers(q, now) \subseteq QueryOf(S)
         /\ Unasked(now) \in QueryOf(S)
<1>1. Query(q)
  BY DEF Query, QueryOf
<1>2. Refreshed(q, now) \in QueryOf(S) /\ Asked(q, now) \in QueryOf(S)
  BY DEF Refreshed, Asked, QueryOf
<1>3. Missed(q) \in QueryOf(S) /\ [q EXCEPT !.gap = TRUE] \in QueryOf(S)
  BY DEF Missed, QueryOf
<1>4. Answers(q, now) \subseteq QueryOf(S) /\ Unasked(now) \in QueryOf(S)
  BY DEF Answers, Unasked, QueryOf
<1>. QED BY <1>1, <1>2, <1>3, <1>4

(***************************************************************************)
(* Who sits where                                                          *)
(***************************************************************************)

\* Every step in the master explorer is a step of the sitting.
LEMMA MastersSit == MasterNext => Sat
<1>1. MasterClicks => Sat
  <2>1. OpenAdd \/ TypeRecord \/ CloseModal \/ SubmitInvalid \/ (\E r \in Record : OpenEdit(r)) => Sat
    BY AtSits DEF OpenAdd, TypeRecord, CloseModal, SubmitInvalid, OpenEdit, OnGrid, InExplorer, InModal
  <2>2. (\E m \in Master : SelectMaster(m)) => Sat
    BY AtSits DEF SelectMaster, InExplorer
  <2>3. SubmitRecord \/ ShareMaster \/ (\E r \in Record : DeleteRecord(r)) => Sat
    BY DEF SubmitRecord, ShareMaster, DeleteRecord, Send, Sat
  <2>. QED BY <2>1, <2>2, <2>3 DEF MasterClicks
<1>2. MasterAnswers => Sat
  BY DEF MasterAnswers, DetailArrives, RecordsArrive, OrderAnswered, OrderFailed, studioVars, Sat
<1>3. OthersMaintain \/ EnterExplorer \/ ExitExplorer => Sat
  BY ComesAndGoes DEF OthersMaintain, EnterExplorer, ExitExplorer, Sat
<1>. QED BY <1>1, <1>2, <1>3 DEF MasterNext

\* Every step in the factory is a step of the sitting.
LEMMA InsightsSit == InsightNext => Sat
<1>1. FactoryClicks => Sat
  <2>1. NewInsight \/ CancelWizard \/ EditInsight \/ NextStep \/ PreviousStep \/ DeployInsight => Sat
    BY AtSits DEF NewInsight, CancelWizard, EditInsight, NextStep, PreviousStep, DeployInsight, InFactory
  <2>2. /\ (\E c \in InsightCode : SelectInsight(c)) => Sat
        /\ (\E n \in InsightName : NameInsight(n)) => Sat
        /\ (\E tpl \in PREBUILT_TEMPLATES : ApplyTemplate(tpl)) => Sat
        /\ (\E m \in OutputMode : ChooseOutput(m)) => Sat
        /\ (\E k \in StepKind : AddAnalysisStep(k)) => Sat
    BY AtSits DEF SelectInsight, NameInsight, ApplyTemplate, ChooseOutput, AddAnalysisStep, InFactory, OnStep
  <2>3. ASSUME NEW i, RemoveAnalysisStep(i) \/ (\E t : ReferTo(i, t))
                      \/ \E n : BuildRule(i, n) \/ BuildCalculation(i, n)
        PROVE  Sat
    BY <2>3, AtSits DEF RemoveAnalysisStep, ReferTo, BuildRule, BuildCalculation, InFactory, OnStep
  <2>. QED BY <2>1, <2>2, <2>3 DEF FactoryClicks
<1>2. ASSUME NEW d \in DeploySlot, DeployStep(d) PROVE Sat
  <2>1. ASSUME NotReadable(d), UNCHANGED left PROVE Sat
    BY <2>1 DEF NotReadable, Crash, Sat
  <2>. QED BY <1>2, <2>1 DEF DeployStep, SkipStep, RuleSaved, RuleNotSaved, RuleRefused, Refused, CalculationUnread,
                 InsightUnread, InsightStored, InsightNotStored, studioVars, Sat
<1>3. RetryStudio("insights") => Sat
  BY DEF RetryStudio, Sat
<1>4. InsightsArrive \/ EnterFactory \/ ExitFactory => Sat
  BY <1>3, ComesAndGoes DEF InsightsArrive, EnterFactory, ExitFactory, studioVars, Sat
<1>. QED BY <1>1, <1>2, <1>4 DEF InsightNext

\* Every step in the calculation studio is a step of the sitting.
LEMMA CalculationsSit == CalcNext => Sat
<1>1. EngineClicks => Sat
  <2>1. NewProgram \/ EditProgram \/ CancelForm \/ SaveProgram \/ RunTest => Sat
    BY AtSits DEF NewProgram, EditProgram, CancelForm, SaveProgram, RunTest, InEngine
  <2>2. ASSUME NEW s, EditSteps(s) PROVE Sat
    BY <2>2, AtSits DEF EditSteps, InEngine
  <2>3. AddStep => Sat
    BY <2>2 DEF AddStep
  <2>4. ASSUME NEW i, \/ RemoveStep(i) \/ NameStep(i) \/ TypeExpression(i) \/ InsertField(i)
                      \/ \E j : MoveStep(i, j)
        PROVE  Sat
    BY <2>2, <2>4 DEF RemoveStep, NameStep, TypeExpression, InsertField, MoveStep
  <2>5. ASSUME NEW p, OpenProgram(p) \/ CloneTemplate(p) PROVE Sat
    BY <2>5, AtSits DEF OpenProgram, CloneTemplate, InEngine
  <2>6. ASSUME NEW c, TypeHead(c) \/ ChooseProgramProduct(c) PROVE Sat
    BY <2>6, AtSits DEF TypeHead, ChooseProgramProduct, InEngine
  <2>. QED BY <2>1, <2>3, <2>4, <2>5, <2>6 DEF EngineClicks
<1>2. EngineAnswers \/ ProgramsArrive => Sat
  BY DEF EngineAnswers, ProgramSaved, ProgramNotSaved, TemplateCloned, TemplateNotCloned, TestAnswered,
         ProgramsArrive, studioVars, Sat
<1>3. EnterEngine \/ ExitEngine => Sat
  BY ComesAndGoes DEF EnterEngine, ExitEngine
<1>. QED BY <1>1, <1>2, <1>3 DEF CalcNext

\* Every step in the field registry is a step of the sitting.
LEMMA FieldsSit == FieldNext => Sat
<1>1. ASSUME NEW g, View(g) PROVE Sat
  BY <1>1, AtSits DEF View, InRegistry
<1>2. ASSUME NEW s, Ask(s) PROVE Sat
  BY <1>2, AtSits DEF Ask
<1>3. RegistryClicks => Sat
  <2>1. Type \/ Filter \/ SortOther \/ CloseDrawer \/ OpenNew \/ (\E n \in PageSizes : Resize(n))
           \/ (\E p \in 0 .. Cardinality(Field) : GoTo(p)) \/ (\E p \in Pref : EditDrawer(p)) => Sat
    BY <1>1 DEF Type, Filter, SortOther, CloseDrawer, OpenNew, Resize, GoTo, EditDrawer
  <2>2. ASSUME NEW s, Select(s) PROVE Sat
    BY <1>1, <2>2 DEF Select
  <2>3. SelectPage \/ ClearSelection \/ (\E g \in SUBSET Field : SelectGroup(g)) => Sat
    BY <2>2 DEF SelectPage, ClearSelection, SelectGroup
  <2>4. SavePreferences \/ (\E p \in Pref : BulkUpdate(p)) => Sat
    BY <1>2 DEF SavePreferences, BulkUpdate
  <2>5. CloseNew \/ Translate \/ RegisterField => Sat
    BY AtSits DEF CloseNew, InRegistry, Translate, RegisterField
  <2>. QED BY <2>1, <2>3, <2>4, <2>5 DEF RegistryClicks
<1>4. RowClicks => Sat
  BY <1>1, <1>2 DEF RowClicks, SelectRow, Select, ToggleDisplay, OpenDrawer
<1>5. SearchSettles \/ (\E k \in DOMAIN pages : PageArrives(k)) \/ OthersChange => Sat
  BY DEF SearchSettles, PageArrives, OthersChange, studioVars, Sat
<1>6. RegistryAnswers => Sat
  BY DEF RegistryAnswers, PreferencesSaved, PreferencesNotSaved, Translated, FieldRegistered, FieldRefused,
         studioVars, Sat
<1>7. EnterRegistry \/ ExitRegistry => Sat
  BY ComesAndGoes DEF EnterRegistry, ExitRegistry
<1>. QED BY <1>3, <1>4, <1>5, <1>6, <1>7 DEF FieldNext

\* Every step in the queue studio is a step of the sitting.
LEMMA QueuesSit == QueueNext => Sat
<1>1. ASSUME NEW c, Steer(c) \/ Turned(c) \/ Routed(c) PROVE Sat
  BY <1>1, AtSits DEF Steer, Turned, Routed
<1>2. QueueClicks => Sat
  <2>1. ASSUME NEW k, ItemClicks(k) PROVE Sat
    BY <1>1, <2>1, AtSits DEF ItemClicks, NewItem, EditItem, CancelItem, SaveItem, SelectItem
  <2>2. ASSUME NEW t, ChooseTab(t) \/ ChooseType(t) \/ ChooseParent(t) \/ ChooseQueue(t) PROVE Sat
    BY <1>1, <2>2 DEF ChooseTab, ChooseType, ChooseParent, ChooseQueue
  <2>3. ASSUME NEW s, SendRule(s) PROVE Sat
    BY <2>3, AtSits DEF SendRule
  <2>4. TestConnection \/ ShowRules \/ AddRule \/ CancelRule \/ SaveRule => Sat
    BY <1>1, <2>3 DEF TestConnection, ShowRules, AddRule, CancelRule, SaveRule
  <2>5. ASSUME NEW r, EditRule(r) \/ DeleteRule(r) PROVE Sat
    BY <1>1, <2>3, <2>5 DEF EditRule, DeleteRule
  <2>. QED BY <2>1, <2>2, <2>4, <2>5 DEF QueueClicks
<1>3. QueueAnswers => Sat
  BY DEF QueueAnswers, ItemSaved, ItemNotSaved, ItemsArrive, ConnectionTested, RoutingSaved, RoutingNotSaved,
         RulesArrive, studioVars, Sat
<1>4. EnterQueues \/ ExitQueues => Sat
  BY ComesAndGoes DEF EnterQueues, ExitQueues
<1>. QED BY <1>2, <1>3, <1>4 DEF QueueNext

\* Every step in the runtime shell is a step of the sitting.
LEMMA RuntimeSits == ShellNext => Sat
<1>1. InShell \/ InTxn => Sat
  BY AtSits DEF InShell, InTxn
<1>2. ASSUME NEW word, ResumeWith(word) PROVE Sat
  BY <1>2, AtSits DEF ResumeWith
<1>3. ShellClicks => Sat
  <2>1. ASSUME NEW d, ToggleDomain(d) \/ OpenPage(d) PROVE Sat
    BY <1>1, <2>1 DEF ToggleDomain, OpenPage
  <2>2. TypeOnPage \/ SubmitPage \/ OpenTransactions \/ ShowQueue \/ NewTransaction \/ RefreshQueue
           \/ LaunchTransaction \/ TypeOnScreen => Sat
    BY <1>1, AtSits DEF TypeOnPage, SubmitPage, OnPage, OpenTransactions, ShowQueue, NewTransaction, RefreshQueue,
         LaunchTransaction, TypeOnScreen
  <2>3. ASSUME NEW w, ChooseFlow(w) \/ OpenInstance(w) \/ ApproveOrReject(w) \/ ChooseDecision(w) PROVE Sat
    BY <1>1, <1>2, <2>3 DEF ChooseFlow, OpenInstance, ApproveOrReject, ChooseDecision
  <2>4. ASSUME NEW a, SubmitScreen(a) PROVE Sat
    BY <1>1, <1>2, <2>4 DEF SubmitScreen
  <2>. QED BY <2>1, <2>2, <2>3, <2>4 DEF ShellClicks
<1>4. ShellAnswers => Sat
  BY DEF ShellAnswers, SectionArrives, PageReady, ScreenArrives, LaunchAnswered, LaunchFailed, QueueArrives,
         ResumeAnswered, ResumeRefused, studioVars, Sat
<1>5. OthersDecide \/ EnterRuntime \/ ExitRuntime => Sat
  BY ComesAndGoes DEF OthersDecide, EnterRuntime, ExitRuntime, Sat
<1>. QED BY <1>3, <1>4, <1>5 DEF ShellNext

\* Every step in the notification studio is a step of the sitting.
LEMMA NotificationsSit == NotificationNext => Sat
<1>1. ASSUME NEW n, Notify(n) \/ Drafted(n) PROVE Sat
  BY <1>1, AtSits DEF Notify, Drafted
<1>2. ASSUME NEW x, Tell(x) PROVE Sat
  BY <1>2, AtSits DEF Tell
<1>3. PolicyClicks => Sat
  <2>1. NewPolicy \/ CreateFirstPolicy \/ BackToPolicies \/ AddRow \/ OpenTrigger \/ CancelTrigger => Sat
    BY <1>1 DEF NewPolicy, CreateFirstPolicy, BackToPolicies, AddRow, OpenTrigger, CancelTrigger
  <2>2. CreatePolicy \/ AddTrigger => Sat
    BY <1>2 DEF CreatePolicy, AddTrigger
  <2>3. ASSUME NEW p, \/ EditPolicy(p) \/ SubmitPolicy(p) \/ MakePolicyLive(p) \/ TypeName(p) \/ RemoveTrigger(p)
                      \/ FillTrigger(p) \/ RemoveRow(p) \/ \E e : FillRow(p, e)
        PROVE  Sat
    BY <1>1, <1>2, <2>3 DEF EditPolicy, SubmitPolicy, MakePolicyLive, TypeName, RemoveTrigger, FillTrigger,
         RemoveRow, FillRow
  <2>. QED BY <2>1, <2>2, <2>3 DEF PolicyClicks
<1>4. PolicyAnswers \/ OthersPublish => Sat
  BY DEF PolicyAnswers, NoticeAnswered, NoticeFailed, PoliciesArrive, LookArrives, OthersPublish, studioVars, Sat
<1>5. EnterNotifications \/ ExitNotifications => Sat
  BY ComesAndGoes DEF EnterNotifications, ExitNotifications
<1>. QED BY <1>3, <1>4, <1>5 DEF NotificationNext

\* Every step stays in the studio of the sitting.
LEMMA SittingNext == StudioTypeOK /\ [Next]_vars => StudioTypeOK' /\ studio'.desk = studio.desk
<1>1. [Next]_vars => Sat
  BY InsightsSit, CalculationsSit, FieldsSit, QueuesSit, MastersSit, RuntimeSits, NotificationsSit
     DEF Next, Insights, Calculations, Fields, Queues, Masters, Runtime, Notifications, vars, studioVars, Sat
<1>. QED BY <1>1, SittingTyped

(***************************************************************************)
(* Insights                                                                *)
(***************************************************************************)
\* The tokens a step may have without a request to its name.
Stored == ruleSets \cup KnownCalcs \cup {Nameless}

\* A step that is not drawn up in the wizard has a token of the set S; one that got a
\* name there has a token with it.
Bound(s, S) == (~IsInline(s) => s.token \in S) /\ (s.name # Nameless => s.token # Nameless)
AllBound(steps, S) == \A i \in DOMAIN steps : Bound(steps[i], S)

\* The steps behind the loop of a deployment have theirs in S, too.
DeploymentBound(x, S) ==
  x.st = "sent" =>
    /\ x.todo <= Len(x.steps) /\ AllBound(x.steps, S)
    /\ \A i \in DOMAIN x.steps : i <= Len(x.steps) - x.todo => x.steps[i].token \in S

\* What keeps BoundTokensExist: the draft, and every deployment on its way.
InsightInv ==
  /\ wizard \in Wizard /\ Len(wizard.steps) <= MaxSteps
  /\ deploys \in [DeploySlot -> Deployment]
  /\ AllBound(wizard.steps, Stored)
  /\ \A d \in DeploySlot : DeploymentBound(deploys[d], Stored)
  /\ BoundTokensExist

\* A step just added refers to nothing.
LEMMA BlankIsBound ==
  /\ BlankWizard \in Wizard /\ Len(BlankWizard.steps) = 0 /\ AllBound(BlankWizard.steps, Stored)
  /\ NoDeployment \in Deployment /\ NoDeployment.st # "sent"
BY InsightAssumption DEF BlankWizard, Wizard, OutputMode, AllBound, NoDeployment, Deployment

\* Nothing is drafted, and nothing is on its way, at first.
LEMMA InsightInvInit == InsightInit => InsightInv
BY BlankIsBound, InsightAssumption
   DEF InsightInit, InsightInv, DeploySlot, DeploymentBound, BoundTokensExist

\* Removing a step leaves the others.
LEMMA StepRemoved ==
  ASSUME NEW T, NEW s \in Seq(T), NEW i \in DOMAIN s
  PROVE  LET r == SubSeq(s, 1, i - 1) \o SubSeq(s, i + 1, Len(s))
         IN  /\ r \in Seq(T) /\ Len(r) = Len(s) - 1
             /\ \A j \in DOMAIN r : \E k \in DOMAIN s : r[j] = s[k]
<1> DEFINE a == SubSeq(s, 1, i - 1)
           b == SubSeq(s, i + 1, Len(s))
<1>1. a \in Seq(T) /\ Len(a) = i - 1 /\ \A j \in DOMAIN a : a[j] = s[j]
  OBVIOUS
<1>2. b \in Seq(T) /\ Len(b) = Len(s) - i /\ \A j \in DOMAIN b : b[j] = s[i + j]
  OBVIOUS
<1> HIDE DEF a, b
<1>3. /\ a \o b \in Seq(T) /\ Len(a \o b) = Len(s) - 1
      /\ \A j \in DOMAIN (a \o b) : (a \o b)[j] = IF j <= Len(a) THEN a[j] ELSE b[j - Len(a)]
  BY <1>1, <1>2
<1>4. ASSUME NEW j \in DOMAIN (a \o b) PROVE \E k \in DOMAIN s : (a \o b)[j] = s[k]
  <2>1. CASE j <= Len(a)
    BY <1>1, <1>3, <2>1
  <2>2. CASE ~(j <= Len(a))
    <3>1. j - Len(a) \in DOMAIN b /\ i + (j - Len(a)) \in DOMAIN s
      BY <1>1, <1>2, <1>3, <2>2
    <3>. QED BY <1>2, <1>3, <2>2, <3>1
  <2>. QED BY <2>1, <2>2
<1>. QED BY <1>3, <1>4 DEF a, b

\* A click in the wizard that changes the draft alone.
LEMMA RewriteKeeps ==
  ASSUME InsightInv, NEW w \in Wizard, Rewrite(w), Len(w.steps) <= MaxSteps, AllBound(w.steps, Stored)
  PROVE  InsightInv'
<1>1. Stored' = Stored
  BY DEF Rewrite, Stored
<1>. QED BY <1>1 DEF InsightInv, Rewrite, AllBound, Bound, IsInline, DeploymentBound, BoundTokensExist

\* Every click in the factory: a draft or a deployment of what is bound.
LEMMA FactoryClicksKeep ==
  ASSUME InsightInv, FactoryClicks
  PROVE  InsightInv'
<1>0. /\ wizard \in Wizard /\ Len(wizard.steps) <= MaxSteps /\ AllBound(wizard.steps, Stored)
      /\ wizard.steps \in Seq(AnalysisStep)
  BY DEF InsightInv, Wizard
<1>1. CASE NewInsight
  <2> DEFINE w == [BlankWizard EXCEPT !.creating = TRUE]
  <2>1. w \in Wizard /\ w.steps = BlankWizard.steps
    BY BlankIsBound DEF Wizard
  <2>2. Rewrite(w)
    BY <1>1 DEF NewInsight
  <2> HIDE DEF w
  <2>. QED BY <2>1, <2>2, BlankIsBound, InsightAssumption, RewriteKeeps
<1>2. CASE CancelWizard
  BY <1>2, BlankIsBound, InsightAssumption, RewriteKeeps DEF CancelWizard
<1>3. CASE EditInsight
  BY <1>0, <1>3, RewriteKeeps DEF EditInsight, Wizard
<1>4. CASE NextStep
  BY <1>0, <1>4, RewriteKeeps DEF NextStep, Wizard
<1>5. CASE PreviousStep
  BY <1>0, <1>5, RewriteKeeps DEF PreviousStep, Wizard
<1>6. CASE \E c \in InsightCode : SelectInsight(c)
  BY <1>0, <1>6, RewriteKeeps DEF SelectInsight, Wizard
<1>7. CASE \E n \in InsightName : NameInsight(n)
  BY <1>0, <1>7, InsightAssumption, RewriteKeeps DEF NameInsight, Wizard
<1>8. CASE \E tpl \in PREBUILT_TEMPLATES : ApplyTemplate(tpl)
  <2>. PICK tpl \in PREBUILT_TEMPLATES : ApplyTemplate(tpl)
    BY <1>8
  <2> DEFINE w == [wizard EXCEPT !.name = tpl.name, !.code = CodeOf[tpl.name], !.mode = tpl.outputMode,
                                !.creating = TRUE, !.step = 1]
  <2>1. tpl.name \in InsightName /\ tpl.outputMode \in OutputMode /\ CodeOf[tpl.name] \in InsightCode
    BY InsightAssumption DEF PREBUILT_TEMPLATES
  <2> DEFINE v == [wizard EXCEPT !.name = tpl.name, !.code = CodeOf[tpl.name]]
             x == [v EXCEPT !.mode = tpl.outputMode]
             y == [x EXCEPT !.creating = TRUE]
             u == [y EXCEPT !.step = 1]
  <2>2. v \in Wizard /\ v.steps = wizard.steps
    BY <1>0, <2>1 DEF Wizard
  <2>3. w = u
    BY <1>0 DEF Wizard
  <2> HIDE DEF v, w
  <2>4. x \in Wizard /\ x.steps = wizard.steps
    BY <2>1, <2>2 DEF Wizard
  <2> HIDE DEF x
  <2>. y \in Wizard /\ y.steps = wizard.steps
    BY <2>4 DEF Wizard
  <2> HIDE DEF y
  <2>5. u \in Wizard /\ u.steps = wizard.steps
    BY DEF Wizard
  <2>6. Rewrite(w)
    BY DEF ApplyTemplate, w
  <2>. QED BY <1>0, <2>3, <2>5, <2>6, RewriteKeeps
<1>9. CASE \E m \in OutputMode : ChooseOutput(m)
  BY <1>0, <1>9, RewriteKeeps DEF ChooseOutput, Wizard
<1>10. CASE \E k \in StepKind : AddAnalysisStep(k)
  <2>. PICK k \in StepKind : AddAnalysisStep(k)
    BY <1>10
  <2> DEFINE s == [kind |-> k, name |-> Nameless, token |-> Nameless]
             w == [wizard EXCEPT !.steps = Append(@, s)]
  <2>1. s \in AnalysisStep /\ Bound(s, Stored)
    BY DEF AnalysisStep, Bound, Stored
  <2> HIDE DEF s
  <2>2. /\ Append(wizard.steps, s) \in Seq(AnalysisStep) /\ Len(Append(wizard.steps, s)) <= MaxSteps
        /\ AllBound(Append(wizard.steps, s), Stored)
    BY <1>0, <2>1, InsightAssumption DEF AddAnalysisStep, AllBound
  <2>3. w \in Wizard /\ w.steps = Append(wizard.steps, s)
    BY <1>0, <2>2 DEF Wizard
  <2>4. Rewrite(w)
    BY DEF AddAnalysisStep, s
  <2>. QED BY <2>2, <2>3, <2>4, RewriteKeeps
<1>11. CASE \E i \in 1 .. MaxSteps : RemoveAnalysisStep(i)
  <2>. PICK i \in 1 .. MaxSteps : RemoveAnalysisStep(i)
    BY <1>11
  <2> DEFINE r == SubSeq(wizard.steps, 1, i - 1) \o SubSeq(wizard.steps, i + 1, Len(wizard.steps))
             w == [wizard EXCEPT !.steps = r]
  <2>1. i \in DOMAIN wizard.steps /\ Rewrite(w)
    BY DEF RemoveAnalysisStep
  <2>2. /\ r \in Seq(AnalysisStep) /\ Len(r) = Len(wizard.steps) - 1
        /\ \A j \in DOMAIN r : \E k \in DOMAIN wizard.steps : r[j] = wizard.steps[k]
    BY <1>0, <2>1, StepRemoved
  <2> HIDE DEF r
  <2>3. w \in Wizard /\ w.steps = r
    BY <1>0, <2>2 DEF Wizard
  <2>4. Len(r) <= MaxSteps
    BY <1>0, <2>2, InsightAssumption
  <2>5. AllBound(r, Stored)
    BY <1>0, <2>2 DEF AllBound
  <2> HIDE DEF w
  <2>. QED BY <2>1, <2>3, <2>4, <2>5, RewriteKeeps
<1>12. ASSUME NEW i \in DOMAIN wizard.steps, NEW s \in AnalysisStep, Bound(s, Stored),
              Rewrite([wizard EXCEPT !.steps = [wizard.steps EXCEPT ![i] = s]])
       PROVE  InsightInv'
  <2> DEFINE r == [wizard.steps EXCEPT ![i] = s]
             w == [wizard EXCEPT !.steps = r]
  <2>1. r \in Seq(AnalysisStep) /\ Len(r) = Len(wizard.steps) /\ AllBound(r, Stored)
    BY <1>0, <1>12 DEF AllBound
  <2> HIDE DEF r
  <2>2. w \in Wizard /\ w.steps = r
    BY <1>0, <2>1 DEF Wizard
  <2>3. Rewrite(w)
    BY <1>12 DEF r
  <2>. QED BY <1>0, <2>1, <2>2, <2>3, RewriteKeeps
<1>13. CASE \E i \in 1 .. MaxSteps : \E t \in Token : ReferTo(i, t)
  <2>. PICK i \in 1 .. MaxSteps, t \in Token : ReferTo(i, t)
    BY <1>13
  <2> DEFINE s == [wizard.steps[i] EXCEPT !.token = t]
  <2>1. i \in DOMAIN wizard.steps /\ wizard.steps[i] \in AnalysisStep
    BY <1>0 DEF ReferTo
  <2>2. s \in AnalysisStep /\ Bound(s, Stored)
    BY <2>1, InsightAssumption DEF AnalysisStep, Bound, Stored, ReferTo
  <2>3. Rewrite([wizard EXCEPT !.steps = [wizard.steps EXCEPT ![i] = s]])
    BY <1>0, <2>1 DEF ReferTo, Wizard
  <2>. QED BY <1>12, <2>1, <2>2, <2>3
<1>14. CASE \E i \in 1 .. MaxSteps, n \in RuleName : BuildRule(i, n) \/ BuildCalculation(i, n)
  <2>. PICK i \in 1 .. MaxSteps, n \in RuleName : BuildRule(i, n) \/ BuildCalculation(i, n)
    BY <1>14
  <2> DEFINE s == [wizard.steps[i] EXCEPT !.name = n, !.token = TokenOf[n]]
  <2>1. i \in DOMAIN wizard.steps /\ wizard.steps[i] \in AnalysisStep
    BY <1>0 DEF BuildRule, BuildCalculation
  <2>2. TokenOf[n] \in Token /\ n # Nameless
    BY InsightAssumption
  <2>3. s \in AnalysisStep /\ Bound(s, Stored)
    BY <2>1, <2>2, InsightAssumption DEF AnalysisStep, Bound, IsInline, BuildRule, BuildCalculation
  <2>4. Rewrite([wizard EXCEPT !.steps = [wizard.steps EXCEPT ![i] = s]])
    BY <1>0, <2>1 DEF BuildRule, BuildCalculation, Wizard
  <2>. QED BY <1>12, <2>1, <2>3, <2>4
<1>15. CASE DeployInsight
  <2> DEFINE d == IF InFlight(1) THEN 2 ELSE 1
             x == [st |-> "sent", mine |-> TRUE, code |-> wizard.code, mode |-> wizard.mode,
                   steps |-> wizard.steps, todo |-> Len(wizard.steps)]
  <2>1. d \in DeploySlot /\ deploys' = [deploys EXCEPT ![d] = x]
    BY <1>15 DEF DeployInsight, DeploySlot
  <2>2. x \in Deployment
    BY <1>0, InsightAssumption DEF Deployment, Wizard
  <2>3. DeploymentBound(x, Stored)
    BY <1>0 DEF DeploymentBound
  <2> HIDE DEF x, d
  <2>4. deploys' \in [DeploySlot -> Deployment] /\ \A e \in DeploySlot : DeploymentBound(deploys'[e], Stored)
    BY <2>1, <2>2, <2>3 DEF InsightInv
  <2>5. UNCHANGED <<wizard, insights, ruleSets>> /\ Stored' = Stored
    BY <1>15 DEF DeployInsight, Stored
  <2>. QED BY <2>4, <2>5 DEF InsightInv, AllBound, Bound, IsInline, DeploymentBound, BoundTokensExist
<1>. QED BY <1>1, <1>2, <1>3, <1>4, <1>5, <1>6, <1>7, <1>8, <1>9, <1>10, <1>11, <1>13, <1>14, <1>15
         DEF FactoryClicks

\* A deployment that goes on, while tokens are only added.
LEMMA DeploymentGoesOn ==
  ASSUME InsightInv, NEW d \in DeploySlot, NEW x \in Deployment,
         deploys' = [deploys EXCEPT ![d] = x], DeploymentBound(x, Stored'),
         ruleSets \subseteq ruleSets', wizard' \in {wizard, BlankWizard}, BoundTokensExist'
  PROVE  InsightInv'
<1>1. Stored \subseteq Stored'
  BY DEF Stored
<1>2. /\ wizard' \in Wizard /\ Len(wizard'.steps) <= MaxSteps
      /\ AllBound(wizard'.steps, Stored)
  BY BlankIsBound, InsightAssumption DEF InsightInv
<1>3. AllBound(wizard'.steps, Stored')
  BY <1>1, <1>2 DEF AllBound, Bound, IsInline
<1>4. deploys' \in [DeploySlot -> Deployment]
  BY DEF InsightInv
<1>5. ASSUME NEW e \in DeploySlot PROVE DeploymentBound(deploys'[e], Stored')
  <2>1. CASE e = d
    BY <2>1 DEF InsightInv
  <2>2. CASE e # d
    <3>1. deploys'[e] = deploys[e] /\ DeploymentBound(deploys[e], Stored)
      BY <2>2 DEF InsightInv
    <3>. QED BY <1>1, <3>1 DEF DeploymentBound, AllBound, Bound, IsInline
  <2>. QED BY <2>1, <2>2
<1>. QED BY <1>2, <1>3, <1>4, <1>5 DEF InsightInv, AllBound, Bound, IsInline, DeploymentBound

\* The step the loop of a deployment is at.
LEMMA AtStep ==
  ASSUME InsightInv, NEW d \in DeploySlot, InFlight(d), deploys[d].todo > 0
  PROVE  /\ deploys[d].todo - 1 \in 0 .. MaxSteps
         /\ \A i \in DOMAIN deploys[d].steps :
              i <= Len(deploys[d].steps) - (deploys[d].todo - 1)
                => i <= Len(deploys[d].steps) - deploys[d].todo \/ deploys[d].steps[i] = ToSave(d)
         /\ Bound(ToSave(d), Stored)
<1>1. /\ deploys[d] \in Deployment /\ DeploymentBound(deploys[d], Stored)
      /\ deploys[d].steps \in Seq(AnalysisStep) /\ deploys[d].todo \in 0 .. MaxSteps
      /\ deploys[d].todo <= Len(deploys[d].steps)
  BY DEF InsightInv, Deployment, DeploymentBound, InFlight
<1> DEFINE n == Len(deploys[d].steps) - deploys[d].todo + 1
<1>2. n \in DOMAIN deploys[d].steps
  BY <1>1, InsightAssumption
<1>3. Bound(ToSave(d), Stored)
  BY <1>1, <1>2 DEF ToSave, DeploymentBound, AllBound, InFlight
<1>4. ASSUME NEW i \in DOMAIN deploys[d].steps, i <= Len(deploys[d].steps) - (deploys[d].todo - 1)
      PROVE  i <= Len(deploys[d].steps) - deploys[d].todo \/ deploys[d].steps[i] = ToSave(d)
  BY <1>1, <1>4, InsightAssumption DEF ToSave
<1>. QED BY <1>1, <1>3, <1>4, InsightAssumption

\* The loop goes past a step whose token is there by then.
LEMMA LoopGoesOn ==
  ASSUME InsightInv, NEW d \in DeploySlot, InFlight(d), deploys[d].todo > 0,
         deploys' = [deploys EXCEPT ![d].todo = @ - 1], ToSave(d).token \in Stored',
         ruleSets \subseteq ruleSets', UNCHANGED <<wizard, insights>>
  PROVE  InsightInv'
<1> DEFINE x == [deploys[d] EXCEPT !.todo = @ - 1]
<1>1. deploys[d] \in Deployment /\ DeploymentBound(deploys[d], Stored)
  BY DEF InsightInv
<1>2. x \in Deployment /\ deploys' = [deploys EXCEPT ![d] = x]
  BY <1>1, AtStep DEF Deployment, InsightInv
<1>3. x.steps = deploys[d].steps /\ x.todo = deploys[d].todo - 1 /\ x.st = "sent"
  BY <1>1 DEF Deployment, InFlight
<1>4. deploys[d].todo \in Nat /\ Len(deploys[d].steps) \in Nat
  BY <1>1, InsightAssumption DEF Deployment
<1> HIDE DEF x
<1>5. Stored \subseteq Stored'
  BY DEF Stored
<1>6. AllBound(x.steps, Stored')
  BY <1>1, <1>3, <1>5 DEF DeploymentBound, AllBound, Bound, InFlight, IsInline
<1>7. ASSUME NEW i \in DOMAIN x.steps, i <= Len(x.steps) - x.todo
      PROVE  x.steps[i].token \in Stored'
  BY <1>1, <1>3, <1>5, <1>7, AtStep DEF DeploymentBound, InFlight
<1>8. x.todo <= Len(x.steps)
  BY <1>1, <1>3, <1>4 DEF DeploymentBound, InFlight
<1>9. DeploymentBound(x, Stored')
  BY <1>6, <1>7, <1>8 DEF DeploymentBound
<1>10. BoundTokensExist'
  BY DEF BoundTokensExist, InsightInv
<1>. QED BY <1>2, <1>9, <1>10, DeploymentGoesOn

\* A deployment that has ended owes nothing any more.
LEMMA DeploymentEnds ==
  ASSUME InsightInv, NEW d \in DeploySlot, NEW st \in {"done", "failed", "unread"}, Outcome(d, st),
         ruleSets \subseteq ruleSets', wizard' \in {wizard, BlankWizard},
         insights' \in {insights, insights \cup {InsightOf(d)}},
         insights' # insights => Posting(d)
  PROVE  InsightInv'
<1> DEFINE x == [deploys[d] EXCEPT !.st = st]
<1>1. deploys[d] \in Deployment /\ DeploymentBound(deploys[d], Stored)
  BY DEF InsightInv
<1>2. x \in Deployment /\ deploys' = [deploys EXCEPT ![d] = x]
  BY <1>1 DEF Deployment, InsightInv, Outcome
<1>3. DeploymentBound(x, Stored')
  BY <1>1 DEF DeploymentBound, Deployment
<1>4. Posting(d) => InsightOf(d).tokens \ {Nameless} \subseteq ruleSets \cup KnownCalcs
  <2>. SUFFICES ASSUME Posting(d), NEW i \in DOMAIN deploys[d].steps
                PROVE  deploys[d].steps[i].token \in Stored
    BY DEF InsightOf, Stored
  <2>1. deploys[d].steps \in Seq(AnalysisStep) /\ deploys[d].todo = 0
    BY <1>1 DEF Deployment, Posting
  <2>. QED BY <1>1, <2>1 DEF DeploymentBound, Posting, InFlight
<1>5. BoundTokensExist'
  BY <1>4 DEF BoundTokensExist, InsightInv
<1> HIDE DEF x
<1>. QED BY <1>2, <1>3, <1>5, DeploymentGoesOn

\* Every answer to a deployment, and every step of its loop.
LEMMA DeployStepKeeps ==
  ASSUME InsightInv, NEW d \in DeploySlot, DeployStep(d)
  PROVE  InsightInv'
<1>1. CASE SkipStep(d)
  <2>1. ToSave(d).token \in Stored
    BY <1>1, AtStep DEF SkipStep, Bound
  <2>2. UNCHANGED <<wizard, insights, ruleSets>> /\ Stored' = Stored
    BY <1>1 DEF SkipStep, Stored
  <2>. QED BY <1>1, <2>1, <2>2, LoopGoesOn DEF SkipStep
<1>2. CASE RuleSaved(d)
  <2>1. ToSave(d).token \in Stored' /\ ruleSets \subseteq ruleSets'
    BY <1>2 DEF RuleSaved, Stored
  <2>. QED BY <1>2, <2>1, LoopGoesOn DEF RuleSaved, Saving
<1>3. CASE RuleNotSaved(d)
  BY <1>3, DeploymentEnds DEF RuleNotSaved, RuleRefused, Refused
<1>4. CASE CalculationUnread(d) \/ InsightUnread(d)
  <2>1. Outcome(d, "unread") /\ wizard' \in {wizard, BlankWizard} /\ UNCHANGED <<insights, ruleSets>>
    BY <1>4 DEF CalculationUnread, InsightUnread, NotReadable
  <2>. QED BY <2>1, DeploymentEnds
<1>5. CASE InsightStored(d)
  BY <1>5, DeploymentEnds DEF InsightStored
<1>6. CASE InsightNotStored(d)
  BY <1>6, DeploymentEnds DEF InsightNotStored, Refused
<1>. QED BY <1>1, <1>2, <1>3, <1>4, <1>5, <1>6 DEF DeployStep

\* A deployment that nobody waits for any more runs on.
LEMMA FactoryLostKeeps ==
  ASSUME InsightInv, FactoryLost
  PROVE  InsightInv'
<1>1. Stored' = Stored
  BY DEF FactoryLost, Stored
<1>2. wizard' \in Wizard /\ Len(wizard'.steps) <= MaxSteps /\ AllBound(wizard'.steps, Stored)
  BY BlankIsBound, InsightAssumption DEF FactoryLost
<1>3. ASSUME NEW d \in DeploySlot
      PROVE  /\ deploys'[d] \in Deployment /\ DeploymentBound(deploys'[d], Stored)
  <2>1. deploys[d] \in Deployment /\ DeploymentBound(deploys[d], Stored)
    BY DEF InsightInv
  <2>2. deploys'[d] = [deploys[d] EXCEPT !.mine = FALSE]
    BY DEF FactoryLost
  <2>. QED BY <2>1, <2>2 DEF Deployment, DeploymentBound
<1>4. deploys' \in [DeploySlot -> Deployment]
  BY <1>3 DEF FactoryLost
<1>5. BoundTokensExist'
  BY DEF FactoryLost, BoundTokensExist, InsightInv
<1>. QED BY <1>1, <1>2, <1>3, <1>4, <1>5 DEF InsightInv, AllBound, Bound, IsInline, DeploymentBound

\* What does not touch draft, deployments and stores.
LEMMA InsightsUntouched ==
  ASSUME InsightInv, UNCHANGED <<wizard, deploys, insights, ruleSets>>
  PROVE  InsightInv'
BY DEF InsightInv, AllBound, Bound, IsInline, DeploymentBound, BoundTokensExist, Stored

\* No step of any studio binds a stored insight to a token that is not there.
LEMMA InsightInvNext == InsightInv /\ [Next]_vars => InsightInv'
<1>. SUFFICES ASSUME InsightInv, [Next]_vars PROVE InsightInv'
  OBVIOUS
<1>1. CASE Insights
  <2>1. CASE FactoryClicks
    BY <2>1, FactoryClicksKeep
  <2>2. CASE EnterFactory \/ ExitFactory
    BY <2>2, FactoryLostKeeps DEF EnterFactory, ExitFactory
  <2>3. CASE InsightsArrive
    BY <2>3, InsightsUntouched DEF InsightsArrive
  <2>4. CASE \E d \in DeploySlot : DeployStep(d)
    BY <2>4, DeployStepKeeps
  <2>. QED BY <1>1, <2>1, <2>2, <2>3, <2>4 DEF Insights, InsightNext
<1>2. CASE Calculations \/ Fields \/ Queues \/ Masters \/ Runtime \/ Notifications \/ UNCHANGED vars
  BY <1>2, InsightsUntouched
     DEF Calculations, Fields, Queues, Masters, Runtime, Notifications, vars, insightVars
<1>. QED BY <1>1, <1>2 DEF Next

\* Every token a stored insight names is stored, whatever fails, is refused or is
\* given up between the requests of its deployment.
THEOREM TokensBound == Safety => []BoundTokensExist
<1>1. Init => InsightInv
  BY InsightInvInit DEF Init
<1>2. InsightInv => BoundTokensExist
  BY DEF InsightInv
<1>. QED BY <1>1, <1>2, InsightInvNext, PTL DEF Safety

(***************************************************************************)
(* Insights: types                                                         *)
(***************************************************************************)
Insight == [code : InsightCode, tokens : SUBSET (Token \cup {Nameless})]

\* What the stores of the factory hold, and where it comes from: a draft with a name has
\* a code, and so does every deployment on its way.
FactoryTypes ==
  /\ insights \subseteq Insight /\ ruleSets \subseteq Token
  /\ insightList \in QueryOf(SUBSET InsightCode)
  /\ wizard.name # Nameless => wizard.code # Nameless
  /\ \A d \in DeploySlot : InFlight(d) => deploys[d].code # Nameless

\* The types of the factory, from the two invariants.
LEMMA FactoryTypesSuffice == FactoryTypes /\ InsightInv => InsightTypeOK
BY DEF FactoryTypes, InsightInv, InsightTypeOK, Insight, QueryOf

\* The factory starts empty.
LEMMA FactoryTypesInit == InsightInit => FactoryTypes
BY QueryKinds DEF InsightInit, FactoryTypes, BlankWizard, NoDeployment, InFlight, QueryOf, Unasked

\* The codes that are stored are codes.
LEMMA CodesAreCodes == ASSUME FactoryTypes PROVE StoredCodes \in SUBSET InsightCode
BY DEF FactoryTypes, StoredCodes, Insight
\* The same after a step.
LEMMA CodesAreCodesAfter == ASSUME insights' \subseteq Insight PROVE StoredCodes' \in SUBSET InsightCode
BY DEF StoredCodes, Insight

\* A click in the wizard that changes the draft alone.
LEMMA RewriteTyped ==
  ASSUME FactoryTypes, NEW w, Rewrite(w), w.name # Nameless => w.code # Nameless
  PROVE  FactoryTypes'
BY DEF FactoryTypes, Rewrite, InFlight

\* What users do in the wizard keeps the types.
LEMMA FactoryClicksTyped ==
  ASSUME FactoryTypes, InsightInv, FactoryClicks
  PROVE  FactoryTypes'
<1>0. wizard \in Wizard /\ (wizard.name # Nameless => wizard.code # Nameless)
  BY DEF InsightInv, FactoryTypes
<1>1. CASE NewInsight \/ CancelWizard
  <2>1. [BlankWizard EXCEPT !.creating = TRUE].name = Nameless /\ BlankWizard.name = Nameless
    BY DEF BlankWizard
  <2>. QED BY <1>1, <2>1, RewriteTyped DEF NewInsight, CancelWizard
<1>2. CASE EditInsight \/ NextStep \/ PreviousStep \/ \E c \in InsightCode : SelectInsight(c)
  BY <1>0, <1>2, RewriteTyped DEF EditInsight, NextStep, PreviousStep, SelectInsight, Wizard
<1>3. ASSUME NEW n \in InsightName, NameInsight(n) PROVE FactoryTypes'
  <2>1. CodeOf[n] # Nameless
    BY InsightAssumption
  <2>. QED BY <1>0, <1>3, <2>1, RewriteTyped DEF NameInsight, Wizard
<1>4. ASSUME NEW tpl \in PREBUILT_TEMPLATES, ApplyTemplate(tpl) PROVE FactoryTypes'
  <2>1. CodeOf[tpl.name] # Nameless
    BY InsightAssumption DEF PREBUILT_TEMPLATES
  <2> DEFINE v == [wizard EXCEPT !.name = tpl.name, !.code = CodeOf[tpl.name]]
             w == [v EXCEPT !.mode = tpl.outputMode, !.creating = TRUE, !.step = 1]
  <2>2. w.code = CodeOf[tpl.name]
    BY <1>0 DEF Wizard
  <2>3. Rewrite(w)
    BY <1>0, <1>4 DEF ApplyTemplate, Wizard
  <2> HIDE DEF w
  <2>. QED BY <2>1, <2>2, <2>3, RewriteTyped
<1>5. ASSUME NEW s, NEW m, Rewrite([wizard EXCEPT !.steps = s]) \/ Rewrite([wizard EXCEPT !.mode = m])
      PROVE  FactoryTypes'
  BY <1>0, <1>5, RewriteTyped DEF Wizard
<1>6. CASE \E m \in OutputMode : ChooseOutput(m)
  BY <1>5, <1>6 DEF ChooseOutput
<1>7. CASE \E k \in StepKind : AddAnalysisStep(k)
  BY <1>5, <1>7 DEF AddAnalysisStep
<1>8. ASSUME NEW i, RemoveAnalysisStep(i) \/ \E t : ReferTo(i, t) PROVE FactoryTypes'
  BY <1>5, <1>8 DEF RemoveAnalysisStep, ReferTo
<1>9. ASSUME NEW i, NEW n, BuildRule(i, n) \/ BuildCalculation(i, n) PROVE FactoryTypes'
  <2> DEFINE v == [wizard EXCEPT !.steps[i].name = n]
             w == [wizard EXCEPT !.steps[i].name = n, !.steps[i].token = TokenOf[n]]
  <2>1. w.name = wizard.name /\ w.code = wizard.code
    BY <1>0 DEF Wizard
  <2>2. Rewrite(w)
    BY <1>9 DEF BuildRule, BuildCalculation
  <2> HIDE DEF w
  <2>. QED BY <1>0, <2>1, <2>2, RewriteTyped
<1>10. CASE DeployInsight
  <2>1. wizard.code # Nameless /\ UNCHANGED <<wizard, insights, ruleSets, insightList>>
    BY <1>0, <1>10 DEF DeployInsight
  <2>2. PICK d \in DeploySlot : deploys' = [deploys EXCEPT ![d] =
          [st |-> "sent", mine |-> TRUE, code |-> wizard.code, mode |-> wizard.mode,
           steps |-> wizard.steps, todo |-> Len(wizard.steps)]]
    BY <1>10 DEF DeployInsight, DeploySlot
  <2>3. deploys \in [DeploySlot -> Deployment]
    BY DEF InsightInv
  <2>. QED BY <2>1, <2>2, <2>3 DEF FactoryTypes, InFlight
<1>. QED BY <1>1, <1>2, <1>3, <1>4, <1>6, <1>7, <1>8, <1>9, <1>10 DEF FactoryClicks

\* A step of a deployment changes its own record only, and never its code.
LEMMA DeployStepTyped ==
  ASSUME FactoryTypes, InsightInv, NEW d \in DeploySlot, DeployStep(d)
  PROVE  FactoryTypes'
<1>0. /\ wizard \in Wizard /\ (wizard.name # Nameless => wizard.code # Nameless)
      /\ deploys[d] \in Deployment /\ InFlight(d) /\ deploys[d].code \in InsightCode
      /\ deploys \in [DeploySlot -> Deployment]
  BY DEF InsightInv, FactoryTypes, DeployStep, SkipStep, RuleSaved, RuleNotSaved, CalculationUnread, InsightUnread,
         InsightStored, InsightNotStored, Saving, Posting, Deployment
<1>1. wizard' \in {wizard, BlankWizard}
  BY DEF DeployStep, SkipStep, RuleSaved, RuleNotSaved, RuleRefused, Refused, CalculationUnread, InsightUnread,
         NotReadable, InsightStored, InsightNotStored
<1>2. wizard'.name # Nameless => wizard'.code # Nameless
  BY <1>0, <1>1 DEF BlankWizard
<1>3. \A e \in DeploySlot : InFlight(e)' => deploys'[e].code # Nameless
  <2>1. \/ deploys' = [deploys EXCEPT ![d].todo = @ - 1]
        \/ \E st \in {"done", "failed", "unread"} : deploys' = [deploys EXCEPT ![d].st = st]
    BY DEF DeployStep, SkipStep, RuleSaved, RuleNotSaved, RuleRefused, Refused, CalculationUnread, InsightUnread,
         NotReadable, InsightStored, InsightNotStored, Outcome
  <2>2. ASSUME NEW e \in DeploySlot PROVE deploys'[e].code = deploys[e].code /\ (InFlight(e)' => InFlight(e))
    <3>1. CASE e # d
      <4>1. deploys'[e] = deploys[e]
        BY <1>0, <2>1, <3>1
      <4>. QED BY <4>1 DEF InFlight
    <3>2. CASE e = d
      <4>1. deploys'[d].code = deploys[d].code
        BY <1>0, <2>1 DEF Deployment
      <4>. QED BY <1>0, <3>2, <4>1
    <3>. QED BY <3>1, <3>2
  <2>. QED BY <2>2 DEF FactoryTypes
<1>4. ruleSets' \subseteq Token
  <2>1. CASE ruleSets' = ruleSets
    BY <2>1 DEF FactoryTypes
  <2>2. CASE Saving(d) /\ ruleSets' = ruleSets \cup {ToSave(d).token}
    <3>1. Bound(ToSave(d), Stored) /\ ToSave(d).token # Nameless
      BY <2>2, AtStep DEF Saving, IsInline, Bound
    <3>2. ToSave(d) \in AnalysisStep
      <4>1. /\ DeploymentBound(deploys[d], Stored) /\ deploys[d].todo \in 0 .. MaxSteps
            /\ deploys[d].steps \in Seq(AnalysisStep) /\ deploys[d].todo > 0
        BY <1>0, <2>2 DEF InsightInv, Deployment, Saving
      <4>2. Len(deploys[d].steps) - deploys[d].todo + 1 \in DOMAIN deploys[d].steps
        BY <1>0, <4>1, InsightAssumption DEF DeploymentBound, InFlight
      <4>. QED BY <4>1, <4>2 DEF ToSave
    <3>. QED BY <2>2, <3>1, <3>2 DEF AnalysisStep, FactoryTypes
  <2>. QED BY <2>1, <2>2 DEF DeployStep, SkipStep, RuleSaved, RuleNotSaved, CalculationUnread, InsightUnread,
         InsightStored, InsightNotStored
<1>5. insights' \subseteq Insight
  <2>1. InsightOf(d) \in Insight
    <3>1. deploys[d].steps \in Seq(AnalysisStep)
      BY <1>0 DEF Deployment
    <3>2. {deploys[d].steps[i].token : i \in DOMAIN deploys[d].steps} \subseteq Token \cup {Nameless}
      <4>1. \A i \in DOMAIN deploys[d].steps : deploys[d].steps[i].token \in Token \cup {Nameless}
        <5>1. \A i \in DOMAIN deploys[d].steps : deploys[d].steps[i] \in AnalysisStep
          BY <3>1
        <5>2. \A s \in AnalysisStep : s.token \in Token \cup {Nameless}
          BY DEF AnalysisStep
        <5>. QED BY <5>1, <5>2
      <4>. QED BY <4>1
    <3>. QED BY <1>0, <3>2 DEF InsightOf, Insight
  <2>2. insights' \in {insights, insights \cup {InsightOf(d)}}
    BY DEF DeployStep, SkipStep, RuleSaved, RuleNotSaved, CalculationUnread, InsightUnread,
         InsightStored, InsightNotStored
  <2>. QED BY <2>1, <2>2 DEF FactoryTypes
<1>6. insightList' \in QueryOf(SUBSET InsightCode)
  <2>1. insightList \in QueryOf(SUBSET InsightCode) /\ StoredCodes' \in SUBSET InsightCode
    BY <1>5, CodesAreCodesAfter DEF FactoryTypes
  <2>2. insightList' \in {insightList, Refreshed(insightList, StoredCodes'), Missed(insightList)}
    BY DEF DeployStep, SkipStep, RuleSaved, RuleNotSaved, RuleRefused, Refused, CalculationUnread, InsightUnread,
         NotReadable, InsightStored, InsightNotStored
  <2>. QED BY <2>1, <2>2, QueryKinds
<1>. QED BY <1>2, <1>3, <1>4, <1>5, <1>6 DEF FactoryTypes

\* The query is answered, the studio comes and goes.
LEMMA FactoryComesAndGoes ==
  ASSUME FactoryTypes, InsightInv, InsightsArrive \/ EnterFactory \/ ExitFactory
  PROVE  FactoryTypes'
<1>0. /\ insightList \in QueryOf(SUBSET InsightCode) /\ StoredCodes \in SUBSET InsightCode
      /\ deploys \in [DeploySlot -> Deployment]
  BY CodesAreCodes DEF FactoryTypes, InsightInv
<1>1. CASE InsightsArrive
  <2>1. insightList' \in QueryOf(SUBSET InsightCode)
    BY <1>0, <1>1, QueryKinds DEF InsightsArrive
  <2>. QED BY <1>1, <2>1 DEF InsightsArrive, FactoryTypes, InFlight
<1>2. CASE EnterFactory \/ ExitFactory
  <2>1. insightList' \in QueryOf(SUBSET InsightCode)
    BY <1>0, <1>2, QueryKinds DEF EnterFactory, ExitFactory
  <2>2. wizard'.name = Nameless
    BY <1>2 DEF EnterFactory, ExitFactory, FactoryLost, BlankWizard
  <2>3. ASSUME NEW d \in DeploySlot PROVE deploys'[d].st = deploys[d].st /\ deploys'[d].code = deploys[d].code
    <3>1. deploys'[d] = [deploys[d] EXCEPT !.mine = FALSE]
      BY <1>2 DEF EnterFactory, ExitFactory, FactoryLost
    <3>. QED BY <1>0, <3>1 DEF Deployment
  <2>4. UNCHANGED <<insights, ruleSets>>
    BY <1>2 DEF EnterFactory, ExitFactory, FactoryLost
  <2>. QED BY <2>1, <2>2, <2>3, <2>4 DEF FactoryTypes, InFlight
<1>. QED BY <1>1, <1>2

\* Every step keeps the types of the factory.
LEMMA FactoryTypesNext == FactoryTypes /\ InsightInv /\ [Next]_vars => FactoryTypes'
<1>. SUFFICES ASSUME FactoryTypes, InsightInv, [Next]_vars PROVE FactoryTypes'
  OBVIOUS
<1>1. CASE Insights
  BY <1>1, FactoryClicksTyped, DeployStepTyped, FactoryComesAndGoes DEF Insights, InsightNext
<1>2. CASE UNCHANGED insightVars
  BY <1>2 DEF insightVars, FactoryTypes, InFlight
<1>. QED BY <1>1, <1>2 DEF Next, Calculations, Fields, Queues, Masters, Runtime, Notifications, vars

(***************************************************************************)
(* Pages of fields                                                         *)
(***************************************************************************)
\* The window of page numbers is within the pages, without a double, and has the
\* current page.
LEMMA WindowFits ==
  ASSUME NEW page \in Nat, NEW total \in Nat
  PROVE  /\ WindowSize(total) \in Nat /\ WindowSize(total) <= total
         /\ \A i \in 0 .. WindowSize(total) - 1 : PageNumber(i, page, total) \in 0 .. total - 1
         /\ \A i, j \in 0 .. WindowSize(total) - 1 :
              i # j => PageNumber(i, page, total) # PageNumber(j, page, total)
         /\ page < total => \E i \in 0 .. WindowSize(total) - 1 : PageNumber(i, page, total) = page
<1> DEFINE w == WindowSize(total)
           s == WindowStart(page, total)
<1>1. w \in Nat /\ w <= total /\ (total > 0 => w > 0)
  BY FieldAssumption DEF WindowSize, Least
<1> HIDE DEF w
<1>2. w \div 2 \in Nat /\ 2 * (w \div 2) <= w
  BY <1>1
<1>3. s = LET start == Least(page - w \div 2, total - w) IN IF start < 0 THEN 0 ELSE start
  BY DEF w, WindowStart
<1>4. s \in Nat /\ s <= total - w
  BY <1>1, <1>2, <1>3 DEF Least
<1>5. page < total => s <= page /\ page - s < w
  BY <1>1, <1>2, <1>3 DEF Least
<1>6. \A i : PageNumber(i, page, total) = s + i
  BY DEF PageNumber
<1> HIDE DEF s
<1>7. page < total => page - s \in 0 .. w - 1 /\ PageNumber(page - s, page, total) = page
  BY <1>1, <1>4, <1>5, <1>6
<1>8. \A i \in 0 .. w - 1 : s + i \in 0 .. total - 1
  BY <1>1, <1>4
<1>. QED BY <1>1, <1>4, <1>6, <1>7, <1>8 DEF w

\* The answers of a page have a total that is a number.
Sized(e) == {"data", "old"} \subseteq DOMAIN e /\ e.data.total \in Nat /\ e.old.total \in Nat

\* The key of a table names a page and a size.
Paged(g) ==
  /\ "key" \in DOMAIN g /\ {"page", "size"} \subseteq DOMAIN g.key
  /\ g.key.page \in Nat /\ g.key.size \in PageSizes

\* What keeps OfferedPagesExist: the key on the screen, and the totals met so far.
FieldInv ==
  /\ Paged(grid)
  /\ DOMAIN registry \subseteq Field
  /\ \A k \in DOMAIN pages : Sized(pages[k])

\* The window is made of a page and a total that are numbers.
LEMMA PagesAreOffered ==
  ASSUME FieldInv
  PROVE  /\ TotalPages \in Nat /\ grid.key.page \in Nat
         /\ \A i \in Window : Offered[i] \in Nat
         /\ OfferedPagesExist
<1>1. grid.key.page \in Nat /\ grid.key.size \in Nat \ {0}
  BY FieldAssumption DEF FieldInv, Paged
<1>2. Shown.total \in Nat
  BY DEF Shown, Nothing, FieldInv, Sized
<1>3. TotalPages \in Nat
  BY <1>1, <1>2 DEF TotalPages
<1>4. \A i \in Window : Offered[i] = PageNumber(i, grid.key.page, TotalPages)
  BY DEF Offered
<1>5. /\ \A i \in Window : Offered[i] \in 0 .. TotalPages - 1
      /\ \A i, j \in Window : i # j => Offered[i] # Offered[j]
      /\ grid.key.page < TotalPages => \E i \in Window : Offered[i] = grid.key.page
  <2> DEFINE p == grid.key.page
             n == TotalPages
  <2>1. p \in Nat /\ n \in Nat
    BY <1>1, <1>3
  <2>2. Window = 0 .. WindowSize(n) - 1 /\ \A i \in Window : Offered[i] = PageNumber(i, p, n)
    BY <1>4 DEF Window
  <2> HIDE DEF p, n
  <2>3. /\ \A i \in Window : Offered[i] \in 0 .. n - 1
        /\ \A i, j \in Window : i # j => Offered[i] # Offered[j]
        /\ p < n => \E i \in Window : Offered[i] = p
    <3>1. /\ \A i \in 0 .. WindowSize(n) - 1 : PageNumber(i, p, n) \in 0 .. n - 1
          /\ \A i, j \in 0 .. WindowSize(n) - 1 : i # j => PageNumber(i, p, n) # PageNumber(j, p, n)
          /\ p < n => \E i \in 0 .. WindowSize(n) - 1 : PageNumber(i, p, n) = p
      BY <2>1, WindowFits
    <3>2. /\ \A i \in Window : PageNumber(i, p, n) \in 0 .. n - 1
          /\ \A i, j \in Window : i # j => PageNumber(i, p, n) # PageNumber(j, p, n)
          /\ p < n => \E i \in Window : PageNumber(i, p, n) = p
      BY <2>2, <3>1, Zenon
    <3>3. \A i \in Window : Offered[i] \in 0 .. n - 1
      BY <2>2, <3>2, Zenon
    <3>4. ASSUME NEW i \in Window, NEW j \in Window, i # j PROVE Offered[i] # Offered[j]
      <4>1. PageNumber(i, p, n) # PageNumber(j, p, n)
        BY <3>2, <3>4
      <4>. QED BY <2>2, <4>1, Zenon
    <3>5. p < n => \E i \in Window : Offered[i] = p
      BY <2>2, <3>2, Zenon
    <3>. QED BY <3>3, <3>4, <3>5
  <2>. QED BY <2>3 DEF p, n
<1>6. \A i \in Window : Offered[i] \in Nat
  BY <1>3, <1>5
<1>. QED BY <1>1, <1>3, <1>5, <1>6 DEF OfferedPagesExist

\* What the server would answer has such a total, now and after the step.
LEMMA SearchIsSized ==
  ASSUME DOMAIN registry \subseteq Field, NEW k
  PROVE  Search(k).total \in Nat
<1>1. Found(k) \subseteq Field
  BY DEF Found
<1>2. Cardinality(Found(k)) \in Nat
  BY <1>1, FieldAssumption, FS_Subset, FS_CardinalityType
<1>. QED BY <1>2 DEF Search

\* The same after a step.
LEMMA SearchIsSizedAfter ==
  ASSUME DOMAIN registry' \subseteq Field, NEW k
  PROVE  Search(k)'.total \in Nat
<1>1. Found(k)' \subseteq Field
  BY DEF Found
<1>2. Cardinality(Found(k)') \in Nat
  BY <1>1, FieldAssumption, FS_Subset, FS_CardinalityType
<1>. QED BY <1>2 DEF Search

(***************************************************************************)
(* Fields of the registry                                                  *)
(***************************************************************************)
\* Rows, fields and requests that have no bank name but their own.
OwnRow == {r \in FieldRow : r.name \in {r.field, NoField}}
OwnAnswer == [rows : SUBSET OwnRow, total : Nat]
OwnPage == [data : OwnAnswer, asked : BOOLEAN, old : OwnAnswer, stale : BOOLEAN, gap : BOOLEAN]
PageTable == UNION {[K -> OwnPage] : K \in SUBSET Key}
OwnFields == {r \in UNION {[F -> StoredField] : F \in SUBSET Field} : \A f \in DOMAIN r : r[f].name \in {f, NoField}}
OwnPatch == {x \in Patch : x.name \in {x.field, NoField}}
OwnDrawer == {d \in Drawer : d = Closed \/ (d.field \in Field /\ d.name \in {d.field, NoField})}
OwnGrid == {g \in Grid : g.drawer \in OwnDrawer}

\* Names stay with the fields they were drawn up for, from the page to the drawer and
\* from the drawer to the request.
TableTypes ==
  /\ grid \in OwnGrid /\ registry \in OwnFields /\ pages \in PageTable /\ patches \subseteq OwnPatch
  /\ drafting \in [create : Draft, translate : Draft]

\* Without a gap, the answer on its way brings what the registry has, and so does the
\* page itself, if it is fresh or on the screen and nothing is on its way.
TrueEntry(e, now, shown) ==
  /\ e.asked /\ ~e.gap => e.old = now
  /\ ~e.asked /\ ~e.gap /\ (shown \/ ~e.stale) => e.data = now

PageShown(k) == Here("fields") /\ grid.key = k

\* Without a gap, the page shown is what the server has, or is going to be.
TableInv ==
  /\ TableTypes
  /\ Here("fields") => grid.key \in DOMAIN pages
  /\ \A k \in DOMAIN pages : TrueEntry(pages[k], Search(k), PageShown(k))

\* What the types of the table give: own names, and pages that can be counted.
LEMMA TableTypesSuffice == TableTypes => FieldTypeOK /\ NamesAreOwn /\ FieldInv
<1>. SUFFICES ASSUME TableTypes PROVE FieldTypeOK /\ NamesAreOwn /\ FieldInv
  OBVIOUS
<1>1. OwnRow \subseteq FieldRow
  BY DEF OwnRow
<1>2. OwnAnswer \subseteq Answer
  BY <1>1 DEF OwnAnswer, Answer
<1>3. OwnPage \subseteq Entry
  BY <1>2 DEF OwnPage, Entry
<1>4. DOMAIN pages \subseteq Key /\ pages \in [DOMAIN pages -> OwnPage]
  BY DEF TableTypes, PageTable
<1>5. pages \in [DOMAIN pages -> Entry]
  BY <1>3, <1>4
<1>6. /\ DOMAIN registry \subseteq Field /\ registry \in [DOMAIN registry -> StoredField]
      /\ NamesAreOwn
  BY DEF TableTypes, OwnFields, NamesAreOwn
<1>7. grid \in Grid /\ grid.key \in Key
  BY DEF TableTypes, OwnGrid, Grid
<1>8. Paged(grid)
  <2>1. "key" \in DOMAIN grid /\ {"page", "size"} \subseteq DOMAIN grid.key
    BY <1>7 DEF Grid, Key
  <2>. QED BY <1>7, <2>1 DEF Paged, Key
<1>9. \A e \in OwnPage : Sized(e)
  BY DEF OwnPage, OwnAnswer, Sized
<1>. QED BY <1>4, <1>5, <1>6, <1>7, <1>8, <1>9 DEF TableTypes, FieldTypeOK, OwnPatch, FieldInv

\* What the server answers has own names, before and after a step.
LEMMA FoundIsOwn ==
  ASSUME registry \in OwnFields, NEW k
  PROVE  Search(k) \in OwnAnswer
<1>1. /\ DOMAIN registry \subseteq Field
      /\ \A f \in DOMAIN registry : registry[f] \in StoredField /\ registry[f].name \in {f, NoField}
  BY DEF OwnFields
<1>2. Search(k).total \in Nat
  BY <1>1, SearchIsSized
<1>3. ASSUME NEW f \in DOMAIN registry
      PROVE  [field |-> f, pref |-> registry[f].pref, name |-> registry[f].name] \in OwnRow
  BY <1>1 DEF OwnRow, FieldRow, StoredField
<1>4. Listed(k) \subseteq DOMAIN registry
  BY DEF Listed, Found
<1>5. Search(k).rows \subseteq OwnRow
  BY <1>3, <1>4 DEF Search
<1>6. Search(k) = [rows |-> Search(k).rows, total |-> Search(k).total]
  BY DEF Search
<1>. QED BY <1>2, <1>5, <1>6 DEF OwnAnswer

\* The same after a step.
LEMMA FoundIsOwnAfter ==
  ASSUME registry' \in OwnFields, NEW k
  PROVE  Search(k)' \in OwnAnswer
<1>1. /\ DOMAIN registry' \subseteq Field
      /\ \A f \in DOMAIN registry' : registry'[f] \in StoredField /\ registry'[f].name \in {f, NoField}
  BY DEF OwnFields
<1>2. Search(k)'.total \in Nat
  BY <1>1, SearchIsSizedAfter
<1>3. ASSUME NEW f \in DOMAIN registry'
      PROVE  [field |-> f, pref |-> registry'[f].pref, name |-> registry'[f].name] \in OwnRow
  BY <1>1 DEF OwnRow, FieldRow, StoredField
<1>4. Listed(k)' \subseteq DOMAIN registry'
  BY DEF Listed, Found
<1>5. Search(k)'.rows \subseteq OwnRow
  BY <1>3, <1>4 DEF Search
<1>6. Search(k)' = [rows |-> Search(k)'.rows, total |-> Search(k)'.total]
  BY DEF Search
<1>. QED BY <1>2, <1>5, <1>6 DEF OwnAnswer

\* A registry nobody touched has the same answer.
LEMMA SearchStays ==
  ASSUME UNCHANGED registry, NEW k
  PROVE  Search(k)' = Search(k)
<1>1. Found(k)' = Found(k)
  BY DEF Found
<1>2. Listed(k)' = Listed(k)
  BY <1>1 DEF Listed, Place
<1>. QED BY <1>1, <1>2 DEF Search

\* The empty answer has no name but its own.
LEMMA NothingIsOwn == Nothing \in OwnAnswer
BY DEF Nothing, OwnAnswer

\* The table as it opens has no draft, and the first page.
LEMMA BlankTableIsOwn == BlankGrid \in OwnGrid /\ FirstKey \in Key /\ BlankGrid.key = FirstKey
<1>1. FirstKey \in Key
  BY FieldAssumption DEF FirstKey, Key
<1>2. Closed \in OwnDrawer
  BY DEF Closed, OwnDrawer, Drawer, Pref
<1>3. BlankGrid \in Grid /\ BlankGrid.drawer = Closed /\ BlankGrid.key = FirstKey
  BY <1>1, <1>2 DEF BlankGrid, Grid, OwnDrawer, Localized
<1>. QED BY <1>1, <1>2, <1>3 DEF OwnGrid

\* Nobody has looked at the table at first.
LEMMA TableInvInit == FieldInit /\ StudioInit => TableInv
<1>. SUFFICES ASSUME FieldInit, StudioInit PROVE TableInv
  OBVIOUS
<1>1. grid \in OwnGrid
  BY BlankTableIsOwn DEF FieldInit
<1>2. pages \in PageTable /\ DOMAIN pages = {}
  <2>1. pages \in [{} -> OwnPage]
    BY DEF FieldInit
  <2>. QED BY <2>1 DEF PageTable
<1>3. registry \in OwnFields
  <2> DEFINE row(f) == [NewlyStored("none") EXCEPT !.pref = IF f \in Renamed THEN "CLIENT" ELSE @,
                                                   !.name = IF f \in Renamed THEN f ELSE @]
  <2>1. ASSUME NEW f \in Registered PROVE row(f) \in StoredField /\ row(f).name \in {f, NoField}
    <3>1. CASE f \in Renamed
      <4>1. row(f) = [NewlyStored("none") EXCEPT !.pref = "CLIENT", !.name = f] /\ f \in Field
        BY <3>1, FieldAssumption
      <4> HIDE DEF row
      <4>. QED BY <4>1 DEF NewlyStored, StoredField, Pref, Localized
    <3>2. CASE f \notin Renamed
      <4>1. row(f) = NewlyStored("none")
        BY <3>2 DEF NewlyStored
      <4> HIDE DEF row
      <4>. QED BY <4>1 DEF NewlyStored, StoredField, Pref, Localized
    <3>. QED BY <3>1, <3>2
  <2>2. registry = [f \in Registered |-> row(f)]
    BY DEF FieldInit
  <2> HIDE DEF row
  <2>3. Registered \in SUBSET Field
    BY FieldAssumption
  <2>. QED BY <2>1, <2>2, <2>3 DEF OwnFields
<1>4. patches \subseteq OwnPatch /\ drafting \in [create : Draft, translate : Draft]
  BY DEF FieldInit, NoDraft, Draft, Localized
<1>5. ~Here("fields")
  BY DEF StudioInit, Here
<1>. QED BY <1>1, <1>2, <1>3, <1>4, <1>5 DEF TableInv, TableTypes

\* The pages, with the page of one key as it is when the table shows it.
PagesWith(key, e) == [k \in DOMAIN pages \cup {key} |-> IF k = key THEN e ELSE pages[k]]

\* The table turns to a key, or comes on the screen with it.
LEMMA MountedPages ==
  ASSUME pages \in PageTable, registry \in OwnFields, UNCHANGED registry, NEW key \in Key,
         \A k \in DOMAIN pages : TrueEntry(pages[k], Search(k), FALSE),
         NEW e \in Mounted(key, Search(key)),
         pages' = PagesWith(key, e)
  PROVE  /\ pages' \in PageTable /\ key \in DOMAIN pages'
         /\ \A k \in DOMAIN pages' : TrueEntry(pages'[k], Search(k)', k = key)
<1>1. DOMAIN pages \subseteq Key /\ \A k \in DOMAIN pages : pages[k] \in OwnPage
  BY DEF PageTable
<1>2. Search(key) \in OwnAnswer /\ \A k : Search(k)' = Search(k)
  BY FoundIsOwn, SearchStays
<1>3. e \in OwnPage /\ TrueEntry(e, Search(key), TRUE)
  <2>1. CASE key \notin DOMAIN pages
    <3>1. e = [data |-> Nothing, asked |-> TRUE, old |-> Search(key), stale |-> FALSE, gap |-> FALSE]
      BY <2>1 DEF Mounted
    <3>. QED BY <1>2, <3>1, NothingIsOwn DEF OwnPage, TrueEntry
  <2>2. CASE key \in DOMAIN pages /\ pages[key].asked
    <3>1. e = pages[key]
      BY <2>2 DEF Mounted
    <3>. QED BY <1>1, <2>2, <3>1 DEF TrueEntry
  <2>3. CASE key \in DOMAIN pages /\ ~pages[key].asked
    <3>1. \/ e = [pages[key] EXCEPT !.asked = TRUE, !.old = Search(key), !.stale = FALSE, !.gap = FALSE]
          \/ e = pages[key] /\ ~pages[key].stale
      BY <2>3 DEF Mounted
    <3>2. CASE e = [pages[key] EXCEPT !.asked = TRUE, !.old = Search(key), !.stale = FALSE, !.gap = FALSE]
      BY <1>1, <1>2, <2>3, <3>2 DEF OwnPage, TrueEntry
    <3>3. CASE e = pages[key] /\ ~pages[key].stale
      BY <1>1, <2>3, <3>3 DEF TrueEntry
    <3>. QED BY <3>1, <3>2, <3>3
  <2>. QED BY <2>1, <2>2, <2>3
<1>4. pages' \in [DOMAIN pages \cup {key} -> OwnPage] /\ DOMAIN pages \cup {key} \in SUBSET Key
  BY <1>1, <1>3 DEF PagesWith
<1>5. ASSUME NEW k \in DOMAIN pages' PROVE TrueEntry(pages'[k], Search(k)', k = key)
  <2>1. CASE k = key
    BY <1>2, <1>3, <2>1 DEF PagesWith
  <2>2. CASE k # key
    BY <1>2, <2>2 DEF TrueEntry, PagesWith
  <2>. QED BY <2>1, <2>2
<1>. QED BY <1>4, <1>5 DEF PageTable

\* A page that is on the screen is no less true once it is off.
LEMMA EntriesAreTrue ==
  ASSUME TableInv
  PROVE  \A k \in DOMAIN pages : TrueEntry(pages[k], Search(k), FALSE)
BY DEF TableInv, TrueEntry

\* The table shows another page: it was fresh, or it is asked for again.
LEMMA TableTurns ==
  ASSUME TableInv, Here("fields"), UNCHANGED studio, NEW g \in OwnGrid, Turn(g)
  PROVE  TableInv'
<1>1. grid' = g /\ UNCHANGED <<registry, patches, drafting>> /\ g.key \in Key
  BY DEF Turn, OwnGrid, Grid
<1>2. Here("fields")' /\ \A k : Search(k)' = Search(k)
  BY <1>1, SearchStays DEF Here
<1>3. CASE g.key = grid.key
  <2>1. pages' = pages
    BY <1>3 DEF Turn
  <2>2. \A k : PageShown(k)' <=> PageShown(k)
    BY <1>1, <1>2, <1>3 DEF PageShown, Here
  <2>3. ASSUME NEW k \in DOMAIN pages' PROVE TrueEntry(pages'[k], Search(k)', PageShown(k)')
    BY <1>2, <2>1, <2>2 DEF TableInv, TrueEntry
  <2>. QED BY <1>1, <1>3, <2>1, <2>3 DEF TableInv, TableTypes
<1>4. CASE g.key # grid.key
  <2>1. PICK e \in Mounted(g.key, Search(g.key)) : pages' = PagesWith(g.key, e)
    BY <1>4 DEF Turn, PagesWith
  <2>2. /\ pages' \in PageTable /\ g.key \in DOMAIN pages'
        /\ \A k \in DOMAIN pages' : TrueEntry(pages'[k], Search(k)', k = g.key)
    <3>1. pages \in PageTable /\ registry \in OwnFields /\ UNCHANGED registry /\ g.key \in Key
      BY <1>1 DEF TableInv, TableTypes
    <3>2. \A k \in DOMAIN pages : TrueEntry(pages[k], Search(k), FALSE)
      BY EntriesAreTrue
    <3>. QED BY <2>1, <3>1, <3>2, MountedPages
  <2>3. \A k : PageShown(k)' <=> k = g.key
    BY <1>1, <1>2 DEF PageShown
  <2>4. ASSUME NEW k \in DOMAIN pages' PROVE TrueEntry(pages'[k], Search(k)', PageShown(k)')
    BY <2>2, <2>3 DEF TrueEntry
  <2>. QED BY <1>1, <2>2, <2>4 DEF TableInv, TableTypes
<1>. QED BY <1>3, <1>4

\* Requests and drawers, while pages and registry stay as they are.
LEMMA TableStays ==
  ASSUME TableInv, UNCHANGED <<registry, pages>>, grid' \in OwnGrid, patches' \subseteq OwnPatch,
         drafting' \in [create : Draft, translate : Draft],
         Here("fields")' => Here("fields") /\ grid'.key = grid.key
  PROVE  TableInv'
<1>1. TableTypes'
  BY DEF TableInv, TableTypes
<1>2. Here("fields")' => grid'.key \in DOMAIN pages'
  BY DEF TableInv
<1>3. ASSUME NEW k \in DOMAIN pages' PROVE TrueEntry(pages'[k], Search(k)', PageShown(k)')
  <2>1. PageShown(k)' => PageShown(k)
    BY DEF PageShown
  <2>2. Search(k)' = Search(k)
    BY SearchStays
  <2>. QED BY <2>1, <2>2 DEF TableInv, TrueEntry
<1>. QED BY <1>1, <1>2, <1>3 DEF TableInv

\* A row on the screen has its own name.
LEMMA RowsShownAreOwn ==
  ASSUME TableInv
  PROVE  RowsShown \subseteq OwnRow /\ FieldsShown \subseteq Field
<1>1. Shown \in OwnAnswer
  <2>1. CASE grid.key \in DOMAIN pages
    BY <2>1 DEF Shown, TableInv, TableTypes, PageTable, OwnPage
  <2>2. CASE grid.key \notin DOMAIN pages
    BY <2>2, NothingIsOwn DEF Shown
  <2>. QED BY <2>1, <2>2
<1>2. RowsShown \subseteq OwnRow
  BY <1>1 DEF RowsShown, OwnAnswer
<1>. QED BY <1>2 DEF FieldsShown, OwnRow, FieldRow

\* What users do in the table keeps the names, and the pages true.
LEMMA TableClicked ==
  ASSUME TableInv, RegistryClicks \/ RowClicks \/ SearchSettles
  PROVE  TableInv'
<1>0. /\ grid \in Grid /\ grid.drawer \in OwnDrawer /\ grid.key \in Key /\ grid.selected \subseteq Field
      /\ registry \in OwnFields /\ patches \subseteq OwnPatch /\ drafting \in [create : Draft, translate : Draft]
  BY DEF TableInv, TableTypes, OwnGrid, Grid
<1>1. ASSUME NEW g \in OwnGrid, View(g) PROVE TableInv'
  BY <1>1, TableTurns DEF View, InRegistry, At
<1>2. CASE Type
  <2>1. [grid EXCEPT !.typed = ~@, !.timer = TRUE] \in OwnGrid
    BY <1>0 DEF OwnGrid, Grid
  <2>. QED BY <1>1, <1>2, <2>1 DEF Type
<1>3. ASSUME NEW key \in Key PROVE [grid EXCEPT !.key = key] \in OwnGrid
  BY <1>0, <1>3 DEF OwnGrid, Grid
<1>4. CASE SearchSettles
  <2> DEFINE g == [grid EXCEPT !.timer = FALSE, !.key.term = grid.typed, !.key.page = 0]
  <2>1. [grid.key EXCEPT !.term = grid.typed, !.page = 0] \in Key
    BY <1>0 DEF Key, Grid
  <2>2. g = [grid EXCEPT !.timer = FALSE, !.key = [grid.key EXCEPT !.term = grid.typed, !.page = 0]]
    BY <1>0 DEF Grid
  <2>3. g \in OwnGrid
    BY <1>0, <2>1, <2>2 DEF OwnGrid, Grid
  <2>4. Here("fields") /\ UNCHANGED studio /\ Turn(g)
    BY <1>4 DEF SearchSettles, studioVars
  <2>. QED BY <2>3, <2>4, TableTurns
<1>5. CASE Filter
  <2> DEFINE c == IF grid.key.chip = "" THEN "CLIENT" ELSE ""
             key == [grid.key EXCEPT !.chip = c, !.page = 0]
  <2>1. key \in Key
    BY <1>0 DEF Key
  <2>2. View([grid EXCEPT !.key = key])
    BY <1>0, <1>5 DEF Filter, Grid
  <2> HIDE DEF key
  <2>. QED BY <1>1, <1>3, <2>1, <2>2
<1>6. CASE SortOther
  <2> DEFINE key == [grid.key EXCEPT !.asc = ~@, !.page = 0]
  <2>1. key \in Key
    BY <1>0 DEF Key
  <2>2. View([grid EXCEPT !.key = key])
    BY <1>0, <1>6 DEF SortOther, Grid
  <2> HIDE DEF key
  <2>. QED BY <1>1, <1>3, <2>1, <2>2
<1>7. ASSUME NEW n \in PageSizes, Resize(n) PROVE TableInv'
  <2> DEFINE key == [grid.key EXCEPT !.size = n, !.page = 0]
  <2>1. key \in Key
    BY <1>0 DEF Key
  <2>2. View([grid EXCEPT !.key = key])
    BY <1>0, <1>7 DEF Resize, Grid
  <2> HIDE DEF key
  <2>. QED BY <1>1, <1>3, <2>1, <2>2
<1>8. ASSUME NEW p, GoTo(p) PROVE TableInv'
  <2> DEFINE key == [grid.key EXCEPT !.page = p]
  <2>1. p \in Nat
    BY <1>8, PagesAreOffered, TableTypesSuffice DEF GoTo, TableInv
  <2>2. key \in Key
    BY <1>0, <2>1 DEF Key
  <2>3. View([grid EXCEPT !.key = key])
    BY <1>0, <1>8 DEF GoTo, Grid
  <2> HIDE DEF key
  <2>. QED BY <1>1, <1>3, <2>2, <2>3
<1>9. ASSUME NEW s \in SUBSET Field, Select(s) PROVE TableInv'
  <2>1. [grid EXCEPT !.selected = s] \in OwnGrid
    BY <1>0 DEF OwnGrid, Grid
  <2>. QED BY <1>1, <1>9, <2>1 DEF Select
<1>10. CASE SelectPage \/ ClearSelection \/ (\E g \in SUBSET Field : SelectGroup(g))
              \/ (\E r \in RowsShown : SelectRow(r))
  <2>1. ASSUME NEW r \in RowsShown, SelectRow(r) PROVE TableInv'
    <3>1. r.field \in Field
      BY RowsShownAreOwn DEF OwnRow, FieldRow
    <3>. QED BY <1>0, <1>9, <2>1, <3>1 DEF SelectRow, Toggled
  <2>2. ASSUME SelectPage PROVE TableInv'
    BY <1>0, <1>9, <2>2, RowsShownAreOwn DEF SelectPage
  <2>3. ASSUME ClearSelection PROVE TableInv'
    BY <1>9, <2>3 DEF ClearSelection
  <2>4. ASSUME NEW g \in SUBSET Field, SelectGroup(g) PROVE TableInv'
    BY <1>0, <1>9, <2>4 DEF SelectGroup, Toggled
  <2>. QED BY <1>10, <2>1, <2>2, <2>3, <2>4
<1>11. ASSUME NEW d \in OwnDrawer PROVE [grid EXCEPT !.drawer = d] \in OwnGrid
  BY <1>0, <1>11 DEF OwnGrid, OwnDrawer, Grid
<1>12. ASSUME NEW r \in RowsShown, OpenDrawer(r) PROVE TableInv'
  <2> DEFINE d == [field |-> r.field, name |-> r.name, pref |-> r.pref]
  <2>1. d \in OwnDrawer
    BY RowsShownAreOwn DEF OwnRow, FieldRow, OwnDrawer, Drawer
  <2>2. View([grid EXCEPT !.drawer = d])
    BY <1>12 DEF OpenDrawer
  <2> HIDE DEF d
  <2>. QED BY <1>1, <1>11, <2>1, <2>2
<1>13. CASE CloseDrawer
  <2>1. Closed \in OwnDrawer
    BY DEF Closed, OwnDrawer, Drawer, Pref
  <2>. QED BY <1>1, <1>11, <1>13, <2>1 DEF CloseDrawer
<1>14. ASSUME NEW p \in Pref, EditDrawer(p) PROVE TableInv'
  <2> DEFINE d == [grid.drawer EXCEPT !.name = grid.drawer.field, !.pref = p]
  <2>1. d \in OwnDrawer
    BY <1>0, <1>14 DEF EditDrawer, OwnDrawer, Drawer
  <2>2. View([grid EXCEPT !.drawer = d])
    BY <1>0, <1>14 DEF EditDrawer, Grid
  <2> HIDE DEF d
  <2>. QED BY <1>1, <1>11, <2>1, <2>2
<1>15. CASE OpenNew
  <2>1. [grid EXCEPT !.new = TRUE] \in OwnGrid
    BY <1>0 DEF OwnGrid, Grid
  <2>. QED BY <1>1, <1>15, <2>1 DEF OpenNew
<1>16. ASSUME UNCHANGED <<registry, pages, studio>>, grid' \in OwnGrid, patches' \subseteq OwnPatch,
              drafting' \in [create : Draft, translate : Draft], grid'.key = grid.key
       PROVE  TableInv'
  BY <1>16, TableStays DEF Here
<1>17. grid \in OwnGrid
  BY <1>0 DEF OwnGrid
<1>18. CASE CloseNew
  <2>1. drafting' \in [create : Draft, translate : Draft]
    BY <1>0, <1>18 DEF CloseNew, Abandoned, Draft, Localized
  <2>2. grid' \in OwnGrid /\ grid'.key = grid.key
    BY <1>0, <1>18 DEF CloseNew, OwnGrid, Grid, Localized
  <2>3. UNCHANGED <<registry, pages, patches, studio>>
    BY <1>18 DEF CloseNew, InRegistry, At
  <2>. QED BY <1>0, <1>16, <2>1, <2>2, <2>3
<1>19. CASE Translate \/ RegisterField
  <2>0. grid.names \in Localized /\ "own" \in Localized
    BY <1>0 DEF Grid, Localized
  <2> DEFINE d(l) == [st |-> "sent", mine |-> TRUE, local |-> l]
  <2>3. \E x \in {d("own"), d(grid.names)} : drafting' \in {[drafting EXCEPT !.translate = x], [drafting EXCEPT !.create = x]}
    BY <1>19 DEF Translate, RegisterField
  <2>4. \A l \in Localized : d(l) \in Draft
    BY DEF Draft
  <2> HIDE DEF d
  <2>1. drafting' \in [create : Draft, translate : Draft]
    BY <1>0, <2>0, <2>3, <2>4
  <2>2. UNCHANGED <<grid, registry, pages, patches, studio>>
    BY <1>19 DEF Translate, RegisterField, At
  <2>. QED BY <1>0, <1>16, <1>17, <2>1, <2>2
<1>20. ASSUME NEW s \in SUBSET OwnPatch, Ask(s), grid' \in OwnGrid, grid'.key = grid.key PROVE TableInv'
  BY <1>0, <1>16, <1>20 DEF Ask, At
<1>21. ASSUME NEW k \in PatchKind, NEW f \in Field, NEW p \in Pref, NEW n \in {f, NoField}
       PROVE  PatchOf(k, f, p, n) \in OwnPatch
  BY DEF PatchOf, OwnPatch, Patch
<1>22. CASE SavePreferences
  <2>1. grid.drawer.field \in Field /\ grid.drawer.name \in {grid.drawer.field, NoField} /\ grid.drawer.pref \in Pref
    BY <1>0, <1>22 DEF SavePreferences, OwnDrawer, Drawer
  <2>2. PatchOf("edit", grid.drawer.field, grid.drawer.pref, grid.drawer.name) \in OwnPatch
    BY <1>21, <2>1 DEF PatchKind
  <2>. QED BY <1>17, <1>20, <1>22, <2>2 DEF SavePreferences
<1>23. ASSUME NEW p \in Pref, BulkUpdate(p) PROVE TableInv'
  <2>1. {PatchOf("bulk", f, p, NoField) : f \in grid.selected} \subseteq OwnPatch
    BY <1>0, <1>21 DEF PatchKind
  <2>2. grid' \in OwnGrid /\ grid'.key = grid.key
    BY <1>0, <1>23 DEF BulkUpdate, OwnGrid, Grid
  <2>. QED BY <1>20, <1>23, <2>1, <2>2 DEF BulkUpdate
<1>24. ASSUME NEW r \in RowsShown, ToggleDisplay(r) PROVE TableInv'
  <2>1. r.field \in Field /\ Opposite[r.pref] \in Pref
    BY RowsShownAreOwn DEF OwnRow, FieldRow, Pref, Opposite
  <2>2. PatchOf("toggle", r.field, Opposite[r.pref], NoField) \in OwnPatch
    BY <1>21, <2>1 DEF PatchKind
  <2>. QED BY <1>17, <1>20, <1>24, <2>2 DEF ToggleDisplay
<1>25. CASE RegistryClicks
  BY <1>2, <1>5, <1>6, <1>7, <1>8, <1>10, <1>13, <1>14, <1>15, <1>18, <1>19, <1>22, <1>23, <1>25 DEF RegistryClicks
<1>26. CASE RowClicks
  BY <1>10, <1>12, <1>24, <1>26 DEF RowClicks
<1>. QED BY <1>4, <1>25, <1>26

\* Entries told that the registry has changed, and entries that nobody tells.
LEMMA PagesTold ==
  ASSUME pages \in PageTable, registry' \in OwnFields, pages' = Invalidated
  PROVE  /\ pages' \in PageTable /\ DOMAIN pages' = DOMAIN pages
         /\ \A k \in DOMAIN pages' : TrueEntry(pages'[k], Search(k)', PageShown(k))
<1>1. DOMAIN pages \subseteq Key /\ \A k \in DOMAIN pages : pages[k] \in OwnPage
  BY DEF PageTable
<1> DEFINE e(k) == IF Here("fields") /\ k = grid.key
                   THEN [pages[k] EXCEPT !.asked = TRUE, !.old = Search(k)', !.stale = FALSE, !.gap = FALSE]
                   ELSE [pages[k] EXCEPT !.stale = TRUE, !.gap = @ \/ pages[k].asked]
<1>2. pages' = [k \in DOMAIN pages |-> e(k)]
  BY DEF Invalidated
<1>3. ASSUME NEW k \in DOMAIN pages PROVE e(k) \in OwnPage /\ TrueEntry(e(k), Search(k)', PageShown(k))
  <2>1. Search(k)' \in OwnAnswer /\ pages[k] \in OwnPage
    BY <1>1, FoundIsOwnAfter
  <2>2. CASE Here("fields") /\ k = grid.key
    BY <2>1, <2>2 DEF OwnPage, TrueEntry
  <2>3. CASE ~(Here("fields") /\ k = grid.key)
    <3>1. ~PageShown(k)
      BY <2>3 DEF PageShown
    <3>. QED BY <2>1, <2>3, <3>1 DEF OwnPage, TrueEntry
  <2>. QED BY <2>2, <2>3
<1> HIDE DEF e
<1>4. pages' \in [DOMAIN pages -> OwnPage] /\ DOMAIN pages \in SUBSET Key
  BY <1>1, <1>2, <1>3
<1>. QED BY <1>2, <1>3, <1>4 DEF PageTable

\* Pages that are not told of a change have a gap each.
LEMMA PagesUntold ==
  ASSUME pages \in PageTable, pages' = Unannounced
  PROVE  /\ pages' \in PageTable /\ DOMAIN pages' = DOMAIN pages
         /\ \A k \in DOMAIN pages' : pages'[k].gap
<1>1. DOMAIN pages \subseteq Key /\ \A k \in DOMAIN pages : pages[k] \in OwnPage
  BY DEF PageTable
<1>2. \A e \in OwnPage : [e EXCEPT !.gap = TRUE] \in OwnPage /\ [e EXCEPT !.gap = TRUE].gap
  BY DEF OwnPage
<1>3. pages' \in [DOMAIN pages -> OwnPage] /\ DOMAIN pages \in SUBSET Key
  BY <1>1, <1>2 DEF Unannounced
<1>. QED BY <1>1, <1>2, <1>3 DEF PageTable, Unannounced

\* A step after which the pages are told, are not told, or stay.
LEMMA TableFollows ==
  ASSUME TableInv, grid' \in OwnGrid, grid'.key = grid.key, registry' \in OwnFields, patches' \subseteq OwnPatch,
         drafting' \in [create : Draft, translate : Draft], studio' = studio,
         pages' \in {Invalidated, Unannounced}
  PROVE  TableInv'
<1>1. /\ pages' \in PageTable /\ DOMAIN pages' = DOMAIN pages
      /\ \A k \in DOMAIN pages' : TrueEntry(pages'[k], Search(k)', PageShown(k))
  <2>1. CASE pages' = Invalidated
    BY <2>1, PagesTold DEF TableInv, TableTypes
  <2>2. CASE pages' = Unannounced
    BY <2>2, PagesUntold DEF TableInv, TableTypes, TrueEntry
  <2>. QED BY <2>1, <2>2
<1>2. (Here("fields")' <=> Here("fields")) /\ \A k : PageShown(k)' <=> PageShown(k)
  BY DEF PageShown, Here
<1>3. TableTypes'
  BY <1>1 DEF TableTypes
<1>4. ASSUME NEW k \in DOMAIN pages' PROVE TrueEntry(pages'[k], Search(k)', PageShown(k)')
  BY <1>1, <1>2 DEF TrueEntry
<1>. QED BY <1>1, <1>2, <1>3, <1>4 DEF TableInv

\* What a request does to the registry.
LEMMA PatchedIsOwn ==
  ASSUME registry \in OwnFields, NEW x \in OwnPatch
  PROVE  Patched(x) \in OwnFields
<1>1. CASE x.field \notin DOMAIN registry
  BY <1>1 DEF Patched
<1>2. CASE x.field \in DOMAIN registry
  <2> DEFINE f == x.field
             n == IF x.name = NoField THEN registry[f].name ELSE x.name
             row == [registry[f] EXCEPT !.pref = x.pref, !.name = n]
  <2>1. registry[f] \in StoredField /\ registry[f].name \in {f, NoField}
    BY <1>2 DEF OwnFields
  <2>2. Patched(x) = [registry EXCEPT ![f] = row]
    BY <1>2, <2>1 DEF Patched, StoredField
  <2>3. row \in StoredField /\ row.name \in {f, NoField}
    BY <1>2, <2>1 DEF OwnPatch, Patch, StoredField
  <2> HIDE DEF row
  <2>4. PICK F \in SUBSET Field : registry \in [F -> StoredField]
    BY DEF OwnFields
  <2>5. Patched(x) \in [F -> StoredField]
    BY <2>2, <2>3, <2>4
  <2>. QED BY <2>2, <2>3, <2>4, <2>5 DEF OwnFields
<1>. QED BY <1>1, <1>2

\* Requests that end, and other users, keep them, too.
LEMMA TableAnswered ==
  ASSUME TableInv, RegistryAnswers \/ OthersChange
  PROVE  TableInv'
<1>0. /\ grid \in OwnGrid /\ registry \in OwnFields /\ patches \subseteq OwnPatch
      /\ drafting \in [create : Draft, translate : Draft]
  BY DEF TableInv, TableTypes
<1>1. ASSUME NEW x \in patches, PreferencesSaved(x) PROVE TableInv'
  <2>1. registry' \in OwnFields /\ patches' \subseteq OwnPatch /\ UNCHANGED <<drafting, studio>>
    BY <1>0, <1>1, PatchedIsOwn DEF PreferencesSaved, studioVars
  <2>2. pages' \in {Invalidated, Unannounced}
    BY <1>1 DEF PreferencesSaved
  <2>3. grid' \in {grid, [grid EXCEPT !.drawer = Closed], [grid EXCEPT !.bulk = "idle", !.selected = {}]}
    BY <1>1 DEF PreferencesSaved
  <2>4. Closed \in OwnDrawer
    BY DEF Closed, OwnDrawer, Drawer, Pref
  <2>5. grid' \in OwnGrid /\ grid'.key = grid.key
    BY <1>0, <2>3, <2>4 DEF OwnGrid, Grid, OwnDrawer
  <2>. QED BY <1>0, <2>1, <2>2, <2>5, TableFollows
<1>2. ASSUME NEW x \in patches, PreferencesNotSaved(x) PROVE TableInv'
  <2>1. patches' \subseteq OwnPatch
    <3>1. \A y \in OwnPatch : [y EXCEPT !.kind = "stray"] \in OwnPatch
      BY DEF OwnPatch, Patch, PatchKind
    <3>. QED BY <1>0, <1>2, <3>1 DEF PreferencesNotSaved
  <2>2. grid' \in OwnGrid /\ grid'.key = grid.key
    BY <1>0, <1>2 DEF PreferencesNotSaved, OwnGrid, Grid
  <2>3. UNCHANGED <<drafting, studio>>
    BY <1>2 DEF PreferencesNotSaved
  <2>4. CASE UNCHANGED <<registry, pages>>
    BY <1>0, <2>1, <2>2, <2>3, <2>4, TableStays DEF Here
  <2>5. CASE registry' = Patched(x) /\ pages' = Unannounced
    BY <1>0, <2>1, <2>2, <2>3, <2>5, PatchedIsOwn, TableFollows
  <2>. QED BY <1>2, <2>4, <2>5 DEF PreferencesNotSaved
<1>3. CASE Translated \/ FieldRefused
  <2>1. UNCHANGED <<registry, pages, patches, studio>>
    BY <1>3 DEF Translated, FieldRefused, studioVars
  <2>2. drafting' \in [create : Draft, translate : Draft]
    <3>1. NoDraft \in Draft
      BY DEF NoDraft, Draft, Localized
    <3>2. drafting' \in {[drafting EXCEPT !.translate = NoDraft], [drafting EXCEPT !.create = NoDraft]}
      BY <1>3 DEF Translated, FieldRefused
    <3>. QED BY <1>0, <3>1, <3>2
  <2>3. grid' \in {grid, [grid EXCEPT !.names = drafting.translate.local]} /\ drafting.translate.local \in Localized
    BY <1>0, <1>3 DEF Translated, FieldRefused, Draft
  <2>4. grid' \in OwnGrid /\ grid'.key = grid.key
    BY <1>0, <2>3 DEF OwnGrid, Grid
  <2>. QED BY <1>0, <2>1, <2>2, <2>4, TableStays DEF Here
<1>4. CASE FieldRegistered
  <2>1. PICK f \in Field \ DOMAIN registry :
          registry' = [g \in DOMAIN registry \cup {f} |->
                         IF g = f THEN NewlyStored(drafting.create.local) ELSE registry[g]]
    BY <1>4 DEF FieldRegistered
  <2>2. NewlyStored(drafting.create.local) \in StoredField /\ NewlyStored(drafting.create.local).name = NoField
    BY <1>0 DEF NewlyStored, StoredField, Draft, Pref
  <2>3. registry' \in OwnFields
    <3>1. PICK F \in SUBSET Field : registry \in [F -> StoredField]
      BY <1>0 DEF OwnFields
    <3>2. registry' \in [F \cup {f} -> StoredField] /\ F \cup {f} \in SUBSET Field
      BY <2>1, <2>2, <3>1
    <3>3. \A g \in DOMAIN registry' : registry'[g].name \in {g, NoField}
      BY <1>0, <2>1, <2>2 DEF OwnFields
    <3>. QED BY <3>2, <3>3 DEF OwnFields
  <2>4. grid' \in OwnGrid /\ grid'.key = grid.key
    BY <1>0, <1>4 DEF FieldRegistered, OwnGrid, Grid, Localized
  <2>5. drafting' \in [create : Draft, translate : Draft]
    <3>1. NoDraft \in Draft
      BY DEF NoDraft, Draft, Localized
    <3>2. Abandoned(drafting) \in [create : Draft, translate : Draft]
      BY <1>0 DEF Abandoned, Draft, Localized
    <3>3. \E d \in {drafting, Abandoned(drafting)} : drafting' = [d EXCEPT !.create = NoDraft]
      BY <1>4 DEF FieldRegistered
    <3>. QED BY <1>0, <3>1, <3>2, <3>3
  <2>6. pages' = Invalidated /\ UNCHANGED <<patches, studio>>
    BY <1>4 DEF FieldRegistered, studioVars
  <2>. QED BY <1>0, <2>3, <2>4, <2>5, <2>6, TableFollows
<1>5. CASE OthersChange
  <2>1. PICK f \in DOMAIN registry :
          \/ registry' = [registry EXCEPT ![f].pref = Opposite[@]]
          \/ registry' = [g \in DOMAIN registry \ {f} |-> registry[g]]
    BY <1>5 DEF OthersChange
  <2>2. registry' \in OwnFields
    <3>1. PICK F \in SUBSET Field : registry \in [F -> StoredField]
      BY <1>0 DEF OwnFields
    <3>2. CASE registry' = [registry EXCEPT ![f].pref = Opposite[@]]
      <4>1. registry' = [registry EXCEPT ![f] = [registry[f] EXCEPT !.pref = Opposite[registry[f].pref]]]
        BY <3>1, <3>2 DEF StoredField
      <4>2. [registry[f] EXCEPT !.pref = Opposite[registry[f].pref]] \in StoredField
        BY <2>1, <3>1 DEF StoredField, Pref, Opposite
      <4>3. registry' \in [F -> StoredField] /\ \A g \in F : registry'[g].name = registry[g].name
        BY <3>1, <4>1, <4>2 DEF StoredField
      <4>. QED BY <1>0, <3>1, <4>3 DEF OwnFields
    <3>3. CASE registry' = [g \in DOMAIN registry \ {f} |-> registry[g]]
      <4>1. registry' \in [F \ {f} -> StoredField] /\ F \ {f} \in SUBSET Field
        BY <3>1, <3>3
      <4>. QED BY <1>0, <3>3, <4>1 DEF OwnFields
    <3>. QED BY <2>1, <3>2, <3>3
  <2>3. pages' = Unannounced /\ UNCHANGED <<grid, patches, drafting, studio>>
    BY <1>5 DEF OthersChange
  <2>. QED BY <1>0, <2>2, <2>3, TableFollows
<1>. QED BY <1>1, <1>2, <1>3, <1>4, <1>5 DEF RegistryAnswers

\* A page that arrives has what the registry has, or is out of date with a gap.
LEMMA PageArrivesTrue ==
  ASSUME TableInv, NEW k, PageArrives(k)
  PROVE  TableInv'
<1>1. PICK v \in {pages[k].old, Search(k)} :
        pages' = [pages EXCEPT ![k] = [@ EXCEPT !.data = v, !.asked = FALSE, !.old = Nothing, !.stale = FALSE]]
  BY DEF PageArrives
<1>2. UNCHANGED <<grid, registry, patches, drafting, studio>> /\ k \in DOMAIN pages /\ pages[k].asked
  BY DEF PageArrives, studioVars
<1>3. PICK K \in SUBSET Key : pages \in [K -> OwnPage]
  BY DEF TableInv, TableTypes, PageTable
<1>4. v \in OwnAnswer /\ Nothing \in OwnAnswer /\ TrueEntry(pages[k], Search(k), PageShown(k))
  BY <1>2, <1>3, FoundIsOwn, NothingIsOwn DEF TableInv, TableTypes, OwnPage
<1> DEFINE e == [pages[k] EXCEPT !.data = v, !.asked = FALSE, !.old = Nothing, !.stale = FALSE]
<1>5. e \in OwnPage /\ \A shown : TrueEntry(e, Search(k), shown)
  BY <1>1, <1>2, <1>3, <1>4 DEF OwnPage, TrueEntry
<1>6. pages' = [pages EXCEPT ![k] = e]
  BY <1>1
<1> HIDE DEF e
<1>7. pages' \in [K -> OwnPage]
  BY <1>3, <1>5, <1>6
<1>8. (Here("fields")' <=> Here("fields")) /\ \A l : PageShown(l)' <=> PageShown(l)
  BY <1>2 DEF PageShown, Here
<1>9. ASSUME NEW l \in DOMAIN pages' PROVE TrueEntry(pages'[l], Search(l)', PageShown(l)')
  <2>1. Search(l)' = Search(l)
    BY <1>2, SearchStays
  <2>2. CASE l = k
    BY <1>2, <1>3, <1>5, <1>6, <2>1, <2>2
  <2>3. CASE l # k
    BY <1>3, <1>6, <1>8, <2>1, <2>3 DEF TableInv, TrueEntry
  <2>. QED BY <2>2, <2>3
<1>10. TableTypes'
  BY <1>2, <1>7 DEF TableInv, TableTypes, PageTable
<1>. QED BY <1>2, <1>3, <1>7, <1>8, <1>9, <1>10 DEF TableInv

\* The registry opens on a page it asks for, and closes on none.
LEMMA TableComesAndGoes ==
  ASSUME TableInv, EnterRegistry \/ ExitRegistry
  PROVE  TableInv'
<1>1. RegistryLost /\ grid' = BlankGrid /\ grid' \in OwnGrid /\ UNCHANGED registry /\ FirstKey \in Key
  BY BlankTableIsOwn DEF EnterRegistry, ExitRegistry, RegistryLost
<1>2. patches' \subseteq OwnPatch /\ drafting' \in [create : Draft, translate : Draft]
  <2>1. \A x \in OwnPatch : [x EXCEPT !.mine = FALSE] \in OwnPatch
    BY DEF OwnPatch, Patch
  <2>2. \A d \in Draft : Deserted(d) \in Draft
    BY DEF Draft, Deserted
  <2>3. drafting.create \in Draft /\ drafting.translate \in Draft /\ patches \subseteq OwnPatch
    BY DEF TableInv, TableTypes
  <2>. QED BY <1>1, <2>1, <2>2, <2>3 DEF RegistryLost
<1>3. CASE EnterRegistry
  <2>1. PICK e \in Mounted(FirstKey, Search(FirstKey)) : pages' = PagesWith(FirstKey, e)
    BY <1>3 DEF EnterRegistry, PagesWith
  <2>2. /\ pages' \in PageTable /\ FirstKey \in DOMAIN pages'
        /\ \A k \in DOMAIN pages' : TrueEntry(pages'[k], Search(k)', k = FirstKey)
    <3>1. pages \in PageTable /\ registry \in OwnFields /\ UNCHANGED registry /\ FirstKey \in Key
      BY <1>1 DEF TableInv, TableTypes
    <3>2. \A k \in DOMAIN pages : TrueEntry(pages[k], Search(k), FALSE)
      BY EntriesAreTrue
    <3>. QED BY <2>1, <3>1, <3>2, MountedPages
  <2>3. ASSUME NEW k \in DOMAIN pages' PROVE TrueEntry(pages'[k], Search(k)', PageShown(k)')
    <3>1. PageShown(k)' => k = FirstKey
      BY <1>1, BlankTableIsOwn DEF PageShown
    <3>. QED BY <2>2, <3>1 DEF TrueEntry
  <2>4. TableTypes'
    BY <1>1, <1>2, <2>2 DEF TableInv, TableTypes
  <2>. QED BY <1>1, <2>2, <2>3, <2>4, BlankTableIsOwn DEF TableInv
<1>4. CASE ExitRegistry
  <2>1. ~Here("fields")' /\ pages' = pages
    BY <1>4 DEF ExitRegistry, Exit, Here
  <2>. QED BY <1>1, <1>2, <2>1, TableStays
<1>. QED BY <1>3, <1>4

\* No other studio has a word in the table.
LEMMA FieldsLeftAlone ==
  ASSUME TableInv, UNCHANGED fieldVars, studio'.desk = studio.desk,
         UNCHANGED studio \/ studio.desk # "fields"
  PROVE  TableInv'
<1>1. Here("fields")' => Here("fields")
  BY DEF Here
<1>2. UNCHANGED <<grid, registry, pages, patches, drafting>>
  BY DEF fieldVars
<1>3. grid \in OwnGrid /\ patches \subseteq OwnPatch /\ drafting \in [create : Draft, translate : Draft]
  BY DEF TableInv, TableTypes
<1>. QED BY <1>1, <1>2, <1>3, TableStays

(***************************************************************************)
(* The order of a form                                                     *)
(***************************************************************************)

\* A function of the recursion's equation exists.
LEMMA FilledSeqsGoOn ==
  ASSUME NEW s \in Seq(FormStep)
  PROVE  \E f : /\ f = [n \in 0 .. Len(s) |->
                         IF n = 0 THEN <<>>
                         ELSE IF Filled(s[n]) THEN Append(f[n - 1], s[n].seq) ELSE f[n - 1]]
                /\ FilledSeqs(s) = f[Len(s)]
<1> DEFINE Step(f, n) == IF n = 0 THEN <<>>
                         ELSE IF Filled(s[n]) THEN Append(f[n - 1], s[n].seq) ELSE f[n - 1]
           IsUpTo(f, k) == f = [n \in 0 .. k |-> Step(f, n)]
           K == {k \in Nat : \E f : IsUpTo(f, k)}
<1>1. 0 \in K
  <2>1. IsUpTo([n \in 0 .. 0 |-> <<>>], 0)
    OBVIOUS
  <2>. QED BY <2>1
<1>2. ASSUME NEW k \in K PROVE k + 1 \in K
  <2>1. PICK f : IsUpTo(f, k)
    OBVIOUS
  <2> DEFINE g == [n \in 0 .. k + 1 |-> IF n <= k THEN f[n] ELSE Step(f, k + 1)]
  <2>2. ASSUME NEW n \in 0 .. k + 1 PROVE g[n] = Step(g, n)
    <3>1. CASE n = 0
      BY <2>1, <3>1
    <3>2. CASE n \in 1 .. k
      <4>1. n - 1 \in 0 .. k + 1 /\ n - 1 <= k /\ n \in 0 .. k /\ n <= k /\ n # 0
        BY <3>2
      <4>2. g[n] = f[n] /\ g[n - 1] = f[n - 1]
        BY <4>1
      <4>3. f[n] = Step(f, n)
        BY <2>1, <4>1
      <4> HIDE DEF g
      <4>. QED BY <4>1, <4>2, <4>3
    <3>3. CASE n = k + 1
      <4>1. n - 1 = k /\ ~(n <= k) /\ n # 0
        BY <3>3
      <4>2. g[n] = Step(f, n) /\ g[n - 1] = f[n - 1]
        BY <3>3, <4>1
      <4> HIDE DEF g
      <4>. QED BY <4>1, <4>2
    <3>. QED BY <3>1, <3>2, <3>3
  <2>3. g = [n \in 0 .. k + 1 |-> g[n]]
    OBVIOUS
  <2> HIDE DEF g, Step
  <2>4. IsUpTo(g, k + 1)
    BY <2>2, <2>3
  <2>. QED BY <2>4
<1>3. Len(s) \in K
  <2> HIDE DEF K
  <2>1. Nat \subseteq K
    BY <1>1, <1>2, AllNumbers DEF K
  <2>. QED BY <2>1
<1> DEFINE upTo[n \in 0 .. Len(s)] ==
        IF n = 0 THEN <<>>
        ELSE IF Filled(s[n]) THEN Append(upTo[n - 1], s[n].seq) ELSE upTo[n - 1]
<1>4. IsUpTo(upTo, Len(s))
  BY <1>3
<1>5. FilledSeqs(s) = upTo[Len(s)]
  BY DEF FilledSeqs
<1>. QED BY <1>4, <1>5

(***************************************************************************)
(* Calculations                                                            *)
(***************************************************************************)
\* The steps of a form, and numbers, in the order they are shown.
InOrder(s) == \A i, j \in DOMAIN s : i < j => s[i].seq < s[j].seq
FormInOrder(s) == s \in Seq(FormStep) /\ Len(s) <= MaxForm /\ InOrder(s)
NumbersInOrder(s) == s \in Seq(Nat) /\ Len(s) <= MaxForm /\ Increasing(s)

\* A form in order is a sequence of steps whose numbers rise.
LEMMA FormIsNumbered ==
  ASSUME NEW s, FormInOrder(s)
  PROVE  /\ s \in Seq(FormStep) /\ Len(s) \in Nat /\ DOMAIN s = 1 .. Len(s)
         /\ \A n \in DOMAIN s : s[n] \in FormStep /\ s[n].seq \in Nat
         /\ \A i, j \in DOMAIN s : i < j => s[i].seq < s[j].seq
<1>1. s \in Seq(FormStep)
  BY DEF FormInOrder
<1>2. \A n \in DOMAIN s : s[n] \in FormStep
  BY <1>1
<1>3. \A x \in FormStep : x.seq \in Nat
  BY DEF FormStep
<1>4. \A i, j \in DOMAIN s : i < j => s[i].seq < s[j].seq
  BY DEF FormInOrder, InOrder
<1>. QED BY <1>1, <1>2, <1>3, <1>4

\* The filled steps of a form in order are in order.
LEMMA FilledAreInOrder ==
  ASSUME NEW s, FormInOrder(s)
  PROVE  NumbersInOrder(FilledSeqs(s))
<1>0. /\ s \in Seq(FormStep) /\ \A n \in DOMAIN s : s[n].seq \in Nat
      /\ \A i, j \in DOMAIN s : i < j => s[i].seq < s[j].seq
  BY FormIsNumbered
<1>1. PICK f : /\ f = [n \in 0 .. Len(s) |->
                         IF n = 0 THEN <<>>
                         ELSE IF Filled(s[n]) THEN Append(f[n - 1], s[n].seq) ELSE f[n - 1]]
               /\ FilledSeqs(s) = f[Len(s)]
  BY <1>0, FilledSeqsGoOn
<1> DEFINE Fine(n) == /\ f[n] \in Seq(Nat) /\ Len(f[n]) <= n /\ Increasing(f[n])
                      /\ \A i \in DOMAIN f[n] : \E j \in 1 .. n : f[n][i] = s[j].seq
           K == {n \in Nat : n <= Len(s) => Fine(n)}
<1>2. 0 \in K
  BY <1>1 DEF Increasing
<1>3. ASSUME NEW n \in K PROVE n + 1 \in K
  <2>. SUFFICES ASSUME n + 1 <= Len(s) PROVE Fine(n + 1)
    OBVIOUS
  <2>1. n \in 0 .. Len(s) /\ n + 1 \in 0 .. Len(s) /\ n + 1 \in DOMAIN s /\ n \in Nat
    OBVIOUS
  <2>2. Fine(n)
    BY <2>1
  <2>3. CASE Filled(s[n + 1])
    <3>1. f[n + 1] = Append(f[n], s[n + 1].seq)
      BY <1>1, <2>1, <2>3
    <3>2. \A i \in DOMAIN f[n] : f[n][i] < s[n + 1].seq
      <4>. SUFFICES ASSUME NEW i \in DOMAIN f[n], NEW j \in 1 .. n, f[n][i] = s[j].seq
                    PROVE  s[j].seq < s[n + 1].seq
        BY <2>2
      <4>1. j \in DOMAIN s /\ j < n + 1
        BY <1>0, <2>1
      <4>. QED BY <1>0, <2>1, <4>1
    <3> DEFINE a == f[n]
               x == s[n + 1].seq
    <3>3. a \in Seq(Nat) /\ x \in Nat /\ Len(a) <= n /\ Increasing(a) /\ \A i \in DOMAIN a : a[i] < x
      BY <1>0, <2>1, <2>2, <3>2
    <3>4. f[n + 1] = Append(a, x)
      BY <3>1
    <3>5. \A i \in DOMAIN a : \E j \in 1 .. n + 1 : a[i] = s[j].seq
      BY <2>1, <2>2
    <3>6. x = s[n + 1].seq
      OBVIOUS
    <3> HIDE DEF a, x, Fine
    <3>7. /\ Append(a, x) \in Seq(Nat) /\ Len(Append(a, x)) = Len(a) + 1
          /\ \A i \in DOMAIN Append(a, x) : Append(a, x)[i] = IF i <= Len(a) THEN a[i] ELSE x
      BY <3>3
    <3>8. Increasing(Append(a, x))
      BY <3>3, <3>7 DEF Increasing
    <3>9. \A i \in DOMAIN Append(a, x) : \E j \in 1 .. n + 1 : Append(a, x)[i] = s[j].seq
      <4>1. n + 1 \in 1 .. n + 1
        BY <2>1
      <4>. QED BY <3>3, <3>5, <3>6, <3>7, <4>1
    <3>. QED BY <2>1, <3>3, <3>4, <3>7, <3>8, <3>9 DEF Fine
  <2>4. CASE ~Filled(s[n + 1])
    <3>1. n + 1 # 0 /\ n + 1 - 1 = n
      BY <2>1
    <3>2. f[n + 1] = f[n]
      BY <1>1, <2>1, <2>4, <3>1
    <3>3. \A i \in 1 .. n : i \in 1 .. n + 1
      BY <2>1
    <3>4. Len(f[n]) <= n + 1
      BY <2>1, <2>2
    <3>. QED BY <2>2, <3>2, <3>3, <3>4
  <2>. QED BY <2>3, <2>4
<1>4. Len(s) \in K
  <2> HIDE DEF K
  <2>1. Nat \subseteq K
    BY <1>2, <1>3, AllNumbers DEF K
  <2>. QED BY <1>0, <2>1
<1>. QED BY <1>0, <1>1, <1>4, CalcAssumption DEF FormInOrder, NumbersInOrder

\* No number of the form is above MaxSeq.
LEMMA MaxSeqIsAbove ==
  ASSUME FormInOrder(editor.steps)
  PROVE  MaxSeq \in Nat /\ \A i \in DOMAIN editor.steps : MaxSeq >= editor.steps[i].seq
<1> DEFINE s == editor.steps
           N == {0} \cup {s[i].seq : i \in DOMAIN s}
<1>0. /\ s \in Seq(FormStep) /\ \A i \in DOMAIN s : s[i].seq \in Nat
      /\ \A i, j \in DOMAIN s : i < j => s[i].seq < s[j].seq
  BY FormIsNumbered
<1>1. \E n \in N : \A i \in DOMAIN s : n >= s[i].seq
  <2>1. CASE s = <<>>
    BY <2>1
  <2>2. CASE s # <<>>
    <3>1. Len(s) \in DOMAIN s /\ s[Len(s)].seq \in N
      BY <1>0, <2>2
    <3>2. \A i \in DOMAIN s : s[Len(s)].seq >= s[i].seq
      BY <1>0, <3>1
    <3>. QED BY <3>1, <3>2
  <2>. QED BY <2>1, <2>2
<1>2. N \subseteq Nat
  BY <1>0
<1>. QED BY <1>1, <1>2 DEF MaxSeq

\* What the studio of calculations keeps: every form and every list of numbers, stored or
\* on its way, is in order, and what is selected or cloned is stored.
CalcInv ==
  /\ editor \in Editor /\ FormInOrder(editor.steps) /\ editor.selected \in DOMAIN programs \cup {NoProgram}
  /\ DOMAIN programs \subseteq Program /\ programs \in [DOMAIN programs -> StoredProgram]
  /\ \A p \in DOMAIN programs : NumbersInOrder(programs[p].steps)
  /\ programList \in QueryOf(SUBSET DOMAIN programs)
  /\ {saving, testing} \subseteq Request
  /\ NumbersInOrder(saving.steps) /\ (Busy(saving) => saving.code # NoCode)
  /\ cloning \subseteq CloneRequest /\ \A r \in cloning : r.about \in DOMAIN programs

\* The types of the studio and StepsRunAsShown, from its invariant.
LEMMA CalcInvSuffices == CalcInv => CalcTypeOK /\ StepsRunAsShown
<1>. SUFFICES ASSUME CalcInv PROVE CalcTypeOK /\ StepsRunAsShown
  OBVIOUS
<1>1. CalcTypeOK
  BY DEF CalcInv, CalcTypeOK, QueryOf, FormInOrder
<1>2. Increasing([i \in DOMAIN editor.steps |-> editor.steps[i].seq])
  BY DEF CalcInv, FormInOrder, InOrder, Increasing
<1>. QED BY <1>1, <1>2 DEF CalcInv, NumbersInOrder, StepsRunAsShown

\* A blank form.
LEMMA BlankIsInOrder ==
  /\ BlankEditor \in Editor /\ FormInOrder(<<makeStep(1)>>) /\ NumbersInOrder(<<>>)
  /\ BlankEditor.steps = <<makeStep(1)>> /\ BlankEditor.selected = NoProgram
  /\ NoRequest \in Request /\ NoRequest.steps = <<>> /\ ~Busy(NoRequest)
<1>1. makeStep(1) \in FormStep
  BY DEF makeStep, FormStep
<1>2. FormInOrder(<<makeStep(1)>>)
  BY <1>1, CalcAssumption DEF FormInOrder, InOrder
<1>3. NumbersInOrder(<<>>)
  BY CalcAssumption DEF NumbersInOrder, Increasing
<1>. QED BY <1>1, <1>2, <1>3, CalcAssumption DEF BlankEditor, Editor, NoRequest, Request, Busy

\* No program, and a form of one step, at first.
LEMMA CalcInvInit == CalcInit => CalcInv
<1>. SUFFICES ASSUME CalcInit PROVE CalcInv
  OBVIOUS
<1>1. \A p \in DOMAIN programs : NumbersInOrder(programs[p].steps)
  BY CalcAssumption DEF CalcInit, NumbersInOrder, StoredProgram
<1>2. programList \in QueryOf(SUBSET DOMAIN programs)
  BY DEF CalcInit, QueryOf, Unasked
<1>. QED BY <1>1, <1>2, BlankIsInOrder, CalcAssumption DEF CalcInit, CalcInv

\* Changes to the state of the component, field by field.
LEMMA EditorFields ==
  ASSUME NEW e \in Editor
  PROVE  /\ \A s \in Seq(FormStep) : /\ [e EXCEPT !.steps = s] \in Editor
                                     /\ [e EXCEPT !.steps = s].steps = s
                                     /\ [e EXCEPT !.steps = s].selected = e.selected
         /\ \A p \in Program \cup {NoProgram} :
              /\ [e EXCEPT !.result = p] \in Editor /\ [e EXCEPT !.selected = p] \in Editor
              /\ [e EXCEPT !.result = p].steps = e.steps /\ [e EXCEPT !.selected = p].steps = e.steps
              /\ [e EXCEPT !.result = p].selected = e.selected /\ [e EXCEPT !.selected = p].selected = p
         /\ \A b \in BOOLEAN :
              /\ [e EXCEPT !.creating = b] \in Editor /\ [e EXCEPT !.editing = b] \in Editor
              /\ [e EXCEPT !.creating = b].steps = e.steps /\ [e EXCEPT !.editing = b].steps = e.steps
              /\ [e EXCEPT !.creating = b].selected = e.selected /\ [e EXCEPT !.editing = b].selected = e.selected
         /\ \A b \in BOOLEAN :
              /\ [e EXCEPT !.named = b] \in Editor /\ [e EXCEPT !.product = b] \in Editor
              /\ [e EXCEPT !.named = b].steps = e.steps /\ [e EXCEPT !.product = b].steps = e.steps
              /\ [e EXCEPT !.named = b].selected = e.selected /\ [e EXCEPT !.product = b].selected = e.selected
         /\ \A c \in ProgramCode \cup {NoCode} :
              /\ [e EXCEPT !.code = c] \in Editor /\ [e EXCEPT !.code = c].steps = e.steps
              /\ [e EXCEPT !.code = c].selected = e.selected
<1>1. ASSUME NEW s \in Seq(FormStep)
      PROVE  /\ [e EXCEPT !.steps = s] \in Editor /\ [e EXCEPT !.steps = s].steps = s
             /\ [e EXCEPT !.steps = s].selected = e.selected
  BY DEF Editor
<1>2. ASSUME NEW p \in Program \cup {NoProgram}
      PROVE  /\ [e EXCEPT !.result = p] \in Editor /\ [e EXCEPT !.selected = p] \in Editor
             /\ [e EXCEPT !.result = p].steps = e.steps /\ [e EXCEPT !.selected = p].steps = e.steps
             /\ [e EXCEPT !.result = p].selected = e.selected /\ [e EXCEPT !.selected = p].selected = p
  BY DEF Editor
<1>3. ASSUME NEW b \in BOOLEAN
      PROVE  /\ [e EXCEPT !.creating = b] \in Editor /\ [e EXCEPT !.editing = b] \in Editor
             /\ [e EXCEPT !.creating = b].steps = e.steps /\ [e EXCEPT !.editing = b].steps = e.steps
             /\ [e EXCEPT !.creating = b].selected = e.selected /\ [e EXCEPT !.editing = b].selected = e.selected
  BY DEF Editor
<1>4. ASSUME NEW b \in BOOLEAN
      PROVE  /\ [e EXCEPT !.named = b] \in Editor /\ [e EXCEPT !.product = b] \in Editor
             /\ [e EXCEPT !.named = b].steps = e.steps /\ [e EXCEPT !.product = b].steps = e.steps
             /\ [e EXCEPT !.named = b].selected = e.selected /\ [e EXCEPT !.product = b].selected = e.selected
  BY DEF Editor
<1>5. ASSUME NEW c \in ProgramCode \cup {NoCode}
      PROVE  /\ [e EXCEPT !.code = c] \in Editor /\ [e EXCEPT !.code = c].steps = e.steps
             /\ [e EXCEPT !.code = c].selected = e.selected
  BY DEF Editor
<1>. QED BY <1>1, <1>2, <1>3, <1>4, <1>5

\* The form is emptied, or shown with the product of the banner.
LEMMA FormIsEmptied ==
  ASSUME NEW e \in Editor
  PROVE  /\ EmptyForm(e) \in Editor /\ EmptyForm(e).steps = <<makeStep(1)>>
         /\ EmptyForm(e).selected = e.selected
<1> DEFINE a == [e EXCEPT !.named = FALSE]
           b == [a EXCEPT !.code = NoCode]
           c == [b EXCEPT !.product = FALSE]
           d == [c EXCEPT !.steps = <<makeStep(1)>>]
           f == [d EXCEPT !.result = NoProgram]
<1>1. EmptyForm(e) = f
  BY DEF EmptyForm, Editor
<1>2. <<makeStep(1)>> \in Seq(FormStep)
  BY DEF makeStep, FormStep
<1>3. a \in Editor /\ a.selected = e.selected
  BY EditorFields
<1> HIDE DEF a
<1>4. b \in Editor /\ b.selected = e.selected
  BY <1>3, EditorFields
<1> HIDE DEF b
<1>5. c \in Editor /\ c.selected = e.selected
  BY <1>4, EditorFields
<1> HIDE DEF c
<1>6. d \in Editor /\ d.selected = e.selected /\ d.steps = <<makeStep(1)>>
  BY <1>2, <1>5, EditorFields
<1> HIDE DEF d
<1> HIDE DEF d
<1>7. f \in Editor /\ f.selected = e.selected /\ f.steps = <<makeStep(1)>>
  <2>1. NoProgram \in Program \cup {NoProgram}
    OBVIOUS
  <2>. QED BY <1>6, <2>1, EditorFields
<1>. QED BY <1>1, <1>7

\* The picker of variables leaves the steps alone.
LEMMA PickerKeeps ==
  ASSUME NEW e \in Editor, NEW was
  PROVE  /\ PickerMounts(e, was) \in Editor /\ PickerMounts(e, was).steps = e.steps
         /\ PickerMounts(e, was).selected = e.selected
BY EditorFields, CalcAssumption DEF PickerMounts

\* A click that changes the state of the component alone.
LEMMA ShowKeeps ==
  ASSUME CalcInv, NEW e \in Editor, Show(e), FormInOrder(e.steps), e.selected \in DOMAIN programs \cup {NoProgram}
  PROVE  CalcInv'
BY DEF CalcInv, Show, Busy

\* A program is opened.
LEMMA ProgramIsOpened ==
  ASSUME CalcInv, NEW p \in Program
  PROVE  openProgram(p) \in Editor /\ openProgram(p).steps = editor.steps /\ openProgram(p).selected = p
<1> DEFINE a == [editor EXCEPT !.selected = p]
           b == [a EXCEPT !.creating = FALSE]
           c == [b EXCEPT !.editing = FALSE]
           d == [c EXCEPT !.result = NoProgram]
<1>0. editor \in Editor
  BY DEF CalcInv
<1>1. openProgram(p) = d
  BY <1>0 DEF openProgram, Editor
<1>2. a \in Editor /\ a.selected = p /\ a.steps = editor.steps
  BY <1>0, EditorFields
<1> HIDE DEF a
<1>3. b \in Editor /\ b.selected = p /\ b.steps = editor.steps
  BY <1>2, EditorFields
<1> HIDE DEF b
<1>4. c \in Editor /\ c.selected = p /\ c.steps = editor.steps
  BY <1>3, EditorFields
<1> HIDE DEF c
<1>5. d \in Editor /\ d.selected = p /\ d.steps = editor.steps
  <2>1. NoProgram \in Program \cup {NoProgram}
    OBVIOUS
  <2>. QED BY <1>4, <2>1, EditorFields
<1>. QED BY <1>1, <1>5

\* A form that is reset has one step.
LEMMA FormIsReset ==
  ASSUME NEW e \in Editor
  PROVE  resetForm(e) \in Editor /\ resetForm(e).steps = <<makeStep(1)>> /\ resetForm(e).selected = e.selected
<1> DEFINE a == EmptyForm(e)
           b == [a EXCEPT !.creating = FALSE]
           c == [b EXCEPT !.editing = FALSE]
<1>1. a \in Editor /\ a.steps = <<makeStep(1)>> /\ a.selected = e.selected
  BY FormIsEmptied
<1>2. resetForm(e) = c
  BY DEF resetForm
<1> HIDE DEF a
<1>3. b \in Editor /\ b.selected = e.selected /\ b.steps = <<makeStep(1)>>
  BY <1>1, EditorFields
<1> HIDE DEF b
<1>4. c \in Editor /\ c.selected = e.selected /\ c.steps = <<makeStep(1)>>
  BY <1>3, EditorFields
<1>. QED BY <1>2, <1>4

\* A stored program, loaded into the form, is in order there.
LEMMA LoadedIsInOrder ==
  ASSUME CalcInv, NEW p \in DOMAIN programs
  PROVE  FormInOrder(Loaded(p))
<1> DEFINE n == programs[p].steps
<1>1. n \in Seq(Nat) /\ Len(n) <= MaxForm /\ Increasing(n)
  BY DEF CalcInv, NumbersInOrder
<1>2. \A i \in DOMAIN n : n[i] \in Nat
  BY <1>1
<1>3. Loaded(p) = [i \in 1 .. Len(n) |-> [seq |-> n[i], var_name |-> TRUE, expression |-> TRUE]]
  BY <1>1 DEF Loaded
<1>4. Loaded(p) \in Seq(FormStep) /\ Len(Loaded(p)) = Len(n) /\ \A i \in 1 .. Len(n) : Loaded(p)[i].seq = n[i]
  <2>1. \A i \in 1 .. Len(n) : [seq |-> n[i], var_name |-> TRUE, expression |-> TRUE] \in FormStep
    BY <1>1, <1>2 DEF FormStep
  <2>. QED BY <1>1, <1>3, <2>1
<1>. QED BY <1>1, <1>4 DEF FormInOrder, InOrder, Increasing

\* Steps that are numbered by their places.
LEMMA RenumberedIsInOrder ==
  ASSUME NEW s \in Seq(FormStep), Len(s) <= MaxForm
  PROVE  FormInOrder(Renumbered(s))
<1>1. \A i \in DOMAIN s : s[i] \in FormStep /\ i \in Nat
  OBVIOUS
<1>2. \A x \in FormStep, i \in Nat : [x EXCEPT !.seq = i] \in FormStep /\ [x EXCEPT !.seq = i].seq = i
  BY DEF FormStep
<1>3. Renumbered(s) = [i \in 1 .. Len(s) |-> [s[i] EXCEPT !.seq = i]]
  BY DEF Renumbered
<1>4. Renumbered(s) \in Seq(FormStep) /\ Len(Renumbered(s)) = Len(s) /\ \A i \in 1 .. Len(s) : Renumbered(s)[i].seq = i
  <2>1. \A i \in 1 .. Len(s) : [s[i] EXCEPT !.seq = i] \in FormStep /\ [s[i] EXCEPT !.seq = i].seq = i
    BY <1>1, <1>2
  <2>2. \A i \in 1 .. Len(s) : Renumbered(s)[i] \in FormStep /\ Renumbered(s)[i].seq = i
    BY <1>3, <2>1
  <2>3. DOMAIN Renumbered(s) = 1 .. Len(s) /\ Renumbered(s) = [i \in 1 .. Len(s) |-> Renumbered(s)[i]]
    BY <1>3
  <2>4. Len(s) \in Nat
    OBVIOUS
  <2>. QED BY <2>2, <2>3, <2>4
<1>. QED BY <1>4 DEF FormInOrder, InOrder

\* Another list of steps in the form.
LEMMA EditStepsKeeps ==
  ASSUME CalcInv, NEW s, FormInOrder(s), EditSteps(s)
  PROVE  CalcInv'
BY EditorFields, ShowKeeps DEF CalcInv, EditSteps, FormInOrder

\* A step with another name or expression keeps its number.
LEMMA StepTypedKeeps ==
  ASSUME CalcInv, NEW i \in DOMAIN editor.steps, NEW x \in FormStep, x.seq = editor.steps[i].seq,
         EditSteps([editor.steps EXCEPT ![i] = x])
  PROVE  CalcInv'
<1> DEFINE s == editor.steps
           t == [s EXCEPT ![i] = x]
<1>1. FormInOrder(s) /\ i \in DOMAIN s
  BY DEF CalcInv
<1>2. t \in Seq(FormStep) /\ Len(t) = Len(s) /\ \A j \in DOMAIN s : t[j].seq = s[j].seq
  BY <1>1, FormIsNumbered
<1>3. FormInOrder(t)
  <2>1. \A j, k \in DOMAIN s : j < k => s[j].seq < s[k].seq
    BY <1>1, FormIsNumbered
  <2>2. DOMAIN t = DOMAIN s /\ Len(s) <= MaxForm
    BY <1>1 DEF FormInOrder
  <2> HIDE DEF t, s
  <2>. QED BY <1>2, <2>1, <2>2 DEF FormInOrder, InOrder
<1>. QED BY <1>3, EditStepsKeeps

\* What users do in the studio keeps the steps in order.
LEMMA EngineClicksKeep ==
  ASSUME CalcInv, StudioTypeOK, EngineClicks
  PROVE  CalcInv'
<1>0. /\ editor \in Editor /\ FormInOrder(editor.steps) /\ editor.selected \in DOMAIN programs \cup {NoProgram}
      /\ DOMAIN programs \subseteq Program /\ programList.data \subseteq DOMAIN programs
      /\ <<makeStep(1)>> \in Seq(FormStep) /\ FormInOrder(<<makeStep(1)>>) /\ MaxForm \in Nat
  BY BlankIsInOrder, CalcAssumption DEF CalcInv, QueryOf, FormInOrder
<1>1. ASSUME NEW p \in Program, OpenProgram(p) PROVE CalcInv'
  BY <1>0, <1>1, ProgramIsOpened, ShowKeeps DEF OpenProgram
<1>2. CASE NewProgram
  <2> DEFINE a == EmptyForm(editor)
             b == [a EXCEPT !.selected = NoProgram]
             c == [b EXCEPT !.editing = FALSE]
             d == [c EXCEPT !.creating = TRUE]
  <2>1. a \in Editor /\ a.steps = <<makeStep(1)>>
    BY <1>0, FormIsEmptied
  <2>2. Show(PickerMounts(d, editor))
    <3>1. d = [EmptyForm(editor) EXCEPT !.selected = NoProgram, !.editing = FALSE, !.creating = TRUE]
      BY <2>1 DEF Editor
    <3>. QED BY <1>2, <3>1 DEF NewProgram
  <2> HIDE DEF a
  <2>3. b \in Editor /\ b.steps = <<makeStep(1)>> /\ b.selected = NoProgram
    <3>1. NoProgram \in Program \cup {NoProgram}
      OBVIOUS
    <3>. QED BY <2>1, <3>1, EditorFields
  <2> HIDE DEF b
  <2>4. c \in Editor /\ c.steps = <<makeStep(1)>> /\ c.selected = NoProgram
    BY <2>3, EditorFields
  <2> HIDE DEF c
  <2>5. d \in Editor /\ d.steps = <<makeStep(1)>> /\ d.selected = NoProgram
    BY <2>4, EditorFields
  <2> HIDE DEF d
  <2>. QED BY <1>0, <2>2, <2>5, PickerKeeps, ShowKeeps
<1>3. CASE EditProgram
  <2> DEFINE p == editor.selected
             s == IF Loaded(p) = <<>> THEN <<makeStep(1)>> ELSE Loaded(p)
             a == [editor EXCEPT !.editing = TRUE]
             b == [a EXCEPT !.named = TRUE]
             c == [b EXCEPT !.product = FALSE]
             d == [c EXCEPT !.code = programs[p].code]
             e == [d EXCEPT !.steps = s]
  <2>0. p \in DOMAIN programs /\ FormInOrder(s) /\ s \in Seq(FormStep)
    BY <1>0, <1>3, LoadedIsInOrder DEF EditProgram, FormInOrder
  <2>1. programs[p].code \in ProgramCode \cup {NoCode}
    BY <2>0 DEF CalcInv, StoredProgram
  <2>2. Show(PickerMounts(e, editor))
    <3>1. e = [editor EXCEPT !.editing = TRUE, !.named = TRUE, !.product = FALSE, !.code = programs[p].code, !.steps = s]
      BY <1>0 DEF Editor
    <3>. QED BY <1>3, <3>1 DEF EditProgram
  <2>3. a \in Editor /\ a.selected = p
    BY <1>0, EditorFields
  <2> HIDE DEF a
  <2>4. b \in Editor /\ b.selected = p
    BY <2>3, EditorFields
  <2> HIDE DEF b
  <2>5. c \in Editor /\ c.selected = p
    BY <2>4, EditorFields
  <2> HIDE DEF c
  <2>6. d \in Editor /\ d.selected = p
    BY <2>1, <2>5, EditorFields
  <2> HIDE DEF d, s
  <2>7. e \in Editor /\ e.selected = p /\ e.steps = s
    BY <2>0, <2>6, EditorFields
  <2> HIDE DEF e
  <2>. QED BY <1>0, <2>0, <2>2, <2>7, PickerKeeps, ShowKeeps
<1>4. CASE CancelForm
  BY <1>0, <1>4, FormIsReset, ShowKeeps DEF CancelForm
<1>5. ASSUME NEW c \in ProgramCode, TypeHead(c) PROVE CalcInv'
  <2> DEFINE a == [editor EXCEPT !.named = TRUE]
             b == [a EXCEPT !.code = c]
  <2>1. Show(b)
    BY <1>0, <1>5 DEF TypeHead, Editor
  <2>2. a \in Editor /\ a.selected = editor.selected /\ a.steps = editor.steps
    BY <1>0, EditorFields
  <2> HIDE DEF a
  <2>3. b \in Editor /\ b.selected = editor.selected /\ b.steps = editor.steps
    BY <2>2, EditorFields
  <2> HIDE DEF b
  <2>. QED BY <1>0, <2>1, <2>3, ShowKeeps
<1>6. ASSUME NEW b \in BOOLEAN, ChooseProgramProduct(b) PROVE CalcInv'
  BY <1>0, <1>6, EditorFields, ShowKeeps DEF ChooseProgramProduct
<1>7. CASE AddStep
  <2> DEFINE s == editor.steps
             x == makeStep(MaxSeq + 1)
             t == Append(s, x)
  <2>1. MaxSeq \in Nat /\ \A i \in DOMAIN s : MaxSeq >= s[i].seq
    BY <1>0, MaxSeqIsAbove
  <2>2. x \in FormStep /\ x.seq = MaxSeq + 1
    BY <2>1 DEF makeStep, FormStep
  <2>3. EditSteps(t) /\ Len(s) < MaxForm
    BY <1>7 DEF AddStep
  <2>4. /\ s \in Seq(FormStep) /\ (\A i \in DOMAIN s : s[i].seq \in Nat)
        /\ \A i, j \in DOMAIN s : i < j => s[i].seq < s[j].seq
    BY <1>0, FormIsNumbered
  <2> HIDE DEF x, s
  <2>5. /\ t \in Seq(FormStep) /\ Len(t) = Len(s) + 1
        /\ \A i \in DOMAIN t : t[i] = IF i <= Len(s) THEN s[i] ELSE x
    BY <2>2, <2>4
  <2> HIDE DEF t
  <2>6. ASSUME NEW i \in DOMAIN t, NEW j \in DOMAIN t, i < j PROVE t[i].seq < t[j].seq
    <3>1. i \in DOMAIN s /\ t[i] = s[i]
      BY <2>4, <2>5, <2>6
    <3>2. CASE j \in DOMAIN s
      BY <2>4, <2>5, <2>6, <3>1, <3>2
    <3>3. CASE j \notin DOMAIN s
      <4>1. t[j] = x
        BY <2>4, <2>5, <3>3
      <4>. QED BY <2>1, <2>2, <2>4, <3>1, <4>1
    <3>. QED BY <3>2, <3>3
  <2>7. FormInOrder(t)
    BY <1>0, <2>3, <2>4, <2>5, <2>6 DEF FormInOrder, InOrder
  <2>. QED BY <2>3, <2>7, EditStepsKeeps
<1>8. ASSUME NEW i, RemoveStep(i) PROVE CalcInv'
  <2> DEFINE s == editor.steps
             r == SubSeq(s, 1, i - 1) \o SubSeq(s, i + 1, Len(s))
  <2>1. i \in DOMAIN s /\ EditSteps(Renumbered(r)) /\ s \in Seq(FormStep) /\ Len(s) <= MaxForm
    BY <1>0, <1>8 DEF RemoveStep, FormInOrder
  <2>2. r \in Seq(FormStep) /\ Len(r) = Len(s) - 1
    BY <2>1, StepRemoved
  <2> HIDE DEF r
  <2>3. Len(r) <= MaxForm
    BY <1>0, <2>1, <2>2
  <2>. QED BY <2>1, <2>2, <2>3, RenumberedIsInOrder, EditStepsKeeps
<1>9. ASSUME NEW i, NameStep(i) \/ TypeExpression(i) \/ InsertField(i) PROVE CalcInv'
  <2>1. i \in DOMAIN editor.steps /\ editor.steps[i] \in FormStep
    BY <1>0, <1>9, FormIsNumbered DEF NameStep, TypeExpression, InsertField
  <2>2. \A y \in FormStep, b \in BOOLEAN :
          /\ [y EXCEPT !.var_name = b] \in FormStep /\ [y EXCEPT !.expression = b] \in FormStep
          /\ [y EXCEPT !.var_name = b].seq = y.seq /\ [y EXCEPT !.expression = b].seq = y.seq
    BY DEF FormStep
  <2>3. PICK b \in BOOLEAN : \/ EditSteps([editor.steps EXCEPT ![i].var_name = b])
                             \/ EditSteps([editor.steps EXCEPT ![i].expression = b])
    <3>1. (~editor.steps[i].var_name) \in BOOLEAN /\ (~editor.steps[i].expression) \in BOOLEAN
      OBVIOUS
    <3>. QED BY <1>9, <2>1, <3>1 DEF NameStep, TypeExpression, InsertField
  <2>. QED BY <2>1, <2>2, <2>3, StepTypedKeeps
<1>10. ASSUME NEW i, NEW j, MoveStep(i, j) PROVE CalcInv'
  <2>1. /\ i \in DOMAIN editor.steps /\ j \in DOMAIN editor.steps /\ EditSteps(Renumbered(Swapped(i, j)))
        /\ editor.steps \in Seq(FormStep) /\ Len(editor.steps) <= MaxForm
    BY <1>0, <1>10 DEF MoveStep, FormInOrder
  <2>2. Swapped(i, j) \in Seq(FormStep) /\ Len(Swapped(i, j)) = Len(editor.steps)
    BY <2>1 DEF Swapped
  <2>. QED BY <2>1, <2>2, RenumberedIsInOrder, EditStepsKeeps
<1>11. CASE SaveProgram
  <2>1. NumbersInOrder(FilledSeqs(editor.steps)) /\ editor.code # NoCode
    BY <1>0, <1>11, FilledAreInOrder DEF SaveProgram, CanSave
  <2> DEFINE q == FilledSeqs(editor.steps)
             r == [st |-> "sent", mine |-> TRUE, about |-> editor.selected, code |-> editor.code,
                   steps |-> q, edit |-> editor.editing]
  <2>2. saving' = r /\ UNCHANGED <<editor, programs, programList, cloning, testing>>
    BY <1>11 DEF SaveProgram
  <2> HIDE DEF q
  <2>3. r \in Request /\ r.steps = q /\ r.code = editor.code
    BY <1>0, <2>1 DEF Request, Editor, NumbersInOrder, q
  <2> HIDE DEF r
  <2>. QED BY <2>1, <2>2, <2>3 DEF CalcInv, Busy, q
<1>12. ASSUME NEW r, NEW p \in Program, r = [NoRequest EXCEPT !.st = "sent", !.mine = TRUE, !.about = p]
       PROVE  r \in Request /\ r.about = p
  <2>1. r = [st |-> "sent", mine |-> TRUE, about |-> p, code |-> NoCode, steps |-> <<>>, edit |-> FALSE]
    BY <1>12 DEF NoRequest
  <2>. QED BY <2>1 DEF Request
<1>13. ASSUME NEW p \in Program, CloneTemplate(p) PROVE CalcInv'
  <2> DEFINE r == [about |-> p, mine |-> TRUE, sent |-> left["sends"]]
  <2>1. p \in DOMAIN programs /\ UNCHANGED <<editor, programs, programList, saving, testing>>
    BY <1>0, <1>13 DEF CloneTemplate
  <2>2. cloning' = cloning \cup {r} /\ r.about = p
    BY <1>13 DEF CloneTemplate
  <2>3. r \in CloneRequest
    BY DEF CloneRequest, StudioTypeOK, Bounded
  <2> HIDE DEF r
  <2>. QED BY <2>1, <2>2, <2>3 DEF CalcInv, Busy
<1>14. CASE RunTest
  <2>1. testing' \in Request
    BY <1>0, <1>12, <1>14 DEF RunTest
  <2>2. editor' \in Editor /\ editor'.steps = editor.steps /\ editor'.selected = editor.selected
    <3>1. NoProgram \in Program \cup {NoProgram}
      OBVIOUS
    <3>. QED BY <1>0, <1>14, <3>1, EditorFields DEF RunTest
  <2>3. UNCHANGED <<programs, programList, saving, cloning>>
    BY <1>14 DEF RunTest
  <2>. QED BY <2>1, <2>2, <2>3 DEF CalcInv, Busy
<1>. QED BY <1>1, <1>2, <1>3, <1>4, <1>5, <1>6, <1>7, <1>8, <1>9, <1>10, <1>11, <1>13, <1>14 DEF EngineClicks

\* A program more: the others stay as they are.
LEMMA ProgramIsAdded ==
  ASSUME CalcInv, NEW p \in Program, p \notin DOMAIN programs, NEW s \in StoredProgram, NumbersInOrder(s.steps),
         programs' = WithProgram(p, s), programList' = ListStale
  PROVE  /\ DOMAIN programs' = DOMAIN programs \cup {p}
         /\ DOMAIN programs' \subseteq Program /\ programs' \in [DOMAIN programs' -> StoredProgram]
         /\ \A q \in DOMAIN programs' : NumbersInOrder(programs'[q].steps)
         /\ programList' \in QueryOf(SUBSET DOMAIN programs')
<1>1. DOMAIN programs' = DOMAIN programs \cup {p}
  BY DEF WithProgram
<1>2. \A q \in DOMAIN programs' : programs'[q] = IF q = p THEN s ELSE programs[q]
  BY DEF WithProgram
<1>3. programs' = [q \in DOMAIN programs' |-> programs'[q]]
  BY DEF WithProgram
<1>4. \A q \in DOMAIN programs' : programs'[q] \in StoredProgram /\ NumbersInOrder(programs'[q].steps)
  BY <1>1, <1>2 DEF CalcInv
<1>5. programList' \in QueryOf(SUBSET DOMAIN programs')
  <2>1. programList \in QueryOf(SUBSET DOMAIN programs') /\ DOMAIN programs' \in SUBSET DOMAIN programs'
    BY <1>1 DEF CalcInv, QueryOf
  <2>2. programList' \in {Refreshed(programList, DOMAIN programs'), Missed(programList)}
    BY DEF ListStale
  <2>. QED BY <2>1, <2>2, QueryKinds
<1>6. DOMAIN programs' \subseteq Program
  BY <1>1 DEF CalcInv
<1>. QED BY <1>1, <1>3, <1>4, <1>5, <1>6

\* What the server answers brings steps in order.
LEMMA EngineAnswersKeep ==
  ASSUME CalcInv, EngineAnswers
  PROVE  CalcInv'
<1>0. /\ editor \in Editor /\ FormInOrder(editor.steps) /\ editor.selected \in DOMAIN programs \cup {NoProgram}
      /\ FormInOrder(<<makeStep(1)>>) /\ {saving, testing} \subseteq Request /\ NumbersInOrder(saving.steps)
  BY BlankIsInOrder DEF CalcInv
<1>1. ASSUME NEW r \in Request, NEW st \in {"done", "failed"}
      PROVE  /\ [r EXCEPT !.st = st] \in Request /\ [r EXCEPT !.st = st].steps = r.steps
             /\ ~Busy([r EXCEPT !.st = st])
  BY DEF Request, Busy
<1>2. CASE ProgramSaved
  <2>1. PICK p \in Program \ DOMAIN programs :
          /\ programs' = WithProgram(p, [code |-> saving.code, template |-> FALSE, locked |-> FALSE,
                                         steps |-> saving.steps])
          /\ saving' = [saving EXCEPT !.st = "done", !.about = p]
    BY <1>2 DEF ProgramSaved
  <2> DEFINE s == [code |-> saving.code, template |-> FALSE, locked |-> FALSE, steps |-> saving.steps]
  <2>2. s \in StoredProgram /\ s.steps = saving.steps
    BY <1>0, <1>2 DEF CalcInv, ProgramSaved, StoredProgram, Request, NumbersInOrder
  <2> HIDE DEF s
  <2>3. programs' = WithProgram(p, s) /\ programList' = ListStale /\ UNCHANGED <<cloning, testing>>
    BY <1>2, <2>1 DEF ProgramSaved, s
  <2>4. /\ DOMAIN programs' = DOMAIN programs \cup {p}
        /\ DOMAIN programs' \subseteq Program /\ programs' \in [DOMAIN programs' -> StoredProgram]
        /\ \A q \in DOMAIN programs' : NumbersInOrder(programs'[q].steps)
        /\ programList' \in QueryOf(SUBSET DOMAIN programs')
    BY <1>0, <2>2, <2>3, ProgramIsAdded
  <2>5. saving' \in Request /\ saving'.steps = saving.steps /\ ~Busy(saving')
    BY <1>0, <2>1 DEF Request, Busy
  <2>6. editor' \in Editor /\ FormInOrder(editor'.steps) /\ editor'.selected = editor.selected
    BY <1>0, <1>2, FormIsReset DEF ProgramSaved
  <2>. QED BY <1>0, <2>3, <2>4, <2>5, <2>6 DEF CalcInv, Busy
<1>3. CASE ProgramNotSaved
  BY <1>0, <1>1, <1>3 DEF ProgramNotSaved, CalcInv, Busy
<1>4. ASSUME NEW r \in cloning, TemplateCloned(r) PROVE CalcInv'
  <2>1. PICK p \in Program \ DOMAIN programs, c \in ProgramCode \ Codes :
          /\ programs' = WithProgram(p, [code |-> c, template |-> FALSE, locked |-> FALSE,
                                         steps |-> programs[r.about].steps])
          /\ editor' = IF r.mine THEN openProgram(p) ELSE editor
    BY <1>4 DEF TemplateCloned
  <2> DEFINE t == programs[r.about].steps
             s == [code |-> c, template |-> FALSE, locked |-> FALSE, steps |-> t]
  <2>2. NumbersInOrder(t)
    BY <1>4 DEF TemplateCloned, CalcInv
  <2>3. programs' = WithProgram(p, s) /\ programList' = ListStale /\ UNCHANGED <<saving, testing>>
    BY <1>4, <2>1 DEF TemplateCloned
  <2> HIDE DEF t
  <2>4. s \in StoredProgram /\ s.steps = t
    BY <2>2 DEF StoredProgram, NumbersInOrder
  <2> HIDE DEF s
  <2>5. /\ DOMAIN programs' = DOMAIN programs \cup {p}
        /\ DOMAIN programs' \subseteq Program /\ programs' \in [DOMAIN programs' -> StoredProgram]
        /\ \A q \in DOMAIN programs' : NumbersInOrder(programs'[q].steps)
        /\ programList' \in QueryOf(SUBSET DOMAIN programs')
    BY <2>2, <2>3, <2>4, ProgramIsAdded
  <2>6. cloning' = cloning \ {r}
    BY <1>4 DEF TemplateCloned
  <2>7. editor' \in Editor /\ FormInOrder(editor'.steps) /\ editor'.selected \in DOMAIN programs' \cup {NoProgram}
    BY <1>0, <2>1, <2>5, ProgramIsOpened
  <2>. QED BY <1>0, <2>3, <2>5, <2>6, <2>7 DEF CalcInv, Busy
<1>5. ASSUME NEW r \in cloning, TemplateNotCloned(r) PROVE CalcInv'
  BY <1>0, <1>5 DEF TemplateNotCloned, CalcInv, Busy
<1>6. CASE TestAnswered
  <2>1. testing' \in Request /\ UNCHANGED <<programs, programList, saving, cloning>>
    BY <1>0, <1>1, <1>6 DEF TestAnswered
  <2>2. editor' \in Editor /\ editor'.steps = editor.steps /\ editor'.selected = editor.selected
    <3>1. testing.about \in Program \cup {NoProgram}
      BY <1>0 DEF Request
    <3>. QED BY <1>0, <1>6, <3>1, EditorFields DEF TestAnswered
  <2>. QED BY <2>1, <2>2 DEF CalcInv, Busy
<1>. QED BY <1>2, <1>3, <1>4, <1>5, <1>6 DEF EngineAnswers

\* The query is answered, the studio comes and goes.
LEMMA EngineComesAndGoes ==
  ASSUME CalcInv, ProgramsArrive \/ EnterEngine \/ ExitEngine
  PROVE  CalcInv'
<1>0. programList \in QueryOf(SUBSET DOMAIN programs) /\ DOMAIN programs \in SUBSET DOMAIN programs
  BY DEF CalcInv
<1>1. programList' \in QueryOf(SUBSET DOMAIN programs) /\ UNCHANGED programs
  BY <1>0, QueryKinds DEF ProgramsArrive, EnterEngine, ExitEngine, EngineLost
<1>2. CASE ProgramsArrive
  BY <1>1, <1>2 DEF ProgramsArrive, CalcInv, Busy
<1>3. CASE EngineLost
  <2>1. ASSUME NEW r \in Request
        PROVE  /\ Orphaned(r) \in Request /\ Orphaned(r).steps \in {r.steps, <<>>}
               /\ Busy(Orphaned(r)) => Busy(r) /\ Orphaned(r).code = r.code /\ Orphaned(r).about = r.about
    <3>1. CASE Busy(r)
      BY <3>1 DEF Orphaned, Request, Busy
    <3>2. CASE ~Busy(r)
      BY <3>2, BlankIsInOrder DEF Orphaned
    <3>. QED BY <3>1, <3>2
  <2>2. /\ saving' = Orphaned(saving) /\ testing' = Orphaned(testing)
        /\ cloning' = {[r EXCEPT !.mine = FALSE] : r \in cloning}
        /\ editor' = BlankEditor
    BY <1>3 DEF EngineLost
  <2>3. /\ {saving', testing'} \subseteq Request /\ NumbersInOrder(saving'.steps)
        /\ (Busy(saving') => saving'.code # NoCode)
    BY <2>1, <2>2, BlankIsInOrder DEF CalcInv
  <2>4. cloning' \subseteq CloneRequest /\ \A r \in cloning' : r.about \in DOMAIN programs
    BY <2>2 DEF CalcInv, CloneRequest
  <2>. QED BY <1>1, <2>2, <2>3, <2>4, BlankIsInOrder DEF CalcInv, Busy
<1>. QED BY <1>2, <1>3 DEF EnterEngine, ExitEngine

\* Every step of the studios keeps the steps in order.
LEMMA CalcInvNext == CalcInv /\ StudioTypeOK /\ [Next]_vars => CalcInv'
<1>. SUFFICES ASSUME CalcInv, StudioTypeOK, [Next]_vars PROVE CalcInv'
  OBVIOUS
<1>1. CASE Calculations
  BY <1>1, EngineClicksKeep, EngineAnswersKeep, EngineComesAndGoes DEF Calculations, CalcNext
<1>2. CASE UNCHANGED calcVars
  BY <1>2 DEF calcVars, CalcInv, Busy
<1>. QED BY <1>1, <1>2 DEF Next, Insights, Fields, Queues, Masters, Runtime, Notifications, vars

(***************************************************************************)
(* Connections, queues and routing rules                                   *)
(***************************************************************************)
RuleTable == UNION {[R -> Item] : R \in SUBSET Rule}
\* Items that have their own settings, and lists of them that are among I.
OwnItems == {l \in UNION {[I -> StoredItem] : I \in SUBSET Item} : \A i \in DOMAIN l : l[i].of = i}
OwnAmong(I) == {l \in OwnItems : DOMAIN l \subseteq I}

\* What is shown of an item and what is edited are of the item that is selected.
SoundBench(b, I) ==
  /\ b \in Bench
  /\ b.selected # NoItem => b.copy.of = b.selected /\ b.selected \in I
  /\ b.mode = "edit" => b.selected # NoItem /\ b.form.of = b.selected
SoundSave(s, I) ==
  /\ s \in ItemSave
  /\ s.st = "sent" /\ s.id # NoItem => s.form.of = s.id /\ s.id \in I
\* A rule is drawn up for a queue.
SoundCockpit(c, I) ==
  /\ c \in Cockpit
  /\ c.rule.shown => c.rule.queue \in Item
  /\ \A k \in ItemKind : SoundBench(c.bench[k], I)
RuleSent == {s \in RuleSave : s.op = "save" => s.queue \in Item}

\* Settings stay with the items they were drawn up for, from the list to the form and
\* from the form to the request.
QueueTypes ==
  /\ SoundCockpit(cockpit, DOMAIN items)
  /\ items \in OwnItems /\ itemLists \in [ItemKind -> QueryOf(OwnAmong(DOMAIN items))]
  /\ itemSaves \in [ItemKind -> ItemSave] /\ \A k \in ItemKind : SoundSave(itemSaves[k], DOMAIN items)
  /\ rules \in RuleTable /\ ruleLists \in [Item \cup {NoItem} -> QueryOf(SUBSET Rule)]
  /\ ruleSaves \subseteq RuleSent

RulesShown(q) == Here("queues") /\ OnRouting /\ cockpit.rulesOf = q

\* Without a gap, the rules of each queue are true or are going to be.
QueueInv ==
  /\ QueueTypes
  /\ \A q \in Item \cup {NoItem} : Truthful(ruleLists[q], RulesOf(q), RulesShown(q))

\* What the types of the cockpit give: settings of the item they are shown under.
LEMMA QueueTypesSuffice == QueueTypes => QueueTypeOK /\ SettingsAreOwn
<1>. SUFFICES ASSUME QueueTypes PROVE QueueTypeOK /\ SettingsAreOwn
  OBVIOUS
<1>1. /\ DOMAIN items \subseteq Item /\ items \in [DOMAIN items -> StoredItem] /\ SettingsAreOwn
  BY DEF QueueTypes, OwnItems, SettingsAreOwn
<1>2. DOMAIN rules \subseteq Rule /\ rules \in [DOMAIN rules -> Item]
  BY DEF QueueTypes, RuleTable
<1>3. \A q \in Item \cup {NoItem} : ruleLists[q].data \cup ruleLists[q].old \subseteq Rule
  BY DEF QueueTypes, QueryOf
<1>. QED BY <1>1, <1>2, <1>3 DEF QueueTypes, QueueTypeOK, SoundCockpit, RuleSent

\* The rules of a queue are rules.
LEMMA RulesOfAreRules ==
  ASSUME rules \in RuleTable, NEW q
  PROVE  RulesOf(q) \in SUBSET Rule
BY DEF RulesOf, RuleTable

\* The items of a kind are stored items.
LEMMA OfKindIsStored ==
  ASSUME items \in OwnItems, NEW k
  PROVE  OfKind(k) \in OwnAmong(DOMAIN items)
<1> DEFINE S == {j \in DOMAIN items : items[j].kind = k}
<1>1. PICK I \in SUBSET Item : items \in [I -> StoredItem]
  BY DEF OwnItems
<1>2. S \in SUBSET Item /\ OfKind(k) \in [S -> StoredItem] /\ S \subseteq DOMAIN items
  BY <1>1 DEF OfKind
<1>3. \A i \in DOMAIN OfKind(k) : OfKind(k)[i].of = i
  BY DEF OfKind, OwnItems
<1>. QED BY <1>2, <1>3 DEF OwnItems, OwnAmong

\* The cockpit as it opens has selected nothing.
LEMMA BlankCockpitIsSound ==
  /\ (\A I : SoundCockpit(BlankCockpit, I)) /\ BlankCockpit.tab = "connection"
  /\ \A k \in ItemKind : NoSave(k) \in ItemSave /\ NoSave(k).st = "none"
<1>1. \A k \in ItemKind : BlankForm(k) \in Form
  BY DEF BlankForm, Form
<1>2. NoForm \in RuleForm /\ ~NoForm.shown
  BY DEF NoForm, RuleForm
<1> DEFINE b(k) == [mode |-> "view", selected |-> NoItem, copy |-> BlankForm(k), form |-> BlankForm(k)]
<1>3. \A k \in ItemKind : b(k) \in Bench /\ b(k).mode = "view" /\ b(k).selected = NoItem
  BY <1>1 DEF Bench
<1> HIDE DEF b
<1>4. BlankCockpit = [tab |-> "connection", tested |-> NoItem, testing |-> NoItem, rulesOf |-> NoItem,
                      rule |-> NoForm, bench |-> [k \in ItemKind |-> b(k)]]
  BY DEF BlankCockpit, b
<1>5. BlankCockpit \in Cockpit /\ BlankCockpit.tab = "connection" /\ ~BlankCockpit.rule.shown
  BY <1>2, <1>3, <1>4 DEF Cockpit, ItemKind
<1>6. ASSUME NEW I, NEW k \in ItemKind PROVE SoundBench(BlankCockpit.bench[k], I)
  BY <1>3, <1>4 DEF SoundBench
<1>7. \A k \in ItemKind : NoSave(k) \in ItemSave /\ NoSave(k).st = "none"
  BY <1>1 DEF NoSave, ItemSave
<1>. QED BY <1>5, <1>6, <1>7 DEF SoundCockpit

\* Nothing is selected, saved or on its way at first.
LEMMA QueueInvInit == QueueInit => QueueInv
<1>. SUFFICES ASSUME QueueInit PROVE QueueInv
  OBVIOUS
<1>1. items \in OwnItems /\ rules \in RuleTable
  BY QueueAssumption DEF QueueInit, OwnItems, RuleTable
<1>2. Nobody \in OwnAmong(DOMAIN items)
  BY DEF Nobody, OwnAmong, OwnItems
<1>3. Unasked(Nobody) \in QueryOf(OwnAmong(DOMAIN items)) /\ Unasked({}) \in QueryOf(SUBSET Rule)
  BY <1>2 DEF Unasked, QueryOf
<1>4. \A k \in ItemKind : itemSaves[k] = NoSave(k)
  BY DEF QueueInit
<1>5. QueueTypes
  BY <1>1, <1>3, <1>4, BlankCockpitIsSound DEF QueueInit, QueueTypes, SoundSave, Unasked
<1>6. ASSUME NEW q \in Item \cup {NoItem} PROVE Truthful(ruleLists[q], RulesOf(q), RulesShown(q))
  <2>1. ~RulesShown(q)
    BY BlankCockpitIsSound DEF QueueInit, RulesShown, OnRouting
  <2>. QED BY <2>1, UnaskedIsTruthful DEF QueueInit, Truthful
<1>. QED BY <1>5, <1>6 DEF QueueInv

\* The cockpit, while nothing of the server and of its answers changes, and no list
\* comes on the screen.
LEMMA CockpitTurns ==
  ASSUME QueueInv, UNCHANGED <<items, itemLists, rules, ruleLists>>, SoundCockpit(cockpit', DOMAIN items),
         itemSaves' \in [ItemKind -> ItemSave], \A k \in ItemKind : SoundSave(itemSaves'[k], DOMAIN items),
         ruleSaves' \subseteq RuleSent,
         \A q \in Item \cup {NoItem} : RulesShown(q)' => RulesShown(q)
  PROVE  QueueInv'
<1>1. QueueTypes'
  BY DEF QueueInv, QueueTypes
<1>2. ASSUME NEW q \in Item \cup {NoItem} PROVE Truthful(ruleLists'[q], RulesOf(q)', RulesShown(q)')
  <2>1. RulesOf(q)' = RulesOf(q) /\ (RulesShown(q)' => RulesShown(q))
    BY DEF RulesOf
  <2>. QED BY <2>1, HiddenIsTruthful DEF QueueInv
<1>. QED BY <1>1, <1>2 DEF QueueInv

\* The cockpit alone.
LEMMA CockpitSteers ==
  ASSUME QueueInv, NEW c, Turned(c), SoundCockpit(c, DOMAIN items),
         c.tab = "routing" => cockpit.tab = "routing" /\ c.rulesOf = cockpit.rulesOf
  PROVE  QueueInv'
<1>1. /\ cockpit' = c /\ UNCHANGED <<items, itemLists, itemSaves, rules, ruleLists, ruleSaves, studio>>
  BY DEF Turned, Steer, At
<1>2. \A q \in Item \cup {NoItem} : RulesShown(q)' => RulesShown(q)
  BY <1>1 DEF RulesShown, OnRouting, Here
<1>3. itemSaves \in [ItemKind -> ItemSave] /\ (\A k \in ItemKind : SoundSave(itemSaves[k], DOMAIN items)) /\ ruleSaves \subseteq RuleSent
  BY DEF QueueInv, QueueTypes
<1>. QED BY <1>1, <1>2, <1>3, CockpitTurns

\* The rules of a queue come on the screen.
LEMMA CockpitRoutes ==
  ASSUME QueueInv, NEW c, Routed(c), SoundCockpit(c, DOMAIN items)
  PROVE  QueueInv'
<1>1. /\ cockpit' = c /\ UNCHANGED <<items, itemLists, itemSaves, rules, ruleSaves, studio>>
      /\ ruleLists' = [ruleLists EXCEPT ![c.rulesOf] = Asked(@, RulesOf(c.rulesOf))]
  BY DEF Routed, Steer, At
<1>2. c.rulesOf \in Item \cup {NoItem} /\ ruleLists \in [Item \cup {NoItem} -> QueryOf(SUBSET Rule)] /\ rules \in RuleTable
  BY DEF SoundCockpit, Cockpit, QueueInv, QueueTypes
<1>3. Asked(ruleLists[c.rulesOf], RulesOf(c.rulesOf)) \in QueryOf(SUBSET Rule)
  BY <1>2, RulesOfAreRules, QueryKinds
<1>4. QueueTypes'
  BY <1>1, <1>2, <1>3 DEF QueueInv, QueueTypes
<1>5. ASSUME NEW q \in Item \cup {NoItem} PROVE Truthful(ruleLists'[q], RulesOf(q)', RulesShown(q)')
  <2>1. RulesOf(q)' = RulesOf(q) /\ Truthful(ruleLists[q], RulesOf(q), RulesShown(q))
    BY <1>1 DEF RulesOf, QueueInv
  <2>2. CASE q = c.rulesOf
    <3>1. ruleLists'[q] = Asked(ruleLists[q], RulesOf(q))
      BY <1>1, <1>2, <2>2
    <3>. QED BY <2>1, <3>1, AskedIsTruthful
  <2>3. CASE q # c.rulesOf
    <3>1. ruleLists'[q] = ruleLists[q] /\ ~RulesShown(q)'
      BY <1>1, <1>2, <2>3 DEF RulesShown
    <3>. QED BY <2>1, <3>1, HiddenIsTruthful
  <2>. QED BY <2>2, <2>3
<1>. QED BY <1>4, <1>5 DEF QueueInv

\* One half of the cockpit, and the test result.
LEMMA BenchTaken ==
  ASSUME NEW c, NEW I, SoundCockpit(c, I), NEW k \in ItemKind, NEW b, SoundBench(b, I)
  PROVE  LET e == [c EXCEPT !.bench[k] = b]
         IN  SoundCockpit(e, I) /\ e.tab = c.tab /\ e.rulesOf = c.rulesOf
<1> DEFINE f == [c.bench EXCEPT ![k] = b]
           e == [c EXCEPT !.bench = f]
<1>1. c \in Cockpit /\ c.bench \in [ItemKind -> Bench] /\ b \in Bench
  BY DEF SoundCockpit, Cockpit, SoundBench
<1>2. f \in [ItemKind -> Bench] /\ \A j \in ItemKind : f[j] = IF j = k THEN b ELSE c.bench[j]
  BY <1>1
<1>3. \A j \in ItemKind : SoundBench(f[j], I)
  BY <1>2 DEF SoundCockpit
<1>4. [c EXCEPT !.bench[k] = b] = e
  BY <1>1 DEF Cockpit
<1> HIDE DEF f
<1>5. e \in Cockpit /\ e.tab = c.tab /\ e.rulesOf = c.rulesOf /\ e.bench = f /\ e.rule = c.rule
  BY <1>1, <1>2 DEF Cockpit
<1> HIDE DEF e
<1>. QED BY <1>3, <1>4, <1>5 DEF SoundCockpit

\* A test that is shown changes nothing else.
LEMMA TestShown ==
  ASSUME NEW c, NEW I, SoundCockpit(c, I), NEW t \in Item \cup {NoItem}
  PROVE  LET d == [c EXCEPT !.tested = t]
         IN  SoundCockpit(d, I) /\ d.tab = c.tab /\ d.rulesOf = c.rulesOf
BY DEF SoundCockpit, Cockpit

\* Choosing, editing and giving up an item.
LEMMA ItemClicksKeep ==
  ASSUME QueueInv, NEW k \in ItemKind, ItemClicks(k)
  PROVE  QueueInv'
<1> DEFINE I == DOMAIN items
<1>0. /\ SoundCockpit(cockpit, I) /\ SoundBench(Half(k), I) /\ Half(k) \in Bench /\ cockpit \in Cockpit
      /\ itemLists \in [ItemKind -> QueryOf(OwnAmong(I))] /\ I \subseteq Item
      /\ itemSaves \in [ItemKind -> ItemSave] /\ \A j \in ItemKind : SoundSave(itemSaves[j], I)
      /\ ruleSaves \subseteq RuleSent
  BY DEF QueueInv, QueueTypes, SoundCockpit, SoundBench, Half, OwnItems
<1>1. Untested(k) \in Item \cup {NoItem} /\ k # "routing"
  BY <1>0 DEF Untested, Cockpit, ItemKind
<1>2. ASSUME NEW b, SoundBench(b, I), NEW t \in Item \cup {NoItem}, Turned([cockpit EXCEPT !.bench[k] = b, !.tested = t])
      PROVE  QueueInv'
  <2> DEFINE e == [cockpit EXCEPT !.bench[k] = b]
             c == [e EXCEPT !.tested = t]
  <2> HIDE DEF I
  <2>1. SoundCockpit(e, I) /\ e.tab = cockpit.tab /\ e.rulesOf = cockpit.rulesOf
    BY <1>0, <1>2, BenchTaken
  <2>2. Turned(c)
    BY <1>2
  <2> HIDE DEF e
  <2>3. SoundCockpit(c, I) /\ c.tab = e.tab /\ c.rulesOf = e.rulesOf
    BY <1>2, <2>1, TestShown
  <2> HIDE DEF c
  <2>. QED BY <2>1, <2>2, <2>3, CockpitSteers DEF I
<1>3. ASSUME NEW b, SoundBench(b, I), Turned([cockpit EXCEPT !.bench[k] = b])
      PROVE  QueueInv'
  <2> DEFINE c == [cockpit EXCEPT !.bench[k] = b]
  <2> HIDE DEF I
  <2>1. SoundCockpit(c, I) /\ c.tab = cockpit.tab /\ c.rulesOf = cockpit.rulesOf
    BY <1>0, <1>3, BenchTaken
  <2> HIDE DEF c
  <2>2. Turned(c)
    BY <1>3 DEF c
  <2>. QED BY <2>1, <2>2, CockpitSteers DEF I
<1>4. CASE NewItem(k)
  <2> DEFINE b == [Half(k) EXCEPT !.mode = "new", !.selected = NoItem, !.form = BlankForm(k)]
  <2>1. BlankForm(k) \in Form
    BY DEF BlankForm, Form
  <2>2. SoundBench(b, I)
    BY <1>0, <2>1 DEF SoundBench, Bench
  <2>3. Turned([cockpit EXCEPT !.bench[k] = b, !.tested = Untested(k)])
    BY <1>4 DEF NewItem, Half
  <2>. QED BY <1>1, <1>2, <2>2, <2>3
<1>5. CASE \E i \in Item : SelectItem(k, i)
  <2>. PICK i \in Item : SelectItem(k, i)
    BY <1>5
  <2> DEFINE l == itemLists[k].data
             copy == Copied(l[i])
             b == [mode |-> "view", selected |-> i, copy |-> copy, form |-> copy]
  <2>1. l \in OwnAmong(I) /\ i \in DOMAIN l
    BY <1>0 DEF QueryOf, SelectItem
  <2>2. l[i] \in StoredItem /\ l[i].of = i /\ i \in I
    BY <2>1 DEF OwnAmong, OwnItems
  <2>3. copy \in Form /\ copy.of = i
    BY <2>2 DEF Copied, Form, StoredItem
  <2>4. SoundBench(b, I)
    BY <2>2, <2>3 DEF SoundBench, Bench
  <2>5. Turned([cockpit EXCEPT !.bench[k] = b, !.tested = Untested(k)])
    BY DEF SelectItem
  <2>. QED BY <1>1, <1>2, <2>4, <2>5
<1>6. CASE EditItem(k)
  <2> DEFINE b == [Half(k) EXCEPT !.mode = "edit", !.form = Half(k).copy]
  <2>1. SoundBench(b, I)
    BY <1>0, <1>6 DEF SoundBench, Bench, EditItem
  <2>2. [cockpit EXCEPT !.bench[k].mode = "edit", !.bench[k].form = Half(k).copy] = [cockpit EXCEPT !.bench[k] = b]
    BY <1>0 DEF Half, Cockpit, Bench
  <2>3. Turned([cockpit EXCEPT !.bench[k].mode = "edit", !.bench[k].form = Half(k).copy])
    BY <1>6 DEF EditItem
  <2>. QED BY <1>3, <2>1, <2>2, <2>3
<1>7. CASE CancelItem(k)
  <2> DEFINE b == [Half(k) EXCEPT !.mode = "view"]
  <2>1. SoundBench(b, I)
    BY <1>0 DEF SoundBench, Bench
  <2>2. Turned([cockpit EXCEPT !.bench[k] = b])
    BY <1>7 DEF CancelItem, Half
  <2>. QED BY <1>3, <2>1, <2>2
<1>8. CASE SaveItem(k)
  <2> DEFINE s == [st |-> "sent", mine |-> TRUE, form |-> Half(k).form,
                   id |-> IF Half(k).mode = "new" THEN NoItem ELSE Half(k).selected]
  <2>1. /\ Half(k).mode # "view" /\ itemSaves' = [itemSaves EXCEPT ![k] = s]
        /\ UNCHANGED <<cockpit, items, itemLists, rules, ruleLists, ruleSaves, studio>>
    BY <1>8 DEF SaveItem, At
  <2>2. SoundSave(s, I)
    BY <1>0, <2>1 DEF SoundSave, SoundBench, Bench, ItemSave
  <2> HIDE DEF s
  <2>3. itemSaves' \in [ItemKind -> ItemSave] /\ \A j \in ItemKind : SoundSave(itemSaves'[j], I)
    BY <1>0, <2>1, <2>2 DEF SoundSave
  <2>4. \A q \in Item \cup {NoItem} : RulesShown(q)' => RulesShown(q)
    BY <2>1 DEF RulesShown, OnRouting, Here
  <2>. QED BY <1>0, <2>1, <2>3, <2>4, CockpitTurns
<1>. QED BY <1>4, <1>5, <1>6, <1>7, <1>8 DEF ItemClicks

\* The other clicks.
LEMMA QueueClicksKeep ==
  ASSUME QueueInv, QueueClicks
  PROVE  QueueInv'
<1> DEFINE I == DOMAIN items
<1>0. /\ SoundCockpit(cockpit, I) /\ SoundBench(Half("queue"), I) /\ Half("queue") \in Bench
      /\ cockpit \in Cockpit /\ (cockpit.rule.shown => cockpit.rule.queue \in Item)
      /\ (\A k \in ItemKind : SoundBench(cockpit.bench[k], I))
      /\ itemLists \in [ItemKind -> QueryOf(OwnAmong(I))] /\ I \subseteq Item
      /\ itemSaves \in [ItemKind -> ItemSave] /\ (\A j \in ItemKind : SoundSave(itemSaves[j], I))
      /\ ruleSaves \subseteq RuleSent /\ rules \in RuleTable
  BY DEF QueueInv, QueueTypes, SoundCockpit, SoundBench, Half, OwnItems, ItemKind
<1>1. DOMAIN itemLists["queue"].data \subseteq Item
  BY <1>0 DEF QueryOf, OwnAmong, ItemKind
<1>2. CASE \E t \in ItemKind \cup {"routing"} : ChooseTab(t)
  <2>. PICK t \in ItemKind \cup {"routing"} : ChooseTab(t)
    BY <1>2
  <2> DEFINE c == [cockpit EXCEPT !.tab = t]
  <2>1. SoundCockpit(c, I) /\ c.tab = t
    BY <1>0 DEF SoundCockpit, Cockpit
  <2>2. IF t = "routing" THEN Routed(c) ELSE Turned(c)
    BY DEF ChooseTab
  <2> HIDE DEF c
  <2>. QED BY <2>1, <2>2, CockpitRoutes, CockpitSteers
<1>3. CASE \E k \in ItemKind : ItemClicks(k)
  BY <1>3, ItemClicksKeep
<1>4. ASSUME NEW f \in Form, f.of = Half("queue").form.of, Turned([cockpit EXCEPT !.bench["queue"].form = f])
      PROVE  QueueInv'
  <2> DEFINE b == [Half("queue") EXCEPT !.form = f]
             c == [cockpit EXCEPT !.bench["queue"] = b]
  <2>1. SoundBench(b, I)
    BY <1>0, <1>4 DEF SoundBench, Bench
  <2>2. [cockpit EXCEPT !.bench["queue"].form = f] = c
    BY DEF Half
  <2> HIDE DEF b
  <2>3. SoundCockpit(c, I) /\ c.tab = cockpit.tab /\ c.rulesOf = cockpit.rulesOf
    BY <1>0, <2>1, BenchTaken DEF ItemKind, Cockpit
  <2> HIDE DEF c
  <2>. QED BY <1>4, <2>2, <2>3, CockpitSteers
<1>5. CASE \E m \in BOOLEAN : ChooseType(m)
  <2>. PICK m \in BOOLEAN : ChooseType(m)
    BY <1>5
  <2> DEFINE f == [Half("queue").form EXCEPT !.master = m]
  <2>1. f \in Form /\ f.of = Half("queue").form.of
    BY <1>0 DEF Bench, Form
  <2>2. Turned([cockpit EXCEPT !.bench["queue"].form = f])
    BY DEF ChooseType, Half
  <2>. QED BY <1>4, <2>1, <2>2
<1>6. CASE \E p \in Item \cup {Unset} : ChooseParent(p)
  <2>. PICK p \in Item \cup {Unset} : ChooseParent(p)
    BY <1>6
  <2> DEFINE f == [Half("queue").form EXCEPT !.parent = p]
  <2>1. f \in Form /\ f.of = Half("queue").form.of
    BY <1>0 DEF Bench, Form
  <2>2. Turned([cockpit EXCEPT !.bench["queue"].form = f])
    BY DEF ChooseParent, Half
  <2>. QED BY <1>4, <2>1, <2>2
<1>7. CASE TestConnection
  <2> DEFINE c == [cockpit EXCEPT !.testing = Half("connection").selected, !.tested = NoItem]
  <2>1. Half("connection").selected \in Item \cup {NoItem}
    BY <1>0 DEF Cockpit, Bench, Half, ItemKind
  <2>2. SoundCockpit(c, I) /\ c.tab = cockpit.tab /\ c.rulesOf = cockpit.rulesOf
    BY <1>0, <2>1 DEF SoundCockpit, Cockpit
  <2>3. Turned(c)
    BY <1>7 DEF TestConnection
  <2> HIDE DEF c
  <2>. QED BY <2>2, <2>3, CockpitSteers
<1>8. CASE ShowRules
  <2> DEFINE c == [cockpit EXCEPT !.tab = "routing", !.rulesOf = Half("queue").selected]
  <2>1. Half("queue").selected \in Item \cup {NoItem}
    BY <1>0 DEF Bench
  <2>2. SoundCockpit(c, I)
    BY <1>0, <2>1 DEF SoundCockpit, Cockpit
  <2>. QED BY <1>8, <2>2, CockpitRoutes DEF ShowRules
<1>9. CASE \E q \in Item \cup {NoItem} : ChooseQueue(q)
  <2>. PICK q \in Item \cup {NoItem} : ChooseQueue(q)
    BY <1>9
  <2>1. SoundCockpit([cockpit EXCEPT !.rulesOf = q], I)
    BY <1>0 DEF SoundCockpit, Cockpit
  <2>. QED BY <2>1, CockpitRoutes DEF ChooseQueue
<1>10. ASSUME NEW r \in RuleForm, r.shown => r.queue \in Item, Turned([cockpit EXCEPT !.rule = r])
       PROVE  QueueInv'
  <2> DEFINE c == [cockpit EXCEPT !.rule = r]
  <2>1. SoundCockpit(c, I) /\ c.tab = cockpit.tab /\ c.rulesOf = cockpit.rulesOf
    BY <1>0, <1>10 DEF SoundCockpit, Cockpit
  <2> HIDE DEF c
  <2>2. Turned(c)
    BY <1>10 DEF c
  <2>. QED BY <2>1, <2>2, CockpitSteers
<1>11. CASE AddRule
  <2> DEFINE r == [shown |-> TRUE, id |-> NoRule, queue |-> cockpit.rulesOf]
  <2>1. r \in RuleForm /\ r.queue \in Item
    BY <1>0, <1>11 DEF AddRule, RuleForm, Cockpit
  <2>. QED BY <1>10, <1>11, <2>1 DEF AddRule
<1>12. CASE \E r \in Rule : EditRule(r)
  <2>. PICK e \in Rule : EditRule(e)
    BY <1>12
  <2> DEFINE r == [shown |-> TRUE, id |-> e, queue |-> rules[e]]
  <2>1. r \in RuleForm /\ r.queue \in Item
    BY <1>0 DEF EditRule, RuleForm, RuleTable
  <2>. QED BY <1>10, <2>1 DEF EditRule
<1>13. CASE CancelRule
  <2>1. NoForm \in RuleForm /\ ~NoForm.shown
    BY DEF NoForm, RuleForm
  <2>. QED BY <1>10, <1>13, <2>1 DEF CancelRule
<1>14. ASSUME NEW s \in RuleSent, SendRule(s) PROVE QueueInv'
  <2>1. /\ ruleSaves' = ruleSaves \cup {s}
        /\ UNCHANGED <<cockpit, items, itemLists, itemSaves, rules, ruleLists, studio>>
    BY <1>14 DEF SendRule, At
  <2>2. \A q \in Item \cup {NoItem} : RulesShown(q)' => RulesShown(q)
    BY <2>1 DEF RulesShown, OnRouting, Here
  <2>. QED BY <1>0, <1>14, <2>1, <2>2, CockpitTurns
<1>15. CASE SaveRule
  <2> DEFINE s == [op |-> "save", mine |-> TRUE, id |-> cockpit.rule.id, queue |-> cockpit.rule.queue]
  <2>1. s \in RuleSent
    BY <1>0, <1>15 DEF SaveRule, RuleSent, RuleSave, Cockpit, RuleForm
  <2>. QED BY <1>14, <1>15, <2>1 DEF SaveRule
<1>16. CASE \E r \in Rule : DeleteRule(r)
  <2>. PICK r \in Rule : DeleteRule(r)
    BY <1>16
  <2>1. [op |-> "delete", mine |-> TRUE, id |-> r, queue |-> NoItem] \in RuleSent
    BY DEF RuleSent, RuleSave
  <2>. QED BY <1>14, <2>1 DEF DeleteRule
<1>. QED BY <1>2, <1>3, <1>5, <1>6, <1>7, <1>8, <1>9, <1>11, <1>12, <1>13, <1>15, <1>16 DEF QueueClicks

\* What is sound stays so when items are added.
LEMMA MoreItems ==
  ASSUME NEW I, NEW J, I \subseteq J
  PROVE  /\ \A b : SoundBench(b, I) => SoundBench(b, J)
         /\ \A c : SoundCockpit(c, I) => SoundCockpit(c, J)
         /\ \A s : SoundSave(s, I) => SoundSave(s, J)
         /\ QueryOf(OwnAmong(I)) \subseteq QueryOf(OwnAmong(J))
<1>1. \A b : SoundBench(b, I) => SoundBench(b, J)
  BY DEF SoundBench
<1>2. OwnAmong(I) \subseteq OwnAmong(J)
  BY DEF OwnAmong
<1>3. QueryOf(OwnAmong(I)) \subseteq QueryOf(OwnAmong(J))
  BY <1>2 DEF QueryOf
<1>. QED BY <1>1, <1>3 DEF SoundCockpit, SoundSave

\* The row of a save is its item's own.
LEMMA RowIsOwn ==
  ASSUME QueueTypes, NEW k \in ItemKind, NEW i \in Item, ItemStored(k, i)
  PROVE  /\ RowOf(k, i) \in StoredItem /\ RowOf(k, i).of = i
         /\ items' \in OwnItems /\ DOMAIN items' = DOMAIN items \cup {i}
<1>1. /\ SoundSave(itemSaves[k], DOMAIN items) /\ itemSaves[k].st = "sent" /\ items \in OwnItems
      /\ i \in IF itemSaves[k].id = NoItem THEN Item \ DOMAIN items ELSE {itemSaves[k].id}
      /\ items' = [j \in DOMAIN items \cup {i} |-> IF j = i THEN RowOf(k, i) ELSE items[j]]
  BY DEF QueueTypes, ItemStored
<1>2. PICK I \in SUBSET Item : items \in [I -> StoredItem]
  BY <1>1 DEF OwnItems
<1>3. /\ itemSaves[k].form \in Form /\ (itemSaves[k].id # NoItem => itemSaves[k].form.of = i /\ i \in I)
      /\ itemSaves[k].id = NoItem => i # NoItem
  BY <1>1, <1>2, QueueAssumption DEF SoundSave, ItemSave
<1>4. RowOf(k, i) \in StoredItem /\ RowOf(k, i).of = i
  BY <1>2, <1>3 DEF RowOf, StoredItem, Form
<1>5. items' \in [I \cup {i} -> StoredItem] /\ \A j \in DOMAIN items' : items'[j].of = j
  BY <1>1, <1>2, <1>4 DEF OwnItems
<1>. QED BY <1>1, <1>2, <1>4, <1>5 DEF OwnItems

\* An item that is saved has the settings it was edited with.
LEMMA ItemSavedKeeps ==
  ASSUME QueueInv, NEW k \in ItemKind, NEW i \in Item, ItemSaved(k, i)
  PROVE  QueueInv'
<1> DEFINE I == DOMAIN items
           J == DOMAIN items'
<1>0. /\ QueueTypes /\ SoundCockpit(cockpit, I) /\ cockpit \in Cockpit
      /\ SoundBench(Half(k), I) /\ itemLists \in [ItemKind -> QueryOf(OwnAmong(I))]
      /\ itemSaves \in [ItemKind -> ItemSave] /\ (\A j \in ItemKind : SoundSave(itemSaves[j], I))
  BY DEF QueueInv, QueueTypes, SoundCockpit, Half
<1>1. /\ RowOf(k, i) \in StoredItem /\ RowOf(k, i).of = i /\ items' \in OwnItems /\ J = I \cup {i}
      /\ itemSaves' = [itemSaves EXCEPT ![k] = NoSave(k)] /\ UNCHANGED <<rules, ruleLists, ruleSaves, studio>>
  BY <1>0, RowIsOwn DEF ItemSaved, ItemStored, studioVars
<1>2. /\ SoundCockpit(cockpit, J) /\ SoundBench(Half(k), J)
      /\ itemLists \in [ItemKind -> QueryOf(OwnAmong(J))] /\ \A j \in ItemKind : SoundSave(itemSaves[j], J)
  BY <1>0, <1>1, MoreItems
<1> HIDE DEF I, J
<1>3. itemSaves' \in [ItemKind -> ItemSave] /\ \A j \in ItemKind : SoundSave(itemSaves'[j], J)
  BY <1>0, <1>1, <1>2, BlankCockpitIsSound DEF SoundSave
<1>4. itemLists' \in [ItemKind -> QueryOf(OwnAmong(J))]
  <2>1. OfKind(k)' \in OwnAmong(J)
    <3>1. PICK D \in SUBSET Item : items' \in [D -> StoredItem]
      BY <1>1 DEF OwnItems
    <3> DEFINE S == {j \in DOMAIN items' : items'[j].kind = k}
    <3>2. S \in SUBSET Item /\ OfKind(k)' \in [S -> StoredItem] /\ S \subseteq J
      BY <3>1 DEF OfKind, J
    <3>3. \A j \in DOMAIN OfKind(k)' : OfKind(k)'[j].of = j
      BY <1>1 DEF OfKind, OwnItems
    <3>. QED BY <3>2, <3>3 DEF OwnItems, OwnAmong
  <2>2. {Refreshed(itemLists[k], OfKind(k)'), Missed(itemLists[k])} \subseteq QueryOf(OwnAmong(J))
    BY <1>2, <2>1, QueryKinds
  <2>3. itemLists' \in {[itemLists EXCEPT ![k] = q] : q \in {Refreshed(itemLists[k], OfKind(k)'), Missed(itemLists[k])}}
    BY DEF ItemSaved, ItemStored
  <2>. QED BY <1>2, <2>2, <2>3
<1>5. SoundCockpit(cockpit', J) /\ cockpit'.tab = cockpit.tab /\ cockpit'.rulesOf = cockpit.rulesOf
  <2>1. CASE itemSaves[k].mine
    <3>1. cockpit' = [cockpit EXCEPT !.bench[k] = AfterSave(k, i)]
      BY <2>1 DEF ItemSaved
    <3>2. Copied(RowOf(k, i)) \in Form /\ Copied(RowOf(k, i)).of = i /\ i \in J
      BY <1>1 DEF Copied, StoredItem, Form
    <3>3. SoundBench(AfterSave(k, i), J)
      BY <1>2, <3>2 DEF AfterSave, SoundBench, Bench
    <3>. QED BY <1>2, <3>1, <3>3, BenchTaken
  <2>2. CASE ~itemSaves[k].mine
    BY <1>2, <2>2 DEF ItemSaved
  <2>. QED BY <2>1, <2>2
<1>6. QueueTypes'
  BY <1>0, <1>1, <1>3, <1>4, <1>5 DEF QueueTypes, J
<1>7. ASSUME NEW q \in Item \cup {NoItem} PROVE Truthful(ruleLists'[q], RulesOf(q)', RulesShown(q)')
  <2>1. RulesOf(q)' = RulesOf(q) /\ (RulesShown(q)' => RulesShown(q)) /\ ruleLists'[q] = ruleLists[q]
    BY <1>1, <1>5 DEF RulesOf, RulesShown, OnRouting, Here
  <2>. QED BY <2>1, HiddenIsTruthful DEF QueueInv
<1>. QED BY <1>6, <1>7 DEF QueueInv

\* Rules are saved and deleted; whatever list is shown is asked for again.
LEMMA RoutingSavedKeeps ==
  ASSUME QueueInv, NEW s \in ruleSaves, RoutingSaved(s)
  PROVE  QueueInv'
<1>0. /\ QueueTypes /\ SoundCockpit(cockpit, DOMAIN items) /\ cockpit \in Cockpit /\ rules \in RuleTable
      /\ ruleLists \in [Item \cup {NoItem} -> QueryOf(SUBSET Rule)] /\ s \in RuleSent /\ s \in RuleSave
  BY DEF QueueInv, QueueTypes, SoundCockpit, RuleSent
<1>1. rules' \in RuleTable
  <2>0. PICK R \in SUBSET Rule : rules \in [R -> Item]
    BY <1>0 DEF RuleTable
  <2>1. CASE s.op = "save"
    <3>1. PICK r \in IF s.id = NoRule THEN Rule \ DOMAIN rules ELSE {s.id} :
            rules' = [t \in DOMAIN rules \cup {r} |-> IF t = r THEN s.queue ELSE rules[t]]
      BY <2>1 DEF RoutingSaved
    <3>2. r \in Rule /\ s.queue \in Item
      BY <1>0, <2>1 DEF RuleSent, RuleSave
    <3>3. rules' \in [R \cup {r} -> Item]
      BY <2>0, <3>1, <3>2
    <3>. QED BY <3>2, <3>3 DEF RuleTable
  <2>2. CASE s.op = "delete"
    <3>1. rules' = [t \in DOMAIN rules \ {s.id} |-> rules[t]]
      BY <2>2 DEF RoutingSaved
    <3>2. rules' \in [R \ {s.id} -> Item]
      BY <2>0, <3>1
    <3>. QED BY <3>2 DEF RuleTable
  <2>. QED BY <1>0, <2>1, <2>2 DEF RuleSave
<1>2. /\ SoundCockpit(cockpit', DOMAIN items) /\ cockpit'.tab = cockpit.tab /\ cockpit'.rulesOf = cockpit.rulesOf
      /\ UNCHANGED <<items, itemLists, itemSaves, studio>> /\ ruleSaves' \subseteq ruleSaves
  <2>1. cockpit' \in {cockpit, [cockpit EXCEPT !.rule = NoForm]}
    BY DEF RoutingSaved
  <2>2. NoForm \in RuleForm /\ ~NoForm.shown
    BY DEF NoForm, RuleForm
  <2>3. LET c == [cockpit EXCEPT !.rule = NoForm]
        IN  SoundCockpit(c, DOMAIN items) /\ c.tab = cockpit.tab /\ c.rulesOf = cockpit.rulesOf
    BY <1>0, <2>2 DEF SoundCockpit, Cockpit
  <2>. QED BY <1>0, <2>1, <2>3 DEF RoutingSaved, studioVars
<1>3. ASSUME NEW q \in Item \cup {NoItem}
      PROVE  /\ ruleLists'[q] \in QueryOf(SUBSET Rule)
             /\ Truthful(ruleLists'[q], RulesOf(q)', RulesShown(q)')
  <2>1. Query(ruleLists[q]) /\ ruleLists[q] \in QueryOf(SUBSET Rule)
    BY <1>0 DEF QueueInv, Truthful
  <2>2. RulesOf(q)' \in SUBSET Rule
    BY <1>1 DEF RulesOf, RuleTable
  <2>3. CASE RulesShown(q)
    <3>1. ruleLists'[q] = Refreshed(ruleLists[q], RulesOf(q)')
      BY <1>0, <2>3 DEF RoutingSaved, RulesRefreshed, RulesShown
    <3>. QED BY <2>1, <2>2, <3>1, QueryKinds, RefreshedIsTruthful
  <2>4. CASE ~RulesShown(q)
    <3>1. ruleLists'[q] = Missed(ruleLists[q])
      BY <1>0, <2>4 DEF RoutingSaved, RulesRefreshed, RulesShown
    <3>2. ~RulesShown(q)'
      BY <1>2, <2>4 DEF RulesShown, OnRouting, Here
    <3>3. Truthful(Missed(ruleLists[q]), RulesOf(q)', FALSE)
      BY <2>1, MissedIsTruthful
    <3>4. Truthful(ruleLists'[q], RulesOf(q)', RulesShown(q)')
      BY <3>1, <3>2, <3>3, HiddenIsTruthful
    <3>. QED BY <2>1, <2>2, <3>1, <3>4, QueryKinds
  <2>. QED BY <2>3, <2>4
<1>4. ruleLists' \in [Item \cup {NoItem} -> QueryOf(SUBSET Rule)]
  BY <1>0, <1>3 DEF RoutingSaved, RulesRefreshed
<1>5. QueueTypes'
  BY <1>0, <1>1, <1>2, <1>4 DEF QueueTypes
<1>. QED BY <1>3, <1>5 DEF QueueInv

\* Every answer keeps the settings with their item.
LEMMA QueueAnswersKeep ==
  ASSUME QueueInv, QueueAnswers
  PROVE  QueueInv'
<1> DEFINE I == DOMAIN items
<1>0. /\ QueueTypes /\ SoundCockpit(cockpit, I) /\ cockpit \in Cockpit
      /\ itemLists \in [ItemKind -> QueryOf(OwnAmong(I))] /\ items \in OwnItems
      /\ itemSaves \in [ItemKind -> ItemSave] /\ (\A j \in ItemKind : SoundSave(itemSaves[j], I))
      /\ ruleSaves \subseteq RuleSent /\ rules \in RuleTable
      /\ ruleLists \in [Item \cup {NoItem} -> QueryOf(SUBSET Rule)]
  BY DEF QueueInv, QueueTypes, SoundCockpit
<1>1. CASE \E k \in ItemKind : \E i \in Item : ItemSaved(k, i)
  BY <1>1, ItemSavedKeeps
<1>2. CASE \E k \in ItemKind : ItemNotSaved(k)
  <2>. PICK k \in ItemKind : ItemNotSaved(k)
    BY <1>2
  <2>1. /\ itemSaves' = [itemSaves EXCEPT ![k] = NoSave(k)]
        /\ UNCHANGED <<cockpit, items, itemLists, rules, ruleLists, ruleSaves, studio>>
    BY DEF ItemNotSaved
  <2>2. itemSaves' \in [ItemKind -> ItemSave] /\ \A j \in ItemKind : SoundSave(itemSaves'[j], I)
    BY <1>0, <2>1, BlankCockpitIsSound DEF SoundSave
  <2>3. \A q \in Item \cup {NoItem} : RulesShown(q)' => RulesShown(q)
    BY <2>1 DEF RulesShown, OnRouting, Here
  <2>. QED BY <1>0, <2>1, <2>2, <2>3, CockpitTurns
<1>3. CASE \E k \in ItemKind : ItemsArrive(k)
  <2>. PICK k \in ItemKind : ItemsArrive(k)
    BY <1>3
  <2>1. PICK a \in Answers(itemLists[k], OfKind(k)) : itemLists' = [itemLists EXCEPT ![k] = a]
    BY DEF ItemsArrive
  <2>2. a \in QueryOf(OwnAmong(I))
    BY <1>0, OfKindIsStored, QueryKinds
  <2>3. UNCHANGED <<cockpit, items, itemSaves, rules, ruleLists, ruleSaves, studio>>
    BY DEF ItemsArrive, studioVars
  <2>4. QueueTypes'
    BY <1>0, <2>1, <2>2, <2>3 DEF QueueTypes
  <2>5. ASSUME NEW q \in Item \cup {NoItem} PROVE Truthful(ruleLists'[q], RulesOf(q)', RulesShown(q)')
    <3>1. RulesOf(q)' = RulesOf(q) /\ (RulesShown(q)' => RulesShown(q))
      BY <2>3 DEF RulesOf, RulesShown, OnRouting, Here
    <3>. QED BY <2>3, <3>1, HiddenIsTruthful DEF QueueInv
  <2>. QED BY <2>4, <2>5 DEF QueueInv
<1>4. CASE ConnectionTested
  <2> DEFINE c == [cockpit EXCEPT !.tested = cockpit.testing, !.testing = NoItem]
  <2>1. SoundCockpit(c, I) /\ c.tab = cockpit.tab /\ c.rulesOf = cockpit.rulesOf
    BY <1>0 DEF SoundCockpit, Cockpit
  <2>2. cockpit' = c /\ UNCHANGED <<items, itemLists, itemSaves, rules, ruleLists, ruleSaves, studio>>
    BY <1>4 DEF ConnectionTested, studioVars
  <2> HIDE DEF c
  <2>3. \A q \in Item \cup {NoItem} : RulesShown(q)' => RulesShown(q)
    BY <2>1, <2>2 DEF RulesShown, OnRouting, Here
  <2>. QED BY <1>0, <2>1, <2>2, <2>3, CockpitTurns
<1>5. CASE \E s \in ruleSaves : RoutingSaved(s)
  BY <1>5, RoutingSavedKeeps
<1>6. CASE \E s \in ruleSaves : RoutingNotSaved(s)
  <2>1. ruleSaves' \subseteq RuleSent /\ UNCHANGED <<cockpit, items, itemLists, itemSaves, rules, ruleLists, studio>>
    BY <1>0, <1>6 DEF RoutingNotSaved
  <2>2. \A q \in Item \cup {NoItem} : RulesShown(q)' => RulesShown(q)
    BY <2>1 DEF RulesShown, OnRouting, Here
  <2>. QED BY <1>0, <2>1, <2>2, CockpitTurns
<1>7. CASE \E q \in Item \cup {NoItem} : RulesArrive(q)
  <2>. PICK q \in Item \cup {NoItem} : RulesArrive(q)
    BY <1>7
  <2>1. PICK a \in Answers(ruleLists[q], RulesOf(q)) : ruleLists' = [ruleLists EXCEPT ![q] = a]
    BY DEF RulesArrive
  <2>2. UNCHANGED <<cockpit, items, itemLists, itemSaves, rules, ruleSaves, studio>> /\ ruleLists[q].asked
    BY DEF RulesArrive, studioVars
  <2>3. a \in QueryOf(SUBSET Rule)
    BY <1>0, RulesOfAreRules, QueryKinds
  <2>4. QueueTypes'
    BY <1>0, <2>1, <2>2, <2>3 DEF QueueTypes
  <2>5. ASSUME NEW p \in Item \cup {NoItem} PROVE Truthful(ruleLists'[p], RulesOf(p)', RulesShown(p)')
    <3>1. /\ RulesOf(p)' = RulesOf(p) /\ (RulesShown(p)' => RulesShown(p))
          /\ Truthful(ruleLists[p], RulesOf(p), RulesShown(p))
      BY <2>2 DEF RulesOf, RulesShown, OnRouting, Here, QueueInv
    <3>2. CASE p = q
      <4>1. ruleLists'[p] = a
        BY <1>0, <2>1, <3>2
      <4>. QED BY <2>2, <3>1, <3>2, <4>1, AnswersAreTruthful
    <3>3. CASE p # q
      <4>1. ruleLists'[p] = ruleLists[p]
        BY <1>0, <2>1, <3>3
      <4>. QED BY <3>1, <4>1, HiddenIsTruthful
    <3>. QED BY <3>2, <3>3
  <2>. QED BY <2>4, <2>5 DEF QueueInv
<1>. QED BY <1>1, <1>2, <1>3, <1>4, <1>5, <1>6, <1>7 DEF QueueAnswers

\* Coming and going.
LEMMA CockpitLostKeeps ==
  ASSUME QueueInv, EnterQueues \/ ExitQueues
  PROVE  QueueInv'
<1> DEFINE I == DOMAIN items
<1>0. /\ QueueTypes /\ itemLists \in [ItemKind -> QueryOf(OwnAmong(I))] /\ items \in OwnItems
      /\ itemSaves \in [ItemKind -> ItemSave] /\ (\A j \in ItemKind : SoundSave(itemSaves[j], I))
      /\ ruleSaves \subseteq RuleSent
  BY DEF QueueInv, QueueTypes
<1>1. CockpitLost /\ cockpit' = BlankCockpit /\ UNCHANGED <<items, rules, ruleLists>>
  BY DEF EnterQueues, ExitQueues, CockpitLost
<1>2. itemSaves' \in [ItemKind -> ItemSave] /\ \A j \in ItemKind : SoundSave(itemSaves'[j], I)
  <2>1. ASSUME NEW j \in ItemKind
        PROVE  [itemSaves[j] EXCEPT !.mine = FALSE] \in ItemSave /\ SoundSave([itemSaves[j] EXCEPT !.mine = FALSE], I)
    BY <1>0 DEF SoundSave, ItemSave
  <2>. QED BY <1>1, <2>1 DEF CockpitLost
<1>3. ruleSaves' \subseteq RuleSent
  <2>1. \A s \in RuleSent : [s EXCEPT !.mine = FALSE] \in RuleSent
    BY DEF RuleSent, RuleSave
  <2>. QED BY <1>0, <1>1, <2>1 DEF CockpitLost
<1>4. itemLists' \in [ItemKind -> QueryOf(OwnAmong(I))]
  <2>1. \A k \in ItemKind : Asked(itemLists[k], OfKind(k)) \in QueryOf(OwnAmong(I))
    BY <1>0, OfKindIsStored, QueryKinds
  <2>. QED BY <1>0, <2>1 DEF EnterQueues, ExitQueues
<1>5. QueueTypes'
  BY <1>0, <1>1, <1>2, <1>3, <1>4, BlankCockpitIsSound DEF QueueTypes
<1>6. ASSUME NEW q \in Item \cup {NoItem} PROVE Truthful(ruleLists'[q], RulesOf(q)', RulesShown(q)')
  <2>1. RulesOf(q)' = RulesOf(q) /\ ~RulesShown(q)' /\ ruleLists'[q] = ruleLists[q]
    BY <1>1, BlankCockpitIsSound DEF RulesOf, RulesShown, OnRouting
  <2>. QED BY <2>1, HiddenIsTruthful DEF QueueInv
<1>. QED BY <1>5, <1>6 DEF QueueInv

\* A step in another studio leaves the queues alone.
LEMMA QueuesLeftAlone ==
  ASSUME QueueInv, UNCHANGED queueVars, studio'.desk = studio.desk,
         UNCHANGED studio \/ studio.desk # "queues"
  PROVE  QueueInv'
<1>1. \A q \in Item \cup {NoItem} : RulesShown(q)' => RulesShown(q)
  BY DEF RulesShown, OnRouting, Here, queueVars
<1>2. /\ itemSaves \in [ItemKind -> ItemSave] /\ (\A j \in ItemKind : SoundSave(itemSaves[j], DOMAIN items))
      /\ SoundCockpit(cockpit, DOMAIN items) /\ ruleSaves \subseteq RuleSent
  BY DEF QueueInv, QueueTypes
<1>. QED BY <1>1, <1>2, CockpitTurns DEF queueVars

(***************************************************************************)
(* Records of masters                                                      *)
(***************************************************************************)
RecordList == UNION {[R -> StoredRecord] : R \in SUBSET Record}

\* A request to share says what the toggle is to be.
OrderSent == {x \in Order : x.op = "share" => x.shared # "unknown"}

\* The types of the master data explorer.  A grid is one of a master, a modal one of a
\* grid.
MasterTypes ==
  /\ board \in Board /\ sharing \in [Master -> {"scoped", "global"}] /\ orders \subseteq OrderSent
  /\ records \in RecordList
  /\ recordLists \in [Master -> QueryOf(RecordList)] /\ details \in [Master -> QueryOf(Detail)]
  /\ board.mounted => board.selected \in Master
  /\ board.modal # "" => board.mounted

\* Without a gap, the list of each master is true or is going to be.
MasterInv ==
  /\ MasterTypes
  /\ \A m \in Master : Truthful(recordLists[m], RecordsOf(m), OnBoard(m))

\* The types the runs check, from those of the invariant.
LEMMA MasterTypesSuffice == MasterTypes => MasterTypeOK
<1>. SUFFICES ASSUME MasterTypes PROVE MasterTypeOK
  OBVIOUS
<1>1. \A s \in RecordList : DOMAIN s \subseteq Record /\ s \in [DOMAIN s -> StoredRecord]
  BY DEF RecordList
<1>2. \A m \in Master : recordLists[m].data \in RecordList /\ details[m].data \in Detail
  BY DEF MasterTypes, QueryOf
<1>. QED BY <1>1, <1>2 DEF MasterTypes, MasterTypeOK, OrderSent

\* The records of a master are a list of records.
LEMMA RecordsOfIsList ==
  ASSUME records \in RecordList, NEW m
  PROVE  RecordsOf(m) \in RecordList
<1> DEFINE S == {s \in DOMAIN records : records[s].master = m}
<1>1. PICK R \in SUBSET Record : records \in [R -> StoredRecord]
  BY DEF RecordList
<1>2. S \in SUBSET Record /\ RecordsOf(m) \in [S -> StoredRecord]
  BY <1>1 DEF RecordsOf
<1>. QED BY <1>2 DEF RecordList

\* The same after a step.
LEMMA RecordsOfIsListAfter ==
  ASSUME records' \in RecordList, NEW m
  PROVE  RecordsOf(m)' \in RecordList
<1> DEFINE S == {s \in DOMAIN records' : records'[s].master = m}
<1>1. PICK R \in SUBSET Record : records' \in [R -> StoredRecord]
  BY DEF RecordList
<1>2. S \in SUBSET Record /\ RecordsOf(m)' \in [S -> StoredRecord]
  BY <1>1 DEF RecordsOf
<1>. QED BY <1>2 DEF RecordList

\* A request that its grid leaves behind, or that the grid takes along.
LEMMA OrdersFollow ==
  ASSUME orders \subseteq OrderSent, NEW m \in Master
  PROVE  /\ {[x EXCEPT !.mine = FALSE] : x \in orders} \subseteq OrderSent
         /\ {IF x.mine THEN [x EXCEPT !.seen = m] ELSE x : x \in orders} \subseteq OrderSent
<1>1. ASSUME NEW x \in OrderSent PROVE [x EXCEPT !.mine = FALSE] \in OrderSent /\ [x EXCEPT !.seen = m] \in OrderSent
  BY DEF Order, OrderSent
<1>. QED BY <1>1

\* No master is selected at first.
LEMMA MasterInvInit == MasterInit => MasterInv
<1>. SUFFICES ASSUME MasterInit PROVE MasterInv
  OBVIOUS
<1> DEFINE none == [r \in {} |-> NoRecord]
<1>1. none \in RecordList
  BY DEF RecordList
<1>2. Unasked(none) \in QueryOf(RecordList) /\ Unasked("unknown") \in QueryOf(Detail)
  BY <1>1 DEF Unasked, QueryOf, Detail
<1>3. BlankBoard \in Board /\ ~BlankBoard.mounted /\ BlankBoard.modal = ""
  BY DEF BlankBoard, Board, NewSheet, Sheet, Detail
<1>4. records \in RecordList /\ DOMAIN records \subseteq Record /\ records \in [DOMAIN records -> StoredRecord]
  BY MasterAssumption DEF MasterInit, RecordList, StoredRecord
<1>5. MasterTypes
  BY <1>1, <1>2, <1>3, <1>4 DEF MasterInit, MasterTypes, Unasked, Detail
<1>6. ASSUME NEW m \in Master PROVE Truthful(recordLists[m], RecordsOf(m), OnBoard(m))
  <2>1. ~OnBoard(m)
    BY <1>3 DEF MasterInit, OnBoard
  <2>. QED BY <2>1, UnaskedIsTruthful DEF MasterInit, Truthful
<1>. QED BY <1>5, <1>6 DEF MasterInv

\* From master to master.
LEMMA SelectMasterKeeps ==
  ASSUME MasterInv, NEW m \in Master, SelectMaster(m)
  PROVE  MasterInv'
<1>1. /\ board \in Board /\ orders \subseteq OrderSent /\ sharing \in [Master -> {"scoped", "global"}]
      /\ details \in [Master -> QueryOf(Detail)] /\ recordLists \in [Master -> QueryOf(RecordList)]
      /\ records \in RecordList /\ board.modal = ""
  BY DEF MasterInv, MasterTypes, SelectMaster, InExplorer
<1>2. details' \in [Master -> QueryOf(Detail)]
  <2>1. Asked(details[m], sharing[m]) \in QueryOf(Detail)
    BY <1>1, QueryKinds DEF Detail
  <2>. QED BY <1>1, <2>1 DEF SelectMaster
<1>3. recordLists' \in {recordLists, [recordLists EXCEPT ![m] = Asked(@, RecordsOf(m))]}
  BY DEF SelectMaster, Listing
<1>4. recordLists' \in [Master -> QueryOf(RecordList)]
  <2>1. Asked(recordLists[m], RecordsOf(m)) \in QueryOf(RecordList)
    BY <1>1, QueryKinds, RecordsOfIsList
  <2>. QED BY <1>1, <1>3, <2>1
<1>5. /\ orders' \subseteq OrderSent
      /\ board' \in Board /\ (board'.mounted => board'.selected \in Master) /\ board'.modal = ""
  <2>1. CASE details[m].data = "unknown"
    <3>1. board' = [BlankBoard EXCEPT !.selected = m, !.sheet = board.sheet]
      BY <2>1 DEF SelectMaster
    <3>2. orders' = {[x EXCEPT !.mine = FALSE] : x \in orders}
      BY <2>1 DEF SelectMaster
    <3>. QED BY <1>1, <3>1, <3>2, OrdersFollow DEF Board, BlankBoard, Detail
  <2>2. CASE details[m].data # "unknown"
    <3>1. orders' = {IF x.mine THEN [x EXCEPT !.seen = m] ELSE x : x \in orders}
      BY <2>2 DEF SelectMaster
    <3>2. CASE board.mounted
      <4>1. board' = [board EXCEPT !.selected = m]
        BY <2>2, <3>2 DEF SelectMaster
      <4>. QED BY <1>1, <3>1, <4>1, OrdersFollow DEF Board
    <3>3. CASE ~board.mounted
      <4>1. board' = Grown(board, m, details[m].data) /\ details[m].data \in Detail
        BY <1>1, <2>2, <3>3 DEF SelectMaster, QueryOf
      <4>2. board' \in Board /\ board'.selected = m /\ board'.modal = ""
        BY <1>1, <4>1 DEF Grown, Board, BlankBoard
      <4>. QED BY <1>1, <3>1, <4>2, OrdersFollow
    <3>. QED BY <3>2, <3>3
  <2>. QED BY <2>1, <2>2
<1>6. UNCHANGED <<records, sharing>>
  BY DEF SelectMaster
<1>7. MasterTypes'
  BY <1>1, <1>2, <1>4, <1>5, <1>6 DEF MasterTypes
<1>8. ASSUME NEW n \in Master PROVE Truthful(recordLists'[n], RecordsOf(n)', OnBoard(n)')
  <2>1. RecordsOf(n)' = RecordsOf(n) /\ Truthful(recordLists[n], RecordsOf(n), OnBoard(n))
    BY <1>6 DEF RecordsOf, MasterInv
  <2>2. CASE details[m].data = "unknown"
    <3>1. recordLists' = recordLists /\ ~OnBoard(n)'
      BY <2>2 DEF SelectMaster, BlankBoard, OnBoard
    <3>. QED BY <2>1, <3>1, HiddenIsTruthful
  <2>3. CASE details[m].data # "unknown" /\ n = m
    <3>1. recordLists'[n] = Asked(recordLists[n], RecordsOf(n))
      BY <1>1, <2>3 DEF SelectMaster, Listing
    <3>. QED BY <2>1, <3>1, AskedIsTruthful
  <2>4. CASE details[m].data # "unknown" /\ n # m
    <3>1. recordLists'[n] = recordLists[n]
      BY <1>1, <1>3, <2>4
    <3>2. board'.selected = m
      BY <1>1, <2>4 DEF SelectMaster, Grown, BlankBoard, Board
    <3>3. ~OnBoard(n)'
      BY <2>4, <3>2 DEF OnBoard
    <3>. QED BY <2>1, <3>1, <3>3, HiddenIsTruthful
  <2>. QED BY <2>2, <2>3, <2>4
<1>. QED BY <1>7, <1>8 DEF MasterInv

\* The grid, while lists and records stay as they are.
LEMMA BoardKeeps ==
  ASSUME MasterInv, board' \in Board, orders' \subseteq OrderSent,
         UNCHANGED <<records, sharing, recordLists, details>>,
         board'.mounted => board'.selected \in Master, board'.modal # "" => board'.mounted,
         \A m \in Master : OnBoard(m)' => OnBoard(m)
  PROVE  MasterInv'
<1>1. MasterTypes'
  BY DEF MasterInv, MasterTypes
<1>2. ASSUME NEW m \in Master PROVE Truthful(recordLists'[m], RecordsOf(m)', OnBoard(m)')
  <2>1. RecordsOf(m)' = RecordsOf(m)
    BY DEF RecordsOf
  <2>2. OnBoard(m)' => OnBoard(m)
    OBVIOUS
  <2>3. Truthful(recordLists[m], RecordsOf(m), OnBoard(m)) /\ recordLists' = recordLists
    BY DEF MasterInv
  <2>. QED BY <2>1, <2>2, <2>3, HiddenIsTruthful
<1>. QED BY <1>1, <1>2 DEF MasterInv

\* What users do in the explorer keeps the records shown true.
LEMMA MasterClicksKeep ==
  ASSUME MasterInv, MasterClicks
  PROVE  MasterInv'
<1>0. /\ board \in Board /\ orders \subseteq OrderSent /\ (board.mounted => board.selected \in Master)
      /\ (board.modal # "" => board.mounted)
  BY DEF MasterInv, MasterTypes
<1>1. CASE \E m \in Master : SelectMaster(m)
  BY <1>1, SelectMasterKeeps
<1>2. CASE OpenAdd
  <2>1. /\ board' = [board EXCEPT !.modal = "add", !.sheet = NewSheet(FALSE)]
        /\ UNCHANGED <<records, sharing, recordLists, details, orders, studio>> /\ board.mounted
    BY <1>2 DEF OpenAdd, OnGrid, Behold, InExplorer, At
  <2>. QED BY <1>0, <2>1, BoardKeeps DEF Board, NewSheet, Sheet, OnBoard, Here
<1>3. CASE \E r \in Record : OpenEdit(r)
  <2>. PICK r \in Record : OpenEdit(r)
    BY <1>3
  <2>1. /\ board' = [board EXCEPT !.modal = "edit", !.editing = r, !.sheet = NewSheet(TRUE)]
        /\ UNCHANGED <<records, sharing, recordLists, details, orders, studio>> /\ board.mounted
    BY DEF OpenEdit, OnGrid, Behold, InExplorer, At
  <2>. QED BY <1>0, <2>1, BoardKeeps DEF Board, NewSheet, Sheet, OnBoard, Here
<1>4. CASE TypeRecord \/ SubmitInvalid
  <2>1. /\ \E s \in Sheet : board' = [board EXCEPT !.sheet = s]
        /\ UNCHANGED <<records, sharing, recordLists, details, orders, studio>>
    BY <1>0, <1>4 DEF TypeRecord, SubmitInvalid, InModal, Behold, At, FieldTyped, Acted, Board, Sheet
  <2>. QED BY <1>0, <2>1, BoardKeeps DEF Board, OnBoard, Here
<1>5. CASE CloseModal
  <2>1. /\ board' = [board EXCEPT !.modal = "", !.editing = NoRecord]
        /\ UNCHANGED <<records, sharing, recordLists, details, orders, studio>>
    BY <1>5 DEF CloseModal, InModal, Behold, At, Shut
  <2>. QED BY <1>0, <2>1, BoardKeeps DEF Board, OnBoard, Here
<1>6. ASSUME NEW op \in {"create", "update", "delete", "share"}, NEW r \in Record \cup {NoRecord},
             NEW shared \in Detail, Send(op, r, shared), op = "share" => shared # "unknown", board.mounted,
             \E s \in Sheet : board' = [board EXCEPT !.sheet = s]
      PROVE  MasterInv'
  <2>1. PICK n \in 1 .. 2 :
          orders' = orders \cup {[op |-> op, nr |-> n, mine |-> TRUE, master |-> board.selected,
                                  seen |-> board.selected, record |-> r, shared |-> shared]}
    BY <1>6 DEF Send
  <2> DEFINE x == [op |-> op, nr |-> n, mine |-> TRUE, master |-> board.selected,
                   seen |-> board.selected, record |-> r, shared |-> shared]
  <2>0. x \in OrderSent
    BY <1>0, <1>6 DEF Order, OrderSent
  <2>2. orders' \subseteq OrderSent
    BY <1>0, <2>0, <2>1
  <2>3. UNCHANGED <<records, sharing, recordLists, details, studio>>
    BY <1>6 DEF Send
  <2>. QED BY <1>0, <1>6, <2>2, <2>3, BoardKeeps DEF Board, OnBoard, Here
<1>7. CASE SubmitRecord
  <2>1. Acted(board.sheet, "SUBMIT") \in Sheet
    BY <1>0 DEF Board, Acted, Sheet
  <2>2. board.editing \in Record \cup {NoRecord} /\ "unknown" \in Detail
    BY <1>0 DEF Board, Detail
  <2>. QED BY <1>0, <1>6, <1>7, <2>1, <2>2 DEF SubmitRecord
<1>8. board.sheet \in Sheet /\ board = [board EXCEPT !.sheet = board.sheet]
  BY <1>0 DEF Board
<1>9. CASE \E r \in Record : DeleteRecord(r)
  <2>. PICK r \in Record : DeleteRecord(r)
    BY <1>9
  <2>1. Send("delete", r, "unknown") /\ board.mounted /\ board' = board /\ "unknown" \in Detail
    BY DEF DeleteRecord, Detail
  <2>. QED BY <1>6, <1>8, <2>1
<1>10. CASE ShareMaster
  <2>1. PICK v \in {"global", "scoped"} : Send("share", NoRecord, v) /\ board.mounted /\ board' = board
    BY <1>10 DEF ShareMaster
  <2>. QED BY <1>6, <1>8, <2>1 DEF Detail
<1>. QED BY <1>1, <1>2, <1>3, <1>4, <1>5, <1>7, <1>9, <1>10 DEF MasterClicks

\* What the server does about a request is about records of its master.
LEMMA DoneIsOfMaster ==
  ASSUME MasterTypes, NEW x \in orders, Done(x)
  PROVE  /\ records' \in RecordList /\ sharing' \in [Master -> {"scoped", "global"}]
         /\ \A m \in Master : m # x.master \/ x.op = "share" => RecordsOf(m)' = RecordsOf(m)
<1>0. PICK R \in SUBSET Record : records \in [R -> StoredRecord]
  BY DEF MasterTypes, RecordList
<1>1. /\ x \in OrderSent /\ x.master \in Master /\ sharing \in [Master -> {"scoped", "global"}]
      /\ x.op = "share" => x.shared \in {"scoped", "global"}
  BY DEF MasterTypes, Order, OrderSent, Detail
<1>2. CASE x.op = "create"
  <2>1. PICK r \in Record \ DOMAIN records :
          records' = [s \in DOMAIN records \cup {r} |->
                        IF s = r THEN [master |-> x.master, edited |-> FALSE] ELSE records[s]]
    BY <1>2 DEF Done
  <2>2. records' \in [R \cup {r} -> StoredRecord]
    BY <1>0, <1>1, <2>1 DEF StoredRecord
  <2>3. ASSUME NEW m \in Master, m # x.master PROVE RecordsOf(m)' = RecordsOf(m)
    <3>1. {s \in DOMAIN records' : records'[s].master = m} = {s \in DOMAIN records : records[s].master = m}
      BY <2>1, <2>3
    <3>. QED BY <2>1, <3>1 DEF RecordsOf
  <2>4. sharing' = sharing
    BY <1>2 DEF Done
  <2>. QED BY <1>1, <1>2, <2>2, <2>3, <2>4 DEF RecordList
<1>3. CASE x.op = "update"
  <2>1. Has(x) /\ records' = [records EXCEPT ![x.record].edited = TRUE] /\ sharing' = sharing
    BY <1>3 DEF Done
  <2>2. records' \in [R -> StoredRecord] /\ \A s \in R : records'[s].master = records[s].master
    BY <1>0, <2>1 DEF StoredRecord, Has
  <2>3. ASSUME NEW m \in Master, m # x.master PROVE RecordsOf(m)' = RecordsOf(m)
    <3>1. {s \in DOMAIN records' : records'[s].master = m} = {s \in DOMAIN records : records[s].master = m}
      BY <1>0, <2>2
    <3>2. \A s \in {t \in DOMAIN records : records[t].master = m} : records'[s] = records[s]
      BY <1>0, <2>1, <2>3 DEF Has
    <3>. QED BY <3>1, <3>2 DEF RecordsOf
  <2>. QED BY <1>1, <1>3, <2>1, <2>2, <2>3 DEF RecordList
<1>4. CASE x.op = "delete"
  <2>1. Has(x) /\ records' = [r \in DOMAIN records \ {x.record} |-> records[r]] /\ sharing' = sharing
    BY <1>4 DEF Done
  <2>2. records' \in [R \ {x.record} -> StoredRecord]
    BY <1>0, <2>1
  <2>3. ASSUME NEW m \in Master, m # x.master PROVE RecordsOf(m)' = RecordsOf(m)
    <3>1. {s \in DOMAIN records' : records'[s].master = m} = {s \in DOMAIN records : records[s].master = m}
      BY <2>1, <2>3 DEF Has
    <3>. QED BY <2>1, <3>1 DEF RecordsOf
  <2>. QED BY <1>1, <1>4, <2>1, <2>2, <2>3 DEF RecordList
<1>5. CASE x.op = "share"
  <2>1. sharing' = [sharing EXCEPT ![x.master] = x.shared] /\ records' = records
    BY <1>5 DEF Done
  <2>. QED BY <1>0, <1>1, <1>5, <2>1 DEF RecordList, RecordsOf
<1>. QED BY <1>2, <1>3, <1>4, <1>5 DEF Done

\* The grid that is on the screen, after a step that leaves it there.
LEMMA ListsAreTrue ==
  ASSUME MasterTypes', \A m \in Master : Truthful(recordLists'[m], RecordsOf(m)', OnBoard(m)')
  PROVE  MasterInv'
BY DEF MasterInv

\* A list that arrives has what the server has, or misses a change.
LEMMA ListsArriveKeeps ==
  ASSUME MasterInv, NEW m \in Master, DetailArrives(m) \/ RecordsArrive(m)
  PROVE  MasterInv'
<1>0. /\ board \in Board /\ sharing \in [Master -> {"scoped", "global"}] /\ records \in RecordList
      /\ details \in [Master -> QueryOf(Detail)] /\ recordLists \in [Master -> QueryOf(RecordList)]
  BY DEF MasterInv, MasterTypes
<1>1. \A n \in Master : RecordsOf(n)' = RecordsOf(n) /\ Truthful(recordLists[n], RecordsOf(n), OnBoard(n))
  BY DEF RecordsOf, MasterInv, DetailArrives, RecordsArrive
<1>2. CASE DetailArrives(m)
  <2>1. PICK a \in Answers(details[m], sharing[m]) :
          /\ details' = [details EXCEPT ![m] = a]
          /\ IF Here("masters") /\ board.selected = m /\ ~board.mounted
             THEN board' = Grown(board, m, a.data) /\ Listing(m)
             ELSE UNCHANGED <<board, recordLists>>
    BY <1>2 DEF DetailArrives
  <2>2. a \in QueryOf(Detail) /\ details' \in [Master -> QueryOf(Detail)]
    <3>1. a \in QueryOf(Detail)
      BY <1>0, QueryKinds DEF Detail
    <3>. QED BY <1>0, <2>1, <3>1
  <2>3. UNCHANGED <<records, sharing, orders, studio>>
    BY <1>2 DEF DetailArrives, studioVars
  <2>4. CASE Here("masters") /\ board.selected = m /\ ~board.mounted
    <3>1. board' = Grown(board, m, a.data) /\ recordLists' = [recordLists EXCEPT ![m] = Asked(@, RecordsOf(m))]
      BY <2>1, <2>4 DEF Listing
    <3>2. board' \in Board /\ board'.selected = m /\ board'.modal = ""
      BY <1>0, <2>2, <3>1 DEF Grown, Board, BlankBoard, QueryOf
    <3>3. Asked(recordLists[m], RecordsOf(m)) \in QueryOf(RecordList)
      BY <1>0, QueryKinds, RecordsOfIsList
    <3>4. MasterTypes'
      BY <1>0, <2>2, <2>3, <3>1, <3>2, <3>3 DEF MasterInv, MasterTypes
    <3>5. ASSUME NEW n \in Master PROVE Truthful(recordLists'[n], RecordsOf(n)', OnBoard(n)')
      <4>1. CASE n = m
        <5>1. recordLists'[n] = Asked(recordLists[n], RecordsOf(n))
          BY <1>0, <3>1, <4>1
        <5>. QED BY <1>1, <5>1, AskedIsTruthful
      <4>2. CASE n # m
        <5>1. recordLists'[n] = recordLists[n] /\ ~OnBoard(n)'
          BY <1>0, <3>1, <3>2, <4>2 DEF OnBoard
        <5>. QED BY <1>1, <5>1, HiddenIsTruthful
      <4>. QED BY <4>1, <4>2
    <3>. QED BY <3>4, <3>5, ListsAreTrue
  <2>5. CASE ~(Here("masters") /\ board.selected = m /\ ~board.mounted)
    <3>1. UNCHANGED <<board, recordLists>>
      BY <2>1, <2>5
    <3>2. MasterTypes'
      BY <2>2, <2>3, <3>1 DEF MasterInv, MasterTypes
    <3>3. \A n \in Master : OnBoard(n)' <=> OnBoard(n)
      BY <2>3, <3>1 DEF OnBoard, Here
    <3>. QED BY <1>1, <3>1, <3>2, <3>3, HiddenIsTruthful, ListsAreTrue
  <2>. QED BY <2>4, <2>5
<1>3. CASE RecordsArrive(m)
  <2>1. PICK a \in Answers(recordLists[m], RecordsOf(m)) : recordLists' = [recordLists EXCEPT ![m] = a]
    BY <1>3 DEF RecordsArrive
  <2>2. a \in QueryOf(RecordList)
    BY <1>0, QueryKinds, RecordsOfIsList
  <2>3. UNCHANGED <<board, records, sharing, details, orders, studio>> /\ recordLists[m].asked
    BY <1>3 DEF RecordsArrive, studioVars
  <2>4. MasterTypes'
    BY <1>0, <2>1, <2>2, <2>3 DEF MasterInv, MasterTypes
  <2>5. ASSUME NEW n \in Master PROVE Truthful(recordLists'[n], RecordsOf(n)', OnBoard(n)')
    <3>1. CASE n = m
      <4>1. recordLists'[n] = a
        BY <1>0, <2>1, <3>1
      <4>. QED BY <1>1, <2>3, <3>1, <4>1, AnswersAreTruthful
    <3>2. CASE n # m
      <4>1. recordLists'[n] = recordLists[n] /\ (OnBoard(n)' <=> OnBoard(n))
        BY <1>0, <2>1, <2>3, <3>2 DEF OnBoard, Here
      <4>. QED BY <1>1, <4>1, HiddenIsTruthful
    <3>. QED BY <3>1, <3>2
  <2>. QED BY <2>4, <2>5, ListsAreTrue
<1>. QED BY <1>2, <1>3

\* The answers to requests, and the work of others.
LEMMA OrdersAnsweredKeep ==
  ASSUME MasterInv, NEW x \in orders, OrderAnswered(x)
  PROVE  MasterInv'
<1>0. /\ board \in Board /\ recordLists \in [Master -> QueryOf(RecordList)]
      /\ x \in Order /\ x.master \in Master /\ x.seen \in Master /\ orders' \subseteq OrderSent
      /\ x.op = "share" => x.shared \in Detail
  BY DEF MasterInv, MasterTypes, OrderSent, Order, OrderAnswered
<1>1. /\ records' \in RecordList /\ sharing' \in [Master -> {"scoped", "global"}]
      /\ \A m \in Master : m # x.master \/ x.op = "share" => RecordsOf(m)' = RecordsOf(m)
  BY DoneIsOfMaster DEF OrderAnswered, MasterInv
<1>2. /\ board' \in {board, Shut(board)} \cup {[board EXCEPT !.shared = s] : s \in Detail}
      /\ UNCHANGED <<details, studio>>
  BY <1>0 DEF OrderAnswered, Closes, studioVars
<1>3. /\ board' \in Board /\ board'.mounted = board.mounted /\ board'.selected = board.selected
      /\ board'.modal \in {"", board.modal}
  BY <1>0, <1>2 DEF Board, Shut
<1>4. \A m \in Master : OnBoard(m)' <=> OnBoard(m)
  BY <1>2, <1>3 DEF OnBoard, Here
<1>5. \A m \in Master : Truthful(recordLists[m], RecordsOf(m), OnBoard(m)) /\ Query(recordLists[m])
  BY DEF MasterInv, Truthful
<1>6. CASE x.op = "share"
  <2>1. recordLists' = recordLists
    BY <1>6 DEF OrderAnswered
  <2>2. MasterTypes'
    BY <1>0, <1>1, <1>2, <1>3, <2>1 DEF MasterInv, MasterTypes
  <2>3. ASSUME NEW m \in Master PROVE Truthful(recordLists'[m], RecordsOf(m)', OnBoard(m)')
    BY <1>1, <1>4, <1>5, <1>6, <2>1, HiddenIsTruthful
  <2>. QED BY <2>2, <2>3, ListsAreTrue
<1>7. CASE x.op # "share"
  <2>1. RecordsOf(x.seen)' \in RecordList
    BY <1>1, RecordsOfIsListAfter
  <2> DEFINE q == IF OnBoard(x.seen) THEN Refreshed(recordLists[x.seen], RecordsOf(x.seen)')
                  ELSE Missed(recordLists[x.seen])
             base == IF x.seen = x.master THEN recordLists ELSE Untold(x)
  <2>2. recordLists' = [base EXCEPT ![x.seen] = q]
    BY <1>0, <1>7 DEF OrderAnswered, Relisted, Untold
  <2>3. q \in QueryOf(RecordList)
    BY <1>0, <2>1, QueryKinds
  <2>4. Truthful(q, RecordsOf(x.seen)', OnBoard(x.seen)')
    BY <1>0, <1>4, <1>5, RefreshedIsTruthful, MissedIsTruthful DEF Truthful
  <2>5. /\ base \in [Master -> QueryOf(RecordList)]
        /\ \A m \in Master : m # x.seen => Truthful(base[m], RecordsOf(m)', OnBoard(m)')
    <3>1. CASE x.seen = x.master
      <4>1. ASSUME NEW m \in Master, m # x.seen PROVE Truthful(base[m], RecordsOf(m)', OnBoard(m)')
        BY <1>1, <1>4, <1>5, <3>1, <4>1, HiddenIsTruthful
      <4>. QED BY <1>0, <3>1, <4>1
    <3>2. CASE x.seen # x.master
      <4> DEFINE r == [recordLists[x.master] EXCEPT !.gap = TRUE]
      <4>1. base = [recordLists EXCEPT ![x.master] = r]
        BY <3>2 DEF Untold
      <4>2. r \in QueryOf(RecordList)
        BY <1>0 DEF QueryOf
      <4>3. Truthful(r, RecordsOf(x.master)', OnBoard(x.master)')
        BY <1>0, <1>5, GapIsTruthful
      <4> HIDE DEF r, base
      <4>4. ASSUME NEW m \in Master PROVE Truthful(base[m], RecordsOf(m)', OnBoard(m)')
        <5>1. CASE m = x.master
          BY <1>0, <4>1, <4>3, <5>1
        <5>2. CASE m # x.master
          <6>1. base[m] = recordLists[m]
            BY <1>0, <4>1, <5>2
          <6>. QED BY <1>1, <1>4, <1>5, <5>2, <6>1, HiddenIsTruthful
        <5>. QED BY <5>1, <5>2
      <4>. QED BY <1>0, <4>1, <4>2, <4>4
    <3>. QED BY <3>1, <3>2
  <2> HIDE DEF q, base
  <2>6. MasterTypes'
    BY <1>0, <1>1, <1>2, <1>3, <2>2, <2>3, <2>5 DEF MasterInv, MasterTypes
  <2>7. ASSUME NEW m \in Master PROVE Truthful(recordLists'[m], RecordsOf(m)', OnBoard(m)')
    BY <1>0, <2>2, <2>4, <2>5
  <2>. QED BY <2>6, <2>7, ListsAreTrue
<1>. QED BY <1>6, <1>7

\* A list nobody tells: of master m.
LEMMA UntoldKeeps ==
  ASSUME MasterInv, NEW m \in Master, records' \in RecordList,
         sharing' \in [Master -> {"scoped", "global"}], orders' \subseteq orders,
         UNCHANGED <<board, details, studio>>,
         \A n \in Master : n # m => RecordsOf(n)' = RecordsOf(n),
         \/ recordLists' = [recordLists EXCEPT ![m].gap = TRUE]
         \/ recordLists' = recordLists /\ RecordsOf(m)' = RecordsOf(m)
  PROVE  MasterInv'
<1>0. recordLists \in [Master -> QueryOf(RecordList)]
  BY DEF MasterInv, MasterTypes
<1>1. \A n \in Master : /\ Truthful(recordLists[n], RecordsOf(n), OnBoard(n)) /\ Query(recordLists[n])
                        /\ OnBoard(n)' <=> OnBoard(n)
  BY DEF MasterInv, Truthful, OnBoard, Here
<1> DEFINE r == [recordLists[m] EXCEPT !.gap = TRUE]
<1>2. r \in QueryOf(RecordList)
  BY <1>0 DEF QueryOf
<1>3. Truthful(r, RecordsOf(m)', OnBoard(m)')
  BY <1>1, GapIsTruthful
<1>4. \/ recordLists' = [recordLists EXCEPT ![m] = r]
      \/ recordLists' = recordLists /\ RecordsOf(m)' = RecordsOf(m)
  OBVIOUS
<1> HIDE DEF r
<1>5. MasterTypes'
  BY <1>0, <1>2, <1>4 DEF MasterInv, MasterTypes
<1>6. ASSUME NEW n \in Master PROVE Truthful(recordLists'[n], RecordsOf(n)', OnBoard(n)')
  <2>1. CASE recordLists'[n] = recordLists[n] /\ RecordsOf(n)' = RecordsOf(n)
    BY <1>1, <2>1, HiddenIsTruthful
  <2>2. CASE n = m /\ recordLists' = [recordLists EXCEPT ![m] = r]
    BY <1>0, <1>3, <2>2
  <2>. QED BY <1>0, <1>4, <2>1, <2>2
<1>. QED BY <1>5, <1>6, ListsAreTrue

\* An order that fails changes no record, and its studio may miss it.
LEMMA OrdersFailedKeep ==
  ASSUME MasterInv, NEW x \in orders, OrderFailed(x)
  PROVE  MasterInv'
<1>0. /\ x.master \in Master /\ orders' \subseteq orders /\ UNCHANGED <<board, details, studio>>
      /\ records \in RecordList /\ sharing \in [Master -> {"scoped", "global"}]
  BY DEF MasterInv, MasterTypes, OrderSent, Order, OrderFailed
<1>1. CASE UNCHANGED <<records, sharing, recordLists>>
  <2>1. \A n \in Master : RecordsOf(n)' = RecordsOf(n)
    BY <1>1 DEF RecordsOf
  <2>. QED BY <1>0, <1>1, <2>1, UntoldKeeps
<1>2. CASE Done(x) /\ recordLists' = Untold(x)
  <2>1. /\ records' \in RecordList /\ sharing' \in [Master -> {"scoped", "global"}]
        /\ \A m \in Master : m # x.master => RecordsOf(m)' = RecordsOf(m)
    BY <1>2, DoneIsOfMaster DEF MasterInv
  <2>. QED BY <1>0, <1>2, <2>1, UntoldKeeps DEF Untold
<1>. QED BY <1>1, <1>2 DEF OrderFailed

\* Nobody tells the explorer of what others maintain: it has a gap.
LEMMA OthersMaintainKeeps ==
  ASSUME MasterInv, OthersMaintain
  PROVE  MasterInv'
<1>0. PICK R \in SUBSET Record : records \in [R -> StoredRecord]
  BY DEF MasterInv, MasterTypes, RecordList
<1>1. PICK r \in DOMAIN records :
        /\ \/ records' = [records EXCEPT ![r].edited = TRUE]
           \/ records' = [s \in DOMAIN records \ {r} |-> records[s]]
        /\ recordLists' = [recordLists EXCEPT ![records[r].master].gap = TRUE]
  BY DEF OthersMaintain
<1>2. records[r].master \in Master /\ UNCHANGED <<board, sharing, details, orders, studio>>
  BY <1>0, <1>1 DEF OthersMaintain, StoredRecord
<1>3. /\ records' \in RecordList
      /\ \A m \in Master : m # records[r].master => RecordsOf(m)' = RecordsOf(m)
  <2>1. CASE records' = [records EXCEPT ![r].edited = TRUE]
    <3>1. records' \in [R -> StoredRecord] /\ \A s \in R : records'[s].master = records[s].master
      BY <1>0, <1>1, <2>1 DEF StoredRecord
    <3>2. ASSUME NEW m \in Master, m # records[r].master PROVE RecordsOf(m)' = RecordsOf(m)
      <4>1. {s \in DOMAIN records' : records'[s].master = m} = {s \in DOMAIN records : records[s].master = m}
        BY <1>0, <3>1
      <4>2. \A s \in {t \in DOMAIN records : records[t].master = m} : records'[s] = records[s]
        BY <1>0, <2>1, <3>2
      <4>. QED BY <4>1, <4>2 DEF RecordsOf
    <3>. QED BY <3>1, <3>2 DEF RecordList
  <2>2. CASE records' = [s \in DOMAIN records \ {r} |-> records[s]]
    <3>1. records' \in [R \ {r} -> StoredRecord]
      BY <1>0, <2>2
    <3>2. ASSUME NEW m \in Master, m # records[r].master PROVE RecordsOf(m)' = RecordsOf(m)
      <4>1. {s \in DOMAIN records' : records'[s].master = m} = {s \in DOMAIN records : records[s].master = m}
        BY <2>2, <3>2
      <4>. QED BY <2>2, <4>1 DEF RecordsOf
    <3>. QED BY <3>1, <3>2 DEF RecordList
  <2>. QED BY <1>1, <2>1, <2>2
<1>4. sharing \in [Master -> {"scoped", "global"}]
  BY DEF MasterInv, MasterTypes
<1>. QED BY <1>1, <1>2, <1>3, <1>4, UntoldKeeps

\* An explorer that is left shows nothing.
LEMMA BoardLostKeeps ==
  ASSUME MasterInv, BoardLost
  PROVE  MasterInv'
<1>1. BlankBoard \in Board /\ ~BlankBoard.mounted /\ BlankBoard.modal = ""
  BY DEF BlankBoard, Board, NewSheet, Sheet, Detail
<1>2. orders' \subseteq OrderSent
  <2>1. \A x \in OrderSent : [x EXCEPT !.mine = FALSE] \in OrderSent
    BY DEF OrderSent, Order
  <2>. QED BY <2>1 DEF BoardLost, MasterInv, MasterTypes
<1>. QED BY <1>1, <1>2, BoardKeeps DEF BoardLost, OnBoard

\* No other studio has a word in the explorer.
LEMMA MastersLeftAlone ==
  ASSUME MasterInv, UNCHANGED masterVars, studio'.desk = studio.desk,
         UNCHANGED studio \/ studio.desk # "masters"
  PROVE  MasterInv'
<1>1. \A m \in Master : OnBoard(m)' => OnBoard(m)
  BY DEF OnBoard, Here, masterVars
<1>. QED BY <1>1, BoardKeeps DEF masterVars, MasterInv, MasterTypes

(***************************************************************************)
(* The queue of transactions                                               *)
(***************************************************************************)
RowsOfAll == [Inst -> Row]
Fetch == [node : Node, mine : BOOLEAN]

\* A decision on its way is about a transaction.
RuntimeTypes ==
  /\ shell \in Shell /\ txn \in Txn /\ sections \in [Domain -> {"unasked", "asked", "ready"}]
  /\ rows \in RowsOfAll /\ instanceList \in QueryOf(RowsOfAll)
  /\ launch \in Launch /\ resumes \in [ResumeSlot -> Resume] /\ fetches \subseteq Fetch
  /\ \A s \in ResumeSlot : resumes[s].st = "sent" => resumes[s].inst \in Inst

\* Without a gap, the queue of transactions is true or is going to be.
RuntimeInv == RuntimeTypes /\ Truthful(instanceList, rows, Queue)

\* The types the runs check, from those of the invariant.
LEMMA RuntimeTypesSuffice == RuntimeTypes => ShellTypeOK
BY DEF RuntimeTypes, ShellTypeOK, RowsOfAll, QueryOf, Fetch

\* The server's rows.
LEMMA RowWritten ==
  ASSUME NEW r \in Row, NEW st \in Status, NEW n \in Node
  PROVE  Written(r, st, n) \in Row
BY DEF Written, Row

\* Where the executor stops is a status and a node.
LEMMA StopsAreStates == \A s \in Stops \cup {<<"COMPLETED", NNodes>>} : s[1] \in Status /\ s[2] \in Node
BY ServerAssumption DEF Stops, Status, Terminal, Node

\* A row that is executed is a row,
LEMMA ExecutedRows ==
  ASSUME rows \in RowsOfAll, NEW j \in Inst, Execute(j)
  PROVE  rows' \in RowsOfAll
<1>1. PICK s \in Stops \cup {<<"COMPLETED", NNodes>>} : rows' = [rows EXCEPT ![j] = Written(@, s[1], s[2])]
  BY DEF Execute
<1>2. Written(rows[j], s[1], s[2]) \in Row
  BY StopsAreStates, RowWritten DEF RowsOfAll
<1>. QED BY <1>1, <1>2 DEF RowsOfAll

\* so is one that runs on from a node,
LEMMA RunOnRows ==
  ASSUME rows \in RowsOfAll, NEW i \in Inst, Exists(i), NEW k, RunOn(i, k)
  PROVE  rows' \in RowsOfAll
<1>0. rows[i] \in Row /\ NNodes \in Node
  BY ServerAssumption DEF RowsOfAll, Node
<1>1. rows[i].node \in Node
  BY <1>0 DEF Row
<1>2. CASE rows' = [rows EXCEPT ![i] = Written(@, "COMPLETED", NNodes)]
  <2>1. Written(rows[i], "COMPLETED", NNodes) \in Row
    BY <1>0, RowWritten DEF Status, Terminal
  <2>. QED BY <1>2, <2>1 DEF RowsOfAll
<1>3. CASE rows' = [rows EXCEPT ![i] = Written(@, "FAILED", @.node)]
  <2>1. Written(rows[i], "FAILED", rows[i].node) \in Row
    BY <1>0, <1>1, RowWritten DEF Status
  <2>. QED BY <1>3, <2>1 DEF RowsOfAll
<1>4. ASSUME NEW j \in Inst, NEW s \in Stops, ~Exists(j),
             rows' = [rows EXCEPT ![i] = Written(@, s[1], @.node), ![j] = Written(@, s[1], s[2])]
      PROVE  rows' \in RowsOfAll
  <2> DEFINE a == Written(rows[i], s[1], rows[i].node)
             half == [rows EXCEPT ![i] = a]
  <2>1. s[1] \in Status /\ s[2] \in Node
    BY StopsAreStates
  <2>2. a \in Row
    BY <1>0, <1>1, <2>1, RowWritten
  <2>3. half \in RowsOfAll
    BY <2>2 DEF RowsOfAll
  <2>4. Written(rows[j], s[1], s[2]) \in Row
    BY <2>1, RowWritten DEF RowsOfAll
  <2>5. rows' = [half EXCEPT ![j] = Written(rows[j], s[1], s[2])]
    <3>1. i # j
      BY <1>4
    <3>. QED BY <1>4, <3>1
  <2> HIDE DEF half
  <2>6. half \in [Inst -> Row]
    BY <2>3 DEF RowsOfAll
  <2> HIDE DEF a
  <2>7. rows' \in [Inst -> Row]
    BY <2>4, <2>5, <2>6
  <2>. QED BY <2>7 DEF RowsOfAll
<1>. QED BY <1>2, <1>3, <1>4 DEF RunOn

\* and one an operator decides on.
LEMMA TakenRows ==
  ASSUME rows \in RowsOfAll, NEW i \in Inst, NEW k, NEW n, Take(i, k, n)
  PROVE  rows' \in RowsOfAll
<1>1. CASE Settle(i, k)
  <2>1. CASE rows' = rows
    BY <2>1
  <2>2. CASE rows' = [rows EXCEPT ![i] = Written(@, Settles[k], @.node)]
    <3>1. Settles[k] \in Status /\ rows[i] \in Row /\ rows[i].node \in Node
      BY <1>1 DEF Settle, Settles, Status, Terminal, RowsOfAll, Row
    <3>2. Written(rows[i], Settles[k], rows[i].node) \in Row
      BY <3>1, RowWritten
    <3>. QED BY <2>2, <3>2 DEF RowsOfAll
  <2>. QED BY <1>1, <2>1, <2>2 DEF Settle
<1>2. CASE RunOn(i, k)
  BY <1>2, RunOnRows DEF Take
<1>. QED BY <1>1, <1>2 DEF Take

\* The shell as it opens asks for nothing.
LEMMA BlankRuntimeIsTyped ==
  /\ BlankShell \in Shell /\ BlankShell.mode = "welcome" /\ BlankTxn \in Txn
  /\ NoLaunch \in Launch /\ NoResume \in Resume /\ NoResume.st = "none"
<1>1. NewSheet(FALSE) \in Sheet
  BY DEF NewSheet, Sheet
<1>2. BlankShell \in Shell /\ BlankShell.mode = "welcome"
  BY <1>1 DEF BlankShell, Shell
<1>3. BlankTxn \in Txn
  <2>1. 0 \in 0 .. NNodes /\ "ABSENT" \in Status /\ "APPROVED" \in Decision
    BY ServerAssumption DEF Status, Decision
  <2>. QED BY <1>1, <2>1 DEF BlankTxn, Txn
<1>. QED BY <1>2, <1>3 DEF NoLaunch, Launch, NoResume, Resume, Decision

\* Nobody has looked at the queue of transactions at first.
LEMMA RuntimeInvInit == ShellInit /\ StudioInit => RuntimeInv
<1>. SUFFICES ASSUME ShellInit, StudioInit PROVE RuntimeInv
  OBVIOUS
<1>1. Unread \in Row /\ \A n \in Gate : Fresh("PAUSED", n) \in Row
  BY ServerAssumption DEF Unread, Fresh, Row, Status, Node
<1>2. rows \in RowsOfAll /\ [i \in Inst |-> Unread] \in RowsOfAll
  BY <1>1 DEF ShellInit, ServerInit, RowsOfAll
<1>3. instanceList \in QueryOf(RowsOfAll)
  BY <1>2 DEF ShellInit, Unasked, QueryOf
<1>4. RuntimeTypes
  BY <1>2, <1>3, BlankRuntimeIsTyped DEF ShellInit, RuntimeTypes
<1>5. ~Queue
  BY DEF StudioInit, Queue, Here
<1>. QED BY <1>4, <1>5, UnaskedIsTruthful DEF RuntimeInv, ShellInit, Truthful

\* What the user does without the list.
LEMMA ListStays ==
  ASSUME RuntimeInv, RuntimeTypes', UNCHANGED <<rows, instanceList>>, Queue' => Queue
  PROVE  RuntimeInv'
BY HiddenIsTruthful DEF RuntimeInv

\* A transaction that is loaded is one of those that can be shown.
LEMMA LoadingIsTyped ==
  ASSUME txn \in Txn, NEW i \in Inst, NEW st \in Status, NEW n \in 0 .. NNodes
  PROVE  Loading(txn, i, st, n) \in Txn
<1>1. \A b \in BOOLEAN : Remounted(b) \in Sheet
  BY DEF Remounted, Reloaded, NewSheet, Sheet, Txn
<1>2. Remounted(i \in Complete) \in Sheet
  <2>1. (i \in Complete) \in BOOLEAN
    OBVIOUS
  <2>. QED BY <1>1, <2>1
<1> DEFINE x == Remounted(i \in Complete)
           s == IF n \in Screened THEN txn.screen ELSE 0
<1>3. s \in 0 .. NNodes
  BY ServerAssumption DEF Txn
<1>4. Loading(txn, i, st, n) = [txn EXCEPT !.view = "running", !.active = i, !.status = st, !.node = n,
                                           !.screen = s, !.sheet = x]
  BY DEF Loading, Txn
<1> HIDE DEF x, s
<1>. QED BY <1>2, <1>3, <1>4 DEF Txn, x

\* A node has its own screen fetched, and no other.
LEMMA ScreensAreFetched == \A n : Screens(n) \subseteq Fetch
<1>1. Screened \subseteq Node
  BY RuntimeAssumption
<1>2. \A n \in Node : [node |-> n, mine |-> TRUE] \in Fetch
  BY DEF Fetch
<1>3. ASSUME NEW n PROVE Screens(n) \subseteq Fetch
  <2>1. CASE n \in Screened
    BY <1>1, <1>2, <2>1 DEF Screens
  <2>2. CASE n \notin Screened
    BY <2>2 DEF Screens
  <2>. QED BY <2>1, <2>2
<1>. QED BY <1>3

\* A transaction screen that is left forgets its requests.
LEMMA TxnLostIsTyped ==
  ASSUME RuntimeTypes, TxnLost
  PROVE  /\ txn' \in Txn /\ launch' \in Launch /\ resumes' \in [ResumeSlot -> Resume] /\ fetches' \subseteq Fetch
         /\ \A s \in ResumeSlot : resumes'[s].st = "sent" => resumes'[s].inst \in Inst
<1>1. \A l \in Launch : Deserted(l) \in Launch
  BY DEF Deserted, Launch
<1>2. \A r \in Resume : Deserted(r) \in Resume /\ Deserted(r).st = r.st /\ Deserted(r).inst = r.inst
  BY DEF Deserted, Resume
<1>3. \A f \in Fetch : [f EXCEPT !.mine = FALSE] \in Fetch
  BY DEF Fetch
<1>. QED BY <1>1, <1>2, <1>3, BlankRuntimeIsTyped DEF TxnLost, RuntimeTypes

\* What users do in the shell keeps the queue true.
LEMMA ShellClicksKeep ==
  ASSUME RuntimeInv, ShellClicks
  PROVE  RuntimeInv'
<1>0. RuntimeTypes /\ shell \in Shell /\ txn \in Txn /\ txn.sheet \in Sheet /\ shell.sheet \in Sheet
  BY DEF RuntimeInv, RuntimeTypes, Txn, Shell
<1>1. ASSUME NEW d \in Domain, ToggleDomain(d) PROVE RuntimeInv'
  <2>1. shell' = [shell EXCEPT !.open = IF d \in @ THEN @ \ {d} ELSE @ \cup {d}] /\ studio' = studio
    BY <1>1 DEF ToggleDomain, InShell, At
  <2>2. shell' \in Shell /\ shell'.mode = shell.mode
    BY <1>0, <2>1 DEF Shell
  <2>3. RuntimeTypes'
    BY <1>0, <1>1, <2>2 DEF ToggleDomain, RuntimeTypes
  <2>. QED BY <1>1, <2>1, <2>2, <2>3, ListStays DEF ToggleDomain, Queue, Here
<1>2. ASSUME NEW d \in Domain, OpenPage(d) PROVE RuntimeInv'
  <2>1. shell' \in Shell /\ shell'.mode = "screen"
    BY <1>0, <1>2 DEF OpenPage, Shell
  <2>2. RuntimeTypes'
    BY <1>0, <1>2, <2>1, TxnLostIsTyped DEF OpenPage, RuntimeTypes
  <2>. QED BY <1>2, <2>1, <2>2, ListStays DEF OpenPage, Queue
<1>3. CASE TypeOnPage \/ SubmitPage
  <2>1. PICK s \in Sheet : OnPage(s)
    BY <1>0, <1>3 DEF TypeOnPage, SubmitPage, FieldTyped, Acted, Sheet
  <2>2. shell' \in Shell /\ shell'.mode = shell.mode /\ studio' = studio
    BY <1>0, <2>1 DEF OnPage, Shell, InShell, At
  <2>3. RuntimeTypes'
    BY <1>0, <2>1, <2>2 DEF OnPage, RuntimeTypes
  <2>. QED BY <2>1, <2>2, <2>3, ListStays DEF OnPage, Queue, Here
<1>4. CASE OpenTransactions
  <2>1. shell' \in Shell
    BY <1>0, <1>4 DEF OpenTransactions, Shell
  <2>2. instanceList' = Asked(instanceList, rows) /\ rows' = rows
    BY <1>4 DEF OpenTransactions
  <2>3. instanceList' \in QueryOf(RowsOfAll)
    BY <1>0, <2>2, QueryKinds DEF RuntimeTypes
  <2>4. RuntimeTypes'
    BY <1>0, <1>4, <2>1, <2>3 DEF OpenTransactions, RuntimeTypes
  <2>. QED BY <2>2, <2>4, AskedIsTruthful DEF RuntimeInv
<1>5. ASSUME NEW t \in Txn, Move(t), studio' = studio PROVE RuntimeInv'
  <2>1. RuntimeTypes'
    BY <1>0, <1>5 DEF Move, RuntimeTypes
  <2>. QED BY <1>5, <2>1, ListStays DEF Move, Queue, Here
<1>6. CASE ShowQueue \/ NewTransaction
  <2>1. PICK t \in {[txn EXCEPT !.view = "queue"], [txn EXCEPT !.view = "launcher", !.flow = NoFlow]} :
          Move(t) /\ studio' = studio
    BY <1>6 DEF ShowQueue, NewTransaction, InTxn, InShell, At
  <2>2. t \in Txn
    BY <1>0, <2>1 DEF Txn
  <2>. QED BY <1>5, <2>1, <2>2
<1>7. ASSUME NEW w \in Workflow, ChooseFlow(w) PROVE RuntimeInv'
  <2>1. [txn EXCEPT !.flow = w] \in Txn
    BY <1>0 DEF Txn
  <2>. QED BY <1>5, <1>7, <2>1 DEF ChooseFlow, InTxn, InShell, At
<1>8. CASE RefreshQueue
  <2>1. instanceList' = Refreshed(instanceList, rows) /\ rows' = rows
    BY <1>8 DEF RefreshQueue
  <2>2. instanceList' \in QueryOf(RowsOfAll)
    BY <1>0, <2>1, QueryKinds DEF RuntimeTypes
  <2>3. RuntimeTypes'
    BY <1>0, <1>8, <2>2 DEF RefreshQueue, RuntimeTypes
  <2>. QED BY <2>1, <2>3, RefreshedIsTruthful DEF RuntimeInv, Truthful
<1>9. CASE LaunchTransaction
  <2>1. launch' \in Launch
    BY <1>0, <1>9 DEF LaunchTransaction, Launch, Txn
  <2>2. RuntimeTypes'
    BY <1>0, <1>9, <2>1 DEF LaunchTransaction, RuntimeTypes
  <2>. QED BY <1>9, <2>2, ListStays DEF LaunchTransaction, At, Queue, Here
<1>10. ASSUME NEW s \in Sheet PROVE [txn EXCEPT !.sheet = s] \in Txn
  BY <1>0 DEF Txn
<1>11. CASE TypeOnScreen
  <2>1. FieldTyped(txn.sheet) \in Sheet
    BY <1>0 DEF FieldTyped, Sheet
  <2>. QED BY <1>5, <1>10, <1>11, <2>1 DEF TypeOnScreen, InShell, At
<1>12. ASSUME NEW i \in Inst, OpenInstance(i) PROVE RuntimeInv'
  <2> DEFINE r == instanceList.data[i]
             n == CurrentNode(i, r)
  <2>1. r \in Row
    BY <1>0 DEF RuntimeTypes, QueryOf, RowsOfAll
  <2>2. n \in 0 .. NNodes /\ r.status \in Status
    BY <2>1, ServerAssumption DEF CurrentNode, Row, Node
  <2>3. Screens(n) \subseteq Fetch
    BY ScreensAreFetched
  <2>4. txn' = [Loading(txn, i, r.status, n) EXCEPT !.flow = FlowOf[i]] /\ fetches' = fetches \cup Screens(n)
    BY <1>12 DEF OpenInstance
  <2> HIDE DEF r, n
  <2>5. Loading(txn, i, r.status, n) \in Txn /\ FlowOf[i] \in Workflow
    BY <1>0, <2>2, LoadingIsTyped, RuntimeAssumption
  <2>6. txn' \in Txn
    BY <2>4, <2>5 DEF Txn
  <2>7. RuntimeTypes'
    BY <1>0, <1>12, <2>3, <2>4, <2>6 DEF OpenInstance, RuntimeTypes
  <2>. QED BY <1>12, <2>7, ListStays DEF OpenInstance, InTxn, InShell, At, Queue, Here
<1>13. ASSUME NEW word \in Decision, ResumeWith(word), txn' \in Txn PROVE RuntimeInv'
  <2>1. PICK s \in ResumeSlot : resumes' = [resumes EXCEPT ![s] =
            [st |-> "sent", mine |-> TRUE, flow |-> txn.flow, inst |-> txn.active, word |-> word]]
    BY <1>13 DEF ResumeWith
  <2> DEFINE x == [st |-> "sent", mine |-> TRUE, flow |-> txn.flow, inst |-> txn.active, word |-> word]
  <2>2. x \in Resume /\ x.inst \in Inst
    BY <1>0, <1>13 DEF ResumeWith, Resume, Txn
  <2>3. resumes' = [resumes EXCEPT ![s] = x]
    BY <2>1
  <2> HIDE DEF x
  <2>4. RuntimeTypes'
    BY <1>0, <1>13, <2>2, <2>3 DEF ResumeWith, RuntimeTypes
  <2>. QED BY <1>13, <2>4, ListStays DEF ResumeWith, At, Queue, Here
<1>14. ASSUME NEW word \in Decision, ApproveOrReject(word) PROVE RuntimeInv'
  BY <1>0, <1>13, <1>14 DEF ApproveOrReject
<1>15. ASSUME NEW word \in Decision, ChooseDecision(word) PROVE RuntimeInv'
  <2>1. [txn EXCEPT !.decision = word] \in Txn
    BY <1>0 DEF Txn
  <2>. QED BY <1>5, <1>15, <2>1 DEF ChooseDecision, InTxn, InShell, At
<1>16. ASSUME NEW a \in FormAction, SubmitScreen(a) PROVE RuntimeInv'
  <2>1. Acted(txn.sheet, a) \in Sheet
    BY <1>0 DEF Acted, Sheet
  <2>2. txn' = [txn EXCEPT !.sheet = Acted(txn.sheet, a)] /\ txn' \in Txn
    BY <1>10, <1>16, <2>1 DEF SubmitScreen
  <2>3. CASE Passes(txn.sheet, a) /\ txn.flow # NoFlow
    <3>1. txn.decision \in Decision /\ "REJECTED" \in Decision
      BY <1>0 DEF Txn, Decision
    <3>. QED BY <1>13, <1>16, <2>2, <2>3, <3>1 DEF SubmitScreen
  <2>4. CASE ~(Passes(txn.sheet, a) /\ txn.flow # NoFlow)
    <3>1. Move([txn EXCEPT !.sheet = Acted(txn.sheet, a)]) /\ studio' = studio
      BY <1>16, <2>2, <2>4 DEF SubmitScreen, Move, InShell, At
    <3>. QED BY <1>5, <1>10, <2>1, <3>1
  <2>. QED BY <2>3, <2>4
<1>. QED BY <1>1, <1>2, <1>3, <1>4, <1>6, <1>7, <1>8, <1>9, <1>11, <1>12, <1>14, <1>15, <1>16 DEF ShellClicks

\* The server has done something: the queue is asked for again, or has a gap.
LEMMA ListFollows ==
  ASSUME RuntimeInv, RuntimeTypes', shell' = shell, studio' = studio,
         QueueStale \/ instanceList' = [instanceList EXCEPT !.gap = TRUE]
  PROVE  RuntimeInv'
<1>1. Query(instanceList) /\ (Queue' <=> Queue)
  BY DEF RuntimeInv, Truthful, Queue, Here
<1>2. Truthful(instanceList', rows', Queue')
  <2>1. CASE instanceList' = Refreshed(instanceList, rows')
    BY <1>1, <2>1, RefreshedIsTruthful
  <2>2. CASE instanceList' = Missed(instanceList) /\ ~Queue
    BY <1>1, <2>2, MissedIsTruthful DEF Truthful
  <2>3. CASE instanceList' = [instanceList EXCEPT !.gap = TRUE]
    BY <1>1, <2>3, GapIsTruthful
  <2>. QED BY <2>1, <2>2, <2>3 DEF QueueStale
<1>. QED BY <1>2 DEF RuntimeInv

\* The queue of transactions after a row has changed is a queue.
LEMMA ListFollowsTyped ==
  ASSUME RuntimeTypes, rows' \in RowsOfAll,
         QueueStale \/ instanceList' = [instanceList EXCEPT !.gap = TRUE]
  PROVE  instanceList' \in QueryOf(RowsOfAll)
BY QueryKinds DEF QueueStale, RuntimeTypes

\* Every answer keeps the queue true.
LEMMA ShellAnswersKeep ==
  ASSUME RuntimeInv, ShellAnswers
  PROVE  RuntimeInv'
<1>0. /\ RuntimeTypes /\ shell \in Shell /\ txn \in Txn /\ rows \in RowsOfAll
      /\ resumes \in [ResumeSlot -> Resume] /\ fetches \subseteq Fetch
  BY DEF RuntimeInv, RuntimeTypes
<1>1. ASSUME NEW d \in Domain, SectionArrives(d) PROVE RuntimeInv'
  <2>1. RuntimeTypes'
    BY <1>0, <1>1 DEF SectionArrives, RuntimeTypes
  <2>. QED BY <1>1, <2>1, ListStays DEF SectionArrives, studioVars, Queue, Here
<1>2. CASE PageReady
  <2>1. shell' \in Shell /\ shell'.mode = shell.mode
    BY <1>0, <1>2 DEF PageReady, Shell, NewSheet, Sheet
  <2>2. RuntimeTypes'
    BY <1>0, <1>2, <2>1 DEF PageReady, RuntimeTypes
  <2>. QED BY <1>2, <2>1, <2>2, ListStays DEF PageReady, studioVars, Queue, Here
<1>3. ASSUME NEW f \in fetches, ScreenArrives(f) PROVE RuntimeInv'
  <2>1. f.node \in 0 .. NNodes /\ 0 \in 0 .. NNodes
    BY <1>0, ServerAssumption DEF Fetch, Node
  <2>2. \E s \in {f.node, 0}, x \in Sheet : txn' \in {txn, [txn EXCEPT !.screen = s, !.sheet = x]}
    <3>1. \A b \in BOOLEAN : NewSheet(b) \in Sheet
      BY DEF NewSheet, Sheet
    <3>2. NewSheet(txn.active \in Complete) \in Sheet /\ txn.sheet \in Sheet
      <4>1. (txn.active \in Complete) \in BOOLEAN
        OBVIOUS
      <4>. QED BY <1>0, <3>1, <4>1 DEF Txn
    <3>3. PICK s \in {f.node, 0} :
            txn' = IF ~f.mine THEN txn
                   ELSE [txn EXCEPT !.screen = s,
                                    !.sheet = IF txn.screen = 0 THEN NewSheet(txn.active \in Complete) ELSE @]
      BY <1>3 DEF ScreenArrives
    <3>. QED BY <1>0, <3>2, <3>3 DEF Txn
  <2>3. txn' \in Txn
    BY <1>0, <2>1, <2>2 DEF Txn
  <2>4. RuntimeTypes'
    BY <1>0, <1>3, <2>3 DEF ScreenArrives, RuntimeTypes
  <2>. QED BY <1>3, <2>4, ListStays DEF ScreenArrives, studioVars, Queue, Here
<1>4. CASE LaunchAnswered
  <2>1. rows' \in RowsOfAll
    BY <1>0, <1>4, ExecutedRows DEF LaunchAnswered
  <2>2. txn' \in Txn
    <3>0. Remounted(FALSE) \in Sheet
      BY <1>0 DEF Remounted, Reloaded, NewSheet, Sheet, Txn
    <3>1. CASE txn' = [txn EXCEPT !.view = "running", !.active = NoInst, !.status = "FAILED",
                                  !.sheet = Remounted(FALSE)]
      BY <1>0, <3>0, <3>1 DEF Txn, Status
    <3>2. ASSUME NEW j \in Inst,
                 txn' = IF rows'[j].status = "PAUSED" THEN Loading(txn, j, "PAUSED", 0)
                        ELSE [txn EXCEPT !.view = "running", !.active = j, !.status = rows'[j].status,
                                         !.sheet = Remounted(FALSE)]
          PROVE  txn' \in Txn
      <4>1. rows'[j].status \in Status /\ "PAUSED" \in Status /\ 0 \in 0 .. NNodes
        BY <2>1, ServerAssumption DEF RowsOfAll, Row, Status
      <4>2. Loading(txn, j, "PAUSED", 0) \in Txn
        BY <1>0, <4>1, LoadingIsTyped
      <4>. QED BY <1>0, <3>0, <3>2, <4>1, <4>2 DEF Txn
    <3>3. Born \subseteq Inst
      BY DEF Born
    <3>. QED BY <1>0, <1>4, <3>1, <3>2, <3>3 DEF LaunchAnswered
  <2>3. instanceList' \in QueryOf(RowsOfAll)
    BY <1>0, <1>4, <2>1, ListFollowsTyped DEF LaunchAnswered
  <2>4. RuntimeTypes'
    BY <1>0, <1>4, <2>1, <2>2, <2>3, BlankRuntimeIsTyped DEF LaunchAnswered, RuntimeTypes
  <2>. QED BY <1>4, <2>4, ListFollows DEF LaunchAnswered, studioVars
<1>5. CASE LaunchFailed
  <2>1. CASE UNCHANGED <<rows, instanceList>>
    <3>1. RuntimeTypes'
      BY <1>0, <1>5, <2>1, BlankRuntimeIsTyped DEF LaunchFailed, RuntimeTypes
    <3>. QED BY <1>5, <2>1, <3>1, ListStays DEF LaunchFailed, Queue, Here
  <2>2. CASE \E j \in Inst : Execute(j) /\ instanceList' = [instanceList EXCEPT !.gap = TRUE]
    <3>1. rows' \in RowsOfAll
      BY <1>0, <2>2, ExecutedRows
    <3>2. instanceList' \in QueryOf(RowsOfAll)
      BY <1>0, <2>2, <3>1, ListFollowsTyped
    <3>3. RuntimeTypes'
      BY <1>0, <1>5, <3>1, <3>2, BlankRuntimeIsTyped DEF LaunchFailed, RuntimeTypes
    <3>. QED BY <1>5, <2>2, <3>3, ListFollows DEF LaunchFailed
  <2>. QED BY <1>5, <2>1, <2>2 DEF LaunchFailed
<1>6. ASSUME NEW s \in ResumeSlot, resumes[s].st = "sent", NEW st \in {"ran", "refused"},
             resumes' = [resumes EXCEPT ![s].st = st]
      PROVE  /\ resumes' \in [ResumeSlot -> Resume] /\ resumes[s].inst \in Inst
             /\ \A t \in ResumeSlot : resumes'[t].st = "sent" => resumes'[t].inst \in Inst
  <2> DEFINE x == [resumes[s] EXCEPT !.st = st]
  <2>1. x \in Resume /\ x.st # "sent"
    BY <1>0, <1>6 DEF Resume
  <2>2. resumes' = [resumes EXCEPT ![s] = x]
    BY <1>6
  <2> HIDE DEF x
  <2>. QED BY <1>0, <1>6, <2>1, <2>2 DEF RuntimeTypes
<1>7. ASSUME NEW s \in ResumeSlot, ResumeAnswered(s) PROVE RuntimeInv'
  <2>1. /\ resumes' \in [ResumeSlot -> Resume] /\ resumes[s].inst \in Inst
        /\ \A t \in ResumeSlot : resumes'[t].st = "sent" => resumes'[t].inst \in Inst
    BY <1>6, <1>7 DEF ResumeAnswered
  <2>2. rows' \in RowsOfAll
    BY <1>0, <1>7, <2>1, RunOnRows DEF ResumeAnswered, Resumed, Exists
  <2>3. Merged(resumes[s].inst) \in Txn
    <3> DEFINE j == IF Born = {} THEN resumes[s].inst ELSE CHOOSE k \in Born : TRUE
               a == IF rows'[j].status = "FAILED" THEN txn.active ELSE j
               n == IF rows'[j].status = "PAUSED" THEN txn.node ELSE 0
               c == IF rows'[j].status = "PAUSED" THEN txn.screen ELSE 0
    <3>1. j \in Inst
      BY <2>1 DEF Born
    <3>2. Merged(resumes[s].inst) = [txn EXCEPT !.active = a, !.status = rows'[j].status, !.node = n, !.screen = c]
      BY <1>0 DEF Merged, Txn
    <3> HIDE DEF j
    <3>3. rows'[j].status \in Status
      BY <2>2, <3>1 DEF RowsOfAll, Row
    <3>4. a \in Inst \cup {NoInst} /\ n \in 0 .. NNodes /\ c \in 0 .. NNodes
      BY <1>0, <3>1, ServerAssumption DEF Txn
    <3> HIDE DEF a, n, c
    <3>. QED BY <1>0, <3>2, <3>3, <3>4 DEF Txn
  <2>4. txn' \in Txn
    BY <1>0, <1>7, <2>3 DEF ResumeAnswered
  <2>5. instanceList' \in QueryOf(RowsOfAll)
    BY <1>0, <1>7, <2>2, ListFollowsTyped DEF ResumeAnswered
  <2>6. RuntimeTypes'
    BY <1>0, <1>7, <2>1, <2>2, <2>4, <2>5 DEF ResumeAnswered, RuntimeTypes
  <2>. QED BY <1>7, <2>6, ListFollows DEF ResumeAnswered, studioVars
<1>8. ASSUME NEW s \in ResumeSlot, ResumeRefused(s) PROVE RuntimeInv'
  <2>1. /\ resumes' \in [ResumeSlot -> Resume] /\ resumes[s].inst \in Inst
        /\ \A t \in ResumeSlot : resumes'[t].st = "sent" => resumes'[t].inst \in Inst
    BY <1>6, <1>8 DEF ResumeRefused
  <2>2. CASE UNCHANGED <<rows, instanceList>>
    <3>1. RuntimeTypes'
      BY <1>0, <1>8, <2>1, <2>2 DEF ResumeRefused, RuntimeTypes
    <3>. QED BY <1>8, <2>2, <3>1, ListStays DEF ResumeRefused, Queue, Here
  <2>3. CASE Resumed(resumes[s]) /\ instanceList' = [instanceList EXCEPT !.gap = TRUE]
    <3>1. rows' \in RowsOfAll
      BY <1>0, <2>1, <2>3, RunOnRows DEF Resumed, Exists
    <3>2. instanceList' \in QueryOf(RowsOfAll)
      BY <1>0, <2>3, <3>1, ListFollowsTyped
    <3>3. RuntimeTypes'
      BY <1>0, <1>8, <2>1, <3>1, <3>2 DEF ResumeRefused, RuntimeTypes
    <3>. QED BY <1>8, <2>3, <3>3, ListFollows DEF ResumeRefused
  <2>. QED BY <1>8, <2>2, <2>3 DEF ResumeRefused
<1>9. CASE QueueArrives
  <2>1. instanceList.asked /\ instanceList' \in Answers(instanceList, rows) /\ rows' = rows
    BY <1>9 DEF QueueArrives
  <2>2. instanceList' \in QueryOf(RowsOfAll)
    BY <1>0, <2>1, QueryKinds DEF RuntimeTypes
  <2>3. RuntimeTypes'
    BY <1>0, <1>9, <2>2 DEF QueueArrives, RuntimeTypes
  <2>. QED BY <2>1, <2>3, AnswersAreTruthful DEF RuntimeInv
<1>. QED BY <1>1, <1>2, <1>3, <1>4, <1>5, <1>7, <1>8, <1>9 DEF ShellAnswers

\* Nobody tells the shell of what others decide: the queue has a gap.
LEMMA OthersDecideKeeps ==
  ASSUME RuntimeInv, OthersDecide
  PROVE  RuntimeInv'
<1>1. rows' \in RowsOfAll
  BY TakenRows DEF OthersDecide, RuntimeInv, RuntimeTypes
<1>2. instanceList' \in QueryOf(RowsOfAll)
  BY <1>1, ListFollowsTyped DEF OthersDecide, RuntimeInv
<1>3. RuntimeTypes'
  BY <1>1, <1>2 DEF OthersDecide, RuntimeInv, RuntimeTypes
<1>. QED BY <1>3, ListFollows DEF OthersDecide

\* A shell that is left shows nothing.
LEMMA RuntimeLostKeeps ==
  ASSUME RuntimeInv, RuntimeLost
  PROVE  RuntimeInv'
<1>1. shell' \in Shell /\ ~Queue'
  BY BlankRuntimeIsTyped DEF RuntimeLost, Queue
<1>2. RuntimeTypes'
  BY <1>1, TxnLostIsTyped DEF RuntimeLost, RuntimeInv, RuntimeTypes
<1>. QED BY <1>1, <1>2, ListStays DEF RuntimeLost

\* A step in another studio leaves the shell alone.
LEMMA RuntimeLeftAlone ==
  ASSUME RuntimeInv, UNCHANGED runtimeVars, studio'.desk = studio.desk,
         UNCHANGED studio \/ studio.desk # "runtime"
  PROVE  RuntimeInv'
<1>1. Queue' => Queue
  BY DEF Queue, Here, runtimeVars, shellVars
<1>2. RuntimeTypes'
  BY DEF RuntimeInv, RuntimeTypes, runtimeVars, shellVars
<1>. QED BY <1>1, <1>2, ListStays DEF runtimeVars, shellVars

(***************************************************************************)
(* Notification policies                                                   *)
(***************************************************************************)
Places == UNION {[T -> Nat] : T \in SUBSET Trigger}
PolicyRow == [name : PolicyName, status : PolicyStatus, own : BOOLEAN, at : Places]
PolicyTable == UNION {[P -> PolicyRow] : P \in SUBSET Policy}
TablesAmong(P) == {t \in PolicyTable : DOMAIN t \subseteq P}
NoticeSent == {x \in Notice : x.op = "create" => x.name \in PolicyName}

\* A policy that is known to the list or edited is there.
NotifyTypes ==
  /\ notifier \in Notifier /\ notifier.editing \in DOMAIN policies \cup {NoPolicy}
  /\ notices \subseteq NoticeSent /\ policies \in PolicyTable
  /\ policyList \in QueryOf(TablesAmong(DOMAIN policies))
  /\ policyLooks \in [Policy -> QueryOf(PolicyRow \cup {Unseen})]

ListShown == Here("notifications") /\ OnPolicies
LooksTrue ==
  \A p \in Policy : /\ Truthful(policyLooks[p], policies[p], Edited(p))
                    /\ policyLooks[p].asked => p \in DOMAIN policies

\* Without a gap, the list and the look at each policy are true or are going to be.
NotifyInv == NotifyTypes /\ Truthful(policyList, policies, ListShown) /\ LooksTrue

\* The rows of policies, as a set.
LEMMA PolicyRows == \A p : IsPolicy(p) <=> p \in PolicyRow
<1>1. ASSUME NEW p, p \in PolicyRow PROVE IsPolicy(p)
  <2>1. p.at \in Places /\ DOMAIN p.at \subseteq Trigger /\ p.at \in [DOMAIN p.at -> Nat]
    BY <1>1 DEF PolicyRow, Places
  <2>. QED BY <1>1, <2>1 DEF PolicyRow, IsPolicy
<1>2. ASSUME NEW p, IsPolicy(p) PROVE p \in PolicyRow
  <2>1. p.at \in Places
    BY <1>2 DEF IsPolicy, Places
  <2>. QED BY <1>2, <2>1 DEF IsPolicy, PolicyRow
<1>. QED BY <1>1, <1>2

\* The types the runs check, from those of the invariant.
LEMMA NotifyTypesSuffice == NotifyTypes => NotificationTypeOK
<1>. SUFFICES ASSUME NotifyTypes PROVE NotificationTypeOK
  OBVIOUS
<1>1. \A t \in PolicyTable : DOMAIN t \subseteq Policy /\ \A p \in DOMAIN t : IsPolicy(t[p])
  BY PolicyRows DEF PolicyTable
<1>2. policyList.data \in PolicyTable
  BY DEF NotifyTypes, QueryOf, TablesAmong
<1>3. \A p \in Policy : IsPolicy(policyLooks[p].data) \/ policyLooks[p].data = Unseen
  BY PolicyRows DEF NotifyTypes, QueryOf
<1>. QED BY <1>1, <1>2, <1>3 DEF NotifyTypes, NotificationTypeOK, NoticeSent

\* The studio as it opens edits nothing.
LEMMA BlankNotifierIsTyped ==
  /\ BlankNotifier \in Notifier /\ BlankNotifier.editing = NoPolicy
  /\ <<"blank">> \in TriggerEntries /\ <<"complete">> \in TriggerEntries
<1>1. <<"blank">> \in TriggerEntries /\ <<"complete">> \in TriggerEntries
  BY NotificationAssumption DEF TriggerEntries, TriggerEntry
<1>. QED BY <1>1 DEF BlankNotifier, Notifier, TriggerEntry

\* Nobody has looked at the policies at first.
LEMMA NotifyInvInit == NotificationInit /\ StudioInit => NotifyInv
<1>. SUFFICES ASSUME NotificationInit, StudioInit PROVE NotifyInv
  OBVIOUS
<1>1. NoPolicies \in PolicyTable /\ \A P : NoPolicies \in TablesAmong(P)
  <2>1. NoPolicies \in [{} -> PolicyRow] /\ DOMAIN NoPolicies = {}
    BY DEF NoPolicies
  <2>. QED BY <2>1 DEF PolicyTable, TablesAmong
<1>2. policies \in PolicyTable
  <2>1. CASE policies = Established
    <3>1. DOMAIN Established \subseteq Policy /\ \A p \in DOMAIN Established : Established[p] \in PolicyRow
      BY NotificationAssumption, PolicyRows
    <3>2. policies = [p \in DOMAIN Established |-> Established[p]]
      BY <2>1, NotificationAssumption
    <3>. QED BY <3>1, <3>2 DEF PolicyTable
  <2>. QED BY <1>1, <2>1 DEF NotificationInit
<1>3. policyList \in QueryOf(TablesAmong(DOMAIN policies))
  BY <1>1 DEF NotificationInit, Unasked, QueryOf
<1>4. policyLooks \in [Policy -> QueryOf(PolicyRow \cup {Unseen})]
  BY DEF NotificationInit, Unasked, QueryOf
<1>5. NotifyTypes
  BY <1>2, <1>3, <1>4, BlankNotifierIsTyped DEF NotificationInit, NotifyTypes
<1>6. ~Here("notifications")
  BY DEF StudioInit, Here
<1>7. LooksTrue
  <2>1. \A p \in Policy : policyLooks[p] = Unasked(Unseen) /\ ~Edited(p)
    BY <1>6 DEF NotificationInit, Edited
  <2>2. ~Unasked(Unseen).asked
    BY DEF Unasked
  <2>3. ASSUME NEW p \in Policy PROVE Truthful(policyLooks[p], policies[p], Edited(p))
    BY <2>1, UnaskedIsTruthful DEF Truthful
  <2>. QED BY <2>1, <2>2, <2>3 DEF LooksTrue
<1>8. Truthful(policyList, policies, ListShown)
  BY <1>6, UnaskedIsTruthful DEF NotificationInit, ListShown, Truthful
<1>. QED BY <1>5, <1>7, <1>8 DEF NotifyInv

\* A table of policies has a row of each.
LEMMA PoliciesAreRows ==
  ASSUME policies \in PolicyTable
  PROVE  /\ DOMAIN policies \subseteq Policy /\ policies \in [DOMAIN policies -> PolicyRow]
         /\ policies \in TablesAmong(DOMAIN policies)
BY DEF PolicyTable, TablesAmong

\* The same after a step.
LEMMA PoliciesAreRowsAfter ==
  ASSUME policies' \in PolicyTable
  PROVE  /\ DOMAIN policies' \subseteq Policy /\ policies' \in [DOMAIN policies' -> PolicyRow]
         /\ policies' \in TablesAmong(DOMAIN policies')
BY DEF PolicyTable, TablesAmong

\* The forms and the drafts of the user: nothing that is shown comes new on the screen.
LEMMA NotifierKeeps ==
  ASSUME NotifyInv, notifier' \in Notifier, notifier'.editing \in DOMAIN policies \cup {NoPolicy},
         notices' \subseteq NoticeSent, UNCHANGED <<policies, policyList, policyLooks>>,
         Here("notifications")' => Here("notifications"),
         (notifier'.view = notifier.view /\ notifier'.editing = notifier.editing) \/ ~Here("notifications")'
  PROVE  NotifyInv'
<1>1. (ListShown' => ListShown) /\ \A p \in Policy : Edited(p)' => Edited(p)
  BY DEF ListShown, OnPolicies, Edited, Here
<1>2. NotifyTypes'
  BY DEF NotifyInv, NotifyTypes
<1>3. Truthful(policyList', policies', ListShown')
  BY <1>1, HiddenIsTruthful DEF NotifyInv
<1>4. LooksTrue'
  BY <1>1, HiddenIsTruthful DEF NotifyInv, LooksTrue
<1>. QED BY <1>2, <1>3, <1>4 DEF NotifyInv

\* Requests about a policy that is followed are requests.
LEMMA NoticesFollow ==
  ASSUME notices \subseteq NoticeSent, NEW p \in Policy \cup {NoPolicy}, Followed(p)
  PROVE  notices' \subseteq NoticeSent
<1>1. \A x \in NoticeSent : [x EXCEPT !.seen = p] \in NoticeSent
  BY DEF NoticeSent, Notice
<1>. QED BY <1>1 DEF Followed

\* What the form sends is a request with a name.
LEMMA NoticesAreSent ==
  ASSUME notifier \in Notifier, NEW op \in NoticeOp, NEW p \in Policy \cup {NoPolicy},
         NEW t \in Trigger \cup {NoTrigger}, NEW r \in TriggerEntries, op = "create" => notifier.name # NoName
  PROVE  NoticeOf(op, p, t, r) \in NoticeSent
<1> DEFINE sent == {i \in DOMAIN r : r[i] # "blank"}
<1>1. DOMAIN r = 1 .. Len(r) /\ Len(r) \in 1 .. MaxRows
  BY NotificationAssumption DEF TriggerEntries
<1>2. IsFiniteSet(DOMAIN r) /\ Cardinality(DOMAIN r) <= MaxRows
  <2>1. Len(r) \in Int /\ 1 \in Int /\ ~(1 > Len(r)) /\ Len(r) <= MaxRows
    BY <1>1, NotificationAssumption
  <2>2. IsFiniteSet(1 .. Len(r)) /\ Cardinality(1 .. Len(r)) = Len(r)
    BY <2>1, FS_Interval
  <2>. QED BY <1>1, <2>1, <2>2
<1>3. Cardinality(sent) \in 0 .. MaxRows
  <2>1. IsFiniteSet(sent) /\ Cardinality(sent) <= Cardinality(DOMAIN r)
    BY <1>2, FS_Subset
  <2>. QED BY <1>2, <2>1, FS_CardinalityType, NotificationAssumption
<1>4. Named(r) \in Forms
  <2>1. (\A i \in sent : r[i] = "complete") \in BOOLEAN
    OBVIOUS
  <2>2. Named(r) = [count |-> Cardinality(sent), complete |-> \A i \in sent : r[i] = "complete"]
    BY DEF Named
  <2> HIDE DEF sent
  <2>. QED BY <1>3, <2>1, <2>2 DEF Forms
<1>5. notifier.editing \in Policy \cup {NoPolicy} /\ notifier.name \in PolicyName \cup {NoName}
  BY DEF Notifier
<1>. QED BY <1>4, <1>5 DEF NoticeOf, NoticeSent, Notice

\* A policy that is opened for editing is asked for.
LEMMA LooksOpened ==
  ASSUME NotifyInv, NEW e \in DOMAIN policies \cup {NoPolicy}, Opened(e), UNCHANGED policies,
         \A p \in Policy : p # e => ~Edited(p)'
  PROVE  /\ policyLooks' \in [Policy -> QueryOf(PolicyRow \cup {Unseen})]
         /\ LooksTrue'
<1>1. DOMAIN policies \subseteq Policy /\ policies \in [DOMAIN policies -> PolicyRow]
  BY PoliciesAreRows DEF NotifyInv, NotifyTypes
<1>2. \A p \in Policy : policyLooks'[p] = IF p = e THEN Asked(policyLooks[p], policies[p]) ELSE policyLooks[p]
  BY DEF Opened
<1>3. ASSUME NEW p \in Policy
      PROVE  /\ policyLooks'[p] \in QueryOf(PolicyRow \cup {Unseen})
             /\ Truthful(policyLooks'[p], policies'[p], Edited(p)')
             /\ policyLooks'[p].asked => p \in DOMAIN policies'
  <2>0. policyLooks[p] \in QueryOf(PolicyRow \cup {Unseen}) /\ Truthful(policyLooks[p], policies[p], Edited(p))
    BY DEF NotifyInv, NotifyTypes, LooksTrue
  <2>1. CASE p = e
    <3>1. p \in DOMAIN policies /\ policies[p] \in PolicyRow \cup {Unseen}
      BY <1>1, <2>1, NotificationAssumption
    <3>2. Asked(policyLooks[p], policies[p]) \in QueryOf(PolicyRow \cup {Unseen})
      BY <2>0, <3>1, QueryKinds
    <3>. QED BY <1>2, <2>0, <2>1, <3>1, <3>2, AskedIsTruthful
  <2>2. CASE p # e
    <3>1. ~Edited(p)' /\ policyLooks'[p] = policyLooks[p]
      BY <1>2, <2>2
    <3>. QED BY <2>0, <3>1, HiddenIsTruthful DEF NotifyInv, LooksTrue
  <2>. QED BY <2>1, <2>2
<1>4. policyLooks' \in [Policy -> QueryOf(PolicyRow \cup {Unseen})]
  BY <1>3 DEF Opened
<1>. QED BY <1>3, <1>4 DEF LooksTrue

\* What users do in the studio keeps what it shows true.
LEMMA PolicyClicksKeep ==
  ASSUME NotifyInv, PolicyClicks
  PROVE  NotifyInv'
<1>0. /\ notifier \in Notifier /\ notifier.editing \in DOMAIN policies \cup {NoPolicy}
      /\ notices \subseteq NoticeSent /\ policies \in PolicyTable /\ DOMAIN policies \subseteq Policy
      /\ policyList \in QueryOf(TablesAmong(DOMAIN policies))
      /\ Truthful(policyList, policies, ListShown) /\ LooksTrue
  BY PoliciesAreRows DEF NotifyInv, NotifyTypes
<1>1. ASSUME NEW p \in Policy, EditPolicy(p) PROVE NotifyInv'
  <2>1. p \in DOMAIN policies
    BY <1>0, <1>1 DEF EditPolicy, QueryOf, TablesAmong
  <2>2. /\ notifier' = [notifier EXCEPT !.view = "editor", !.editing = p] /\ Opened(p) /\ Followed(p)
        /\ UNCHANGED <<policies, policyList>>
    BY <1>1 DEF EditPolicy, Notify
  <2>3. notifier' \in Notifier /\ notifier'.view = "editor" /\ notifier'.editing = p
    BY <1>0, <2>2 DEF Notifier
  <2>4. notices' \subseteq NoticeSent
    BY <1>0, <2>2, NoticesFollow
  <2>5. policyLooks' \in [Policy -> QueryOf(PolicyRow \cup {Unseen})] /\ LooksTrue'
    BY <2>1, <2>2, <2>3, LooksOpened DEF Edited
  <2>6. NotifyTypes'
    BY <1>0, <2>1, <2>2, <2>3, <2>4, <2>5 DEF NotifyTypes
  <2>7. ~ListShown'
    BY <2>3 DEF ListShown, OnPolicies
  <2>8. Truthful(policyList', policies', ListShown')
    BY <1>0, <2>2, <2>7, HiddenIsTruthful
  <2>. QED BY <2>5, <2>6, <2>8 DEF NotifyInv
<1>2. CASE NewPolicy
  <2>1. /\ notifier' = [notifier EXCEPT !.view = "editor", !.editing = NoPolicy] /\ Followed(NoPolicy)
        /\ UNCHANGED <<policies, policyList, policyLooks>>
    BY <1>2 DEF NewPolicy, Notify
  <2>2. notifier' \in Notifier /\ notifier'.view = "editor" /\ notifier'.editing = NoPolicy
    BY <1>0, <2>1 DEF Notifier
  <2>3. notices' \subseteq NoticeSent
    BY <1>0, <2>1, NoticesFollow
  <2>4. NotifyTypes'
    BY <1>0, <2>1, <2>2, <2>3 DEF NotifyInv, NotifyTypes
  <2>5. ~ListShown' /\ \A p \in Policy : ~Edited(p)'
    BY <2>2, NotificationAssumption DEF ListShown, OnPolicies, Edited
  <2>6. Truthful(policyList', policies', ListShown')
    BY <1>0, <2>1, <2>5, HiddenIsTruthful
  <2>7. LooksTrue'
    BY <1>0, <2>1, <2>5, HiddenIsTruthful DEF LooksTrue
  <2>. QED BY <2>4, <2>6, <2>7 DEF NotifyInv
<1>3. CASE CreateFirstPolicy
  <2>1. /\ notifier' = [notifier EXCEPT !.view = "editor"] /\ Opened(notifier.editing)
        /\ UNCHANGED <<policies, policyList, notices>>
    BY <1>3 DEF CreateFirstPolicy, Notify
  <2>2. notifier' \in Notifier /\ notifier'.view = "editor" /\ notifier'.editing = notifier.editing
    BY <1>0, <2>1 DEF Notifier
  <2>3. policyLooks' \in [Policy -> QueryOf(PolicyRow \cup {Unseen})] /\ LooksTrue'
    BY <1>0, <2>1, <2>2, LooksOpened DEF Edited
  <2>4. NotifyTypes'
    BY <1>0, <2>1, <2>2, <2>3 DEF NotifyTypes
  <2>5. ~ListShown'
    BY <2>2 DEF ListShown, OnPolicies
  <2>6. Truthful(policyList', policies', ListShown')
    BY <1>0, <2>1, <2>5, HiddenIsTruthful
  <2>. QED BY <2>3, <2>4, <2>6 DEF NotifyInv
<1>4. CASE BackToPolicies
  <2>1. /\ notifier' = [notifier EXCEPT !.view = "list", !.editing = NoPolicy] /\ Followed(NoPolicy)
        /\ policyList' = Asked(policyList, policies) /\ UNCHANGED <<policies, policyLooks>>
    BY <1>4 DEF BackToPolicies, Notify
  <2>2. notifier' \in Notifier /\ notifier'.view = "list" /\ notifier'.editing = NoPolicy
    BY <1>0, <2>1 DEF Notifier
  <2>3. notices' \subseteq NoticeSent
    BY <1>0, <2>1, NoticesFollow
  <2>4. policyList' \in QueryOf(TablesAmong(DOMAIN policies))
    BY <1>0, <2>1, PoliciesAreRows, QueryKinds
  <2>5. NotifyTypes'
    BY <1>0, <2>1, <2>2, <2>3, <2>4 DEF NotifyInv, NotifyTypes
  <2>6. \A p \in Policy : ~Edited(p)'
    BY <2>2 DEF Edited
  <2>7. Truthful(policyList', policies', ListShown')
    BY <1>0, <2>1, AskedIsTruthful
  <2>8. LooksTrue'
    BY <1>0, <2>1, <2>6, HiddenIsTruthful DEF LooksTrue
  <2>. QED BY <2>5, <2>7, <2>8 DEF NotifyInv
<1>5. ASSUME NEW n \in Notifier, Drafted(n), n.view = notifier.view, n.editing = notifier.editing PROVE NotifyInv'
  BY <1>0, <1>5, NotifierKeeps DEF Drafted, Notify, At, Here
<1>6. ASSUME NEW r \in TriggerEntries PROVE [notifier EXCEPT !.rows = r] \in Notifier
  BY <1>0 DEF Notifier
<1>7. ASSUME NEW r \in TriggerEntries, Drafted([notifier EXCEPT !.rows = r]) PROVE NotifyInv'
  <2> DEFINE n == [notifier EXCEPT !.rows = r]
  <2>1. n \in Notifier /\ n.view = notifier.view /\ n.editing = notifier.editing
    BY <1>0, <1>6 DEF Notifier
  <2> HIDE DEF n
  <2>2. Drafted(n)
    BY <1>7 DEF n
  <2>. QED BY <1>5, <2>1, <2>2
<1>8. /\ notifier.rows \in Seq(TriggerEntry) /\ Len(notifier.rows) \in 1 .. MaxRows /\ MaxRows \in Nat
      /\ "blank" \in TriggerEntry
  BY <1>0, NotificationAssumption DEF Notifier, TriggerEntries, TriggerEntry
<1>9. ASSUME NEW name \in PolicyName, TypeName(name) PROVE NotifyInv'
  <2> DEFINE n == [notifier EXCEPT !.name = name]
  <2>1. n \in Notifier /\ n.view = notifier.view /\ n.editing = notifier.editing
    BY <1>0 DEF Notifier
  <2>. QED BY <1>5, <1>9, <2>1 DEF TypeName
<1>10. CASE AddRow
  <2>1. Append(notifier.rows, "blank") \in TriggerEntries
    BY <1>8, <1>10 DEF AddRow, TriggerEntries
  <2>. QED BY <1>7, <1>10, <2>1 DEF AddRow
<1>11. ASSUME NEW i, NEW e \in TriggerEntry, FillRow(i, e) PROVE NotifyInv'
  <2> DEFINE r == [notifier.rows EXCEPT ![i] = e]
  <2>1. r \in TriggerEntries
    BY <1>8, <1>11 DEF FillRow, TriggerEntries
  <2>2. Drafted([notifier EXCEPT !.rows = r])
    BY <1>0, <1>11 DEF FillRow, Notifier
  <2> HIDE DEF r
  <2>. QED BY <1>7, <2>1, <2>2
<1>12. ASSUME NEW i, RemoveRow(i) PROVE NotifyInv'
  <2> DEFINE r == SubSeq(notifier.rows, 1, i - 1) \o SubSeq(notifier.rows, i + 1, Len(notifier.rows))
  <2>1. r \in Seq(TriggerEntry) /\ Len(r) = Len(notifier.rows) - 1
    BY <1>8, <1>12, StepRemoved DEF RemoveRow
  <2>3. Drafted([notifier EXCEPT !.rows = r]) /\ Len(notifier.rows) > 1
    BY <1>0, <1>12 DEF RemoveRow, Notifier
  <2> HIDE DEF r
  <2>2. r \in TriggerEntries
    BY <1>8, <2>1, <2>3 DEF TriggerEntries
  <2>. QED BY <1>7, <2>2, <2>3
<1>13. CASE OpenTrigger \/ CancelTrigger \/ \E e \in TriggerEntry : FillTrigger(e)
  <2>1. \E n \in {[notifier EXCEPT !.adding = TRUE, !.trigger = "blank"], [notifier EXCEPT !.adding = FALSE]}
             \cup {[notifier EXCEPT !.trigger = e] : e \in TriggerEntry} : Drafted(n)
    BY <1>13 DEF OpenTrigger, CancelTrigger, FillTrigger
  <2>2. PICK n : /\ Drafted(n)
                 /\ n \in {[notifier EXCEPT !.adding = TRUE, !.trigger = "blank"], [notifier EXCEPT !.adding = FALSE]}
                         \cup {[notifier EXCEPT !.trigger = e] : e \in TriggerEntry}
    BY <2>1
  <2>3. n \in Notifier /\ n.view = notifier.view /\ n.editing = notifier.editing
    BY <1>0, <1>8, <2>2 DEF Notifier
  <2>. QED BY <1>5, <2>2, <2>3
<1>14. ASSUME NEW x \in NoticeSent, Tell(x) PROVE NotifyInv'
  <2>1. \A y \in NoticeSent : [y EXCEPT !.mine = FALSE] \in NoticeSent
    BY DEF NoticeSent, Notice
  <2>2. notices' \subseteq NoticeSent
    BY <1>0, <1>14, <2>1 DEF Tell
  <2>3. UNCHANGED <<notifier, policies, policyList, policyLooks, studio>>
    BY <1>14 DEF Tell, At
  <2>. QED BY <1>0, <2>2, <2>3, NotifierKeeps DEF Here
<1>15. notifier.editing \in Policy \cup {NoPolicy} /\ <<"blank">> \in TriggerEntries
  BY <1>0, BlankNotifierIsTyped
<1>16. CASE CreatePolicy
  <2>1. NoticeOf("create", NoPolicy, NoTrigger, notifier.rows) \in NoticeSent
    BY <1>0, <1>16, NoticesAreSent DEF CreatePolicy, NoticeOp, Notifier
  <2>. QED BY <1>14, <1>16, <2>1 DEF CreatePolicy
<1>17. CASE AddTrigger
  <2>1. <<notifier.trigger>> \in TriggerEntries
    BY <1>0, <1>8 DEF Notifier, TriggerEntries
  <2>2. NoticeOf("add", notifier.editing, NoTrigger, <<notifier.trigger>>) \in NoticeSent
    BY <1>0, <1>15, <2>1, NoticesAreSent DEF NoticeOp
  <2>. QED BY <1>14, <1>17, <2>2 DEF AddTrigger
<1>18. ASSUME NEW t \in Trigger, RemoveTrigger(t) PROVE NotifyInv'
  <2>1. NoticeOf("remove", notifier.editing, t, <<"blank">>) \in NoticeSent
    BY <1>0, <1>15, NoticesAreSent DEF NoticeOp
  <2>. QED BY <1>14, <1>18, <2>1 DEF RemoveTrigger
<1>19. ASSUME NEW p \in Policy, SubmitPolicy(p) \/ MakePolicyLive(p) PROVE NotifyInv'
  <2>1. /\ NoticeOf("submit", p, NoTrigger, <<"blank">>) \in NoticeSent
        /\ NoticeOf("live", p, NoTrigger, <<"blank">>) \in NoticeSent
    BY <1>0, <1>15, NoticesAreSent DEF NoticeOp
  <2>. QED BY <1>14, <1>19, <2>1 DEF SubmitPolicy, MakePolicyLive
<1>. QED BY <1>1, <1>2, <1>3, <1>4, <1>9, <1>10, <1>11, <1>12, <1>13, <1>16, <1>17, <1>18, <1>19 DEF PolicyClicks

\* What the server does about a request: policies stay, whatever becomes of them.
LEMMA PoliciesCarried ==
  ASSUME policies \in PolicyTable, NEW x \in NoticeSent, Carried(x)
  PROVE  policies' \in PolicyTable /\ DOMAIN policies \subseteq DOMAIN policies'
<1>0. DOMAIN policies \subseteq Policy /\ policies \in [DOMAIN policies -> PolicyRow]
  BY PoliciesAreRows
<1>1. ASSUME x.op = "create", Created(x) PROVE policies' \in PolicyTable /\ DOMAIN policies \subseteq DOMAIN policies'
  <2>1. PICK p \in Policy \ DOMAIN policies, ids \in SUBSET FreeTriggers : \E at \in [ids -> 0 .. x.forms.count - 1] :
          policies' = [q \in DOMAIN policies \cup {p} |->
             IF q = p THEN [name |-> x.name, status |-> "DRAFT", own |-> x.own, at |-> at] ELSE policies[q]]
    BY <1>1, ZenonT(60) DEF Created
  <2>2. PICK at \in [ids -> 0 .. x.forms.count - 1] :
          policies' = [q \in DOMAIN policies \cup {p} |->
             IF q = p THEN [name |-> x.name, status |-> "DRAFT", own |-> x.own, at |-> at] ELSE policies[q]]
    BY <2>1
  <2> DEFINE row == [name |-> x.name, status |-> "DRAFT", own |-> x.own, at |-> at]
  <2>3. at \in Places
    <3>1. ids \in SUBSET Trigger
      BY DEF FreeTriggers
    <3>2. x.forms.count \in Nat
      BY NotificationAssumption DEF NoticeSent, Notice, Forms
    <3>3. at \in [ids -> Nat]
      BY <3>2
    <3>. QED BY <3>1, <3>3 DEF Places
  <2>4. row \in PolicyRow
    BY <1>1, <2>3 DEF NoticeSent, Notice, PolicyRow, PolicyStatus
  <2>5. policies' = [q \in DOMAIN policies \cup {p} |-> IF q = p THEN row ELSE policies[q]]
    BY <2>2
  <2> HIDE DEF row
  <2>6. policies' \in [DOMAIN policies \cup {p} -> PolicyRow] /\ DOMAIN policies \cup {p} \in SUBSET Policy
    BY <1>0, <2>4, <2>5
  <2>. QED BY <2>6 DEF PolicyTable
<1>2. ASSUME NEW r, x.policy \in DOMAIN policies => r \in PolicyRow, policies' = [policies EXCEPT ![x.policy] = r]
      PROVE  policies' \in PolicyTable /\ DOMAIN policies \subseteq DOMAIN policies'
  <2>1. policies' \in [DOMAIN policies -> PolicyRow]
    BY <1>0, <1>2
  <2>. QED BY <1>0, <2>1 DEF PolicyTable
<1> DEFINE old == policies[x.policy]
<1>3. x.policy \in DOMAIN policies => /\ old \in PolicyRow /\ DOMAIN old.at \in SUBSET Trigger
                                      /\ old.at \in [DOMAIN old.at -> Nat]
  BY <1>0 DEF PolicyRow, Places
<1>4. ASSUME NEW at, x.policy \in DOMAIN policies => at \in Places PROVE
             x.policy \in DOMAIN policies => [old EXCEPT !.at = at] \in PolicyRow
  BY <1>3, <1>4 DEF PolicyRow
<1>5. ASSUME TriggerAdded(x) PROVE policies' \in PolicyTable /\ DOMAIN policies \subseteq DOMAIN policies'
  <2>1. PICK t \in FreeTriggers :
          policies' = [policies EXCEPT ![x.policy].at =
             [s \in DOMAIN @ \cup {t} |-> IF s = t THEN Cardinality(DOMAIN @) ELSE @[s]]]
    BY <1>5 DEF TriggerAdded
  <2> DEFINE at == [s \in DOMAIN old.at \cup {t} |-> IF s = t THEN Cardinality(DOMAIN old.at) ELSE old.at[s]]
  <2>2. ASSUME x.policy \in DOMAIN policies PROVE at \in Places
    <3>1. t \in Trigger /\ DOMAIN old.at \cup {t} \in SUBSET Trigger
      BY <1>3, <2>2 DEF FreeTriggers
    <3>2. Cardinality(DOMAIN old.at) \in Nat
      BY <1>3, <2>2, NotificationAssumption, FS_Subset, FS_CardinalityType
    <3>3. at \in [DOMAIN old.at \cup {t} -> Nat]
      BY <1>3, <2>2, <3>2
    <3>. QED BY <3>1, <3>3 DEF Places
  <2>3. policies' = [policies EXCEPT ![x.policy] = [old EXCEPT !.at = at]]
    BY <2>1
  <2> HIDE DEF at, old
  <2>. QED BY <1>2, <1>4, <2>2, <2>3
<1>6. ASSUME TriggerRemoved(x) PROVE policies' \in PolicyTable /\ DOMAIN policies \subseteq DOMAIN policies'
  <2> DEFINE at == [s \in DOMAIN old.at \ {x.trigger} |-> old.at[s]]
  <2>1. ASSUME x.policy \in DOMAIN policies PROVE at \in Places
    <3>1. DOMAIN old.at \ {x.trigger} \in SUBSET Trigger
      BY <1>3, <2>1
    <3>2. at \in [DOMAIN old.at \ {x.trigger} -> Nat]
      BY <1>3, <2>1
    <3>. QED BY <3>1, <3>2 DEF Places
  <2>2. policies' = [policies EXCEPT ![x.policy] = [old EXCEPT !.at = at]]
    BY <1>6 DEF TriggerRemoved
  <2> HIDE DEF at, old
  <2>. QED BY <1>2, <1>4, <2>1, <2>2
<1>7. ASSUME policies' = [policies EXCEPT ![x.policy].status = "PENDING_APPROVAL"]
      PROVE  policies' \in PolicyTable /\ DOMAIN policies \subseteq DOMAIN policies'
  <2>1. x.policy \in DOMAIN policies => [old EXCEPT !.status = "PENDING_APPROVAL"] \in PolicyRow
    BY <1>3 DEF PolicyRow, PolicyStatus
  <2>2. policies' = [policies EXCEPT ![x.policy] = [old EXCEPT !.status = "PENDING_APPROVAL"]]
    BY <1>7
  <2> HIDE DEF old
  <2>. QED BY <1>2, <2>1, <2>2
<1>8. ASSUME MadeLive(x) PROVE policies' \in PolicyTable /\ DOMAIN policies \subseteq DOMAIN policies'
  <2>1. \A r \in PolicyRow : [r EXCEPT !.status = "LIVE"] \in PolicyRow /\ [r EXCEPT !.status = "ARCHIVED"] \in PolicyRow
    BY DEF PolicyRow, PolicyStatus
  <2>2. policies' \in [DOMAIN policies -> PolicyRow]
    BY <1>0, <1>8, <2>1 DEF MadeLive
  <2>. QED BY <1>0, <2>2 DEF PolicyTable
<1>. QED BY <1>1, <1>5, <1>6, <1>7, <1>8 DEF Carried

\* Looks that nobody tells, and those that are told of the editor shown last.
LEMMA LookUntold ==
  ASSUME NotifyInv, policies' \in PolicyTable, DOMAIN policies \subseteq DOMAIN policies', NEW p \in Policy
  PROVE  /\ LooksUntold[p] \in QueryOf(PolicyRow \cup {Unseen})
         /\ Truthful(LooksUntold[p], policies'[p], Edited(p))
         /\ LooksUntold[p].asked => p \in DOMAIN policies'
<1>1. /\ policyLooks[p] \in QueryOf(PolicyRow \cup {Unseen}) /\ Truthful(policyLooks[p], policies[p], Edited(p))
      /\ policyLooks[p].asked => p \in DOMAIN policies
      /\ Edited(p) => p \in DOMAIN policies
  BY NotificationAssumption DEF NotifyInv, NotifyTypes, LooksTrue, Edited
<1>2. LooksUntold[p] = IF PolicyChanged(p) THEN [policyLooks[p] EXCEPT !.gap = TRUE] ELSE policyLooks[p]
  BY DEF LooksUntold
<1>3. CASE PolicyChanged(p)
  <2>1. Query(policyLooks[p]) /\ p \in DOMAIN policies
    BY <1>1, <1>3 DEF Truthful, PolicyChanged
  <2>2. [policyLooks[p] EXCEPT !.gap = TRUE] \in QueryOf(PolicyRow \cup {Unseen})
    BY <1>1 DEF QueryOf
  <2>. QED BY <1>2, <1>3, <2>1, <2>2, GapIsTruthful
<1>4. CASE p \in DOMAIN policies /\ ~PolicyChanged(p)
  <2>1. policies'[p] = policies[p] /\ LooksUntold[p] = policyLooks[p]
    BY <1>2, <1>4 DEF PolicyChanged
  <2>. QED BY <1>1, <1>4, <2>1
<1>5. CASE p \notin DOMAIN policies
  <2>1. LooksUntold[p] = policyLooks[p] /\ ~policyLooks[p].asked /\ ~Edited(p)
    BY <1>1, <1>2, <1>5 DEF PolicyChanged
  <2>. QED BY <1>1, <2>1 DEF Truthful
<1>. QED BY <1>3, <1>4, <1>5

\* A policy on the screen is asked for again when its studio changed it.
LEMMA LookTold ==
  ASSUME NotifyInv, policies' \in PolicyTable, DOMAIN policies \subseteq DOMAIN policies', NEW p \in Policy, NEW x
  PROVE  /\ LooksTold(x)[p] \in QueryOf(PolicyRow \cup {Unseen})
         /\ Truthful(LooksTold(x)[p], policies'[p], Edited(p))
         /\ LooksTold(x)[p].asked => p \in DOMAIN policies'
<1>1. /\ policyLooks[p] \in QueryOf(PolicyRow \cup {Unseen}) /\ Query(policyLooks[p])
      /\ policyLooks[p].asked => p \in DOMAIN policies
      /\ Edited(p) => p \in DOMAIN policies
  BY NotificationAssumption DEF NotifyInv, NotifyTypes, LooksTrue, Edited, Truthful
<1>2. CASE p # x.seen
  <2>1. LooksTold(x)[p] = LooksUntold[p]
    BY <1>2 DEF LooksTold
  <2>. QED BY <2>1, LookUntold
<1>3. CASE p = x.seen /\ Edited(p)
  <2>1. LooksTold(x)[p] = Refreshed(policyLooks[p], policies'[p])
    BY <1>3 DEF LooksTold
  <2>2. p \in DOMAIN policies' /\ policies'[p] \in PolicyRow \cup {Unseen}
    BY <1>1, <1>3, PoliciesAreRowsAfter
  <2>3. Refreshed(policyLooks[p], policies'[p]) \in QueryOf(PolicyRow \cup {Unseen})
    BY <1>1, <2>2, QueryKinds
  <2>. QED BY <1>1, <2>1, <2>2, <2>3, RefreshedIsTruthful
<1>4. CASE p = x.seen /\ ~Edited(p)
  <2>1. LooksTold(x)[p] = Missed(policyLooks[p])
    BY <1>4 DEF LooksTold
  <2>2. Missed(policyLooks[p]) \in QueryOf(PolicyRow \cup {Unseen})
    BY <1>1 DEF Missed, QueryOf
  <2>3. Missed(policyLooks[p]).asked <=> policyLooks[p].asked
    BY <1>1, MissedFields
  <2>. QED BY <1>1, <1>4, <2>1, <2>2, <2>3, MissedIsTruthful DEF Truthful
<1>. QED BY <1>2, <1>3, <1>4

\* The list, told or not.
LEMMA ListFollowsPolicies ==
  ASSUME NotifyInv, policies' \in PolicyTable, DOMAIN policies \subseteq DOMAIN policies'
  PROVE  /\ {ListTold, ListUntold} \subseteq QueryOf(TablesAmong(DOMAIN policies'))
         /\ Truthful(ListTold, policies', ListShown) /\ Truthful(ListUntold, policies', ListShown)
<1>1. policyList \in QueryOf(TablesAmong(DOMAIN policies')) /\ Query(policyList)
  <2>1. TablesAmong(DOMAIN policies) \subseteq TablesAmong(DOMAIN policies')
    BY DEF TablesAmong
  <2>. QED BY <2>1 DEF NotifyInv, NotifyTypes, QueryOf, Truthful
<1>2. policies' \in TablesAmong(DOMAIN policies')
  BY PoliciesAreRowsAfter
<1>3. {ListTold, ListUntold} \subseteq QueryOf(TablesAmong(DOMAIN policies'))
  BY <1>1, <1>2, QueryKinds DEF ListTold, ListUntold
<1>4. Truthful(ListUntold, policies', ListShown)
  BY <1>1, GapIsTruthful DEF ListUntold
<1>5. Truthful(ListTold, policies', ListShown)
  BY <1>1, RefreshedIsTruthful, MissedIsTruthful DEF ListTold, ListShown, Truthful
<1>. QED BY <1>3, <1>4, <1>5

\* A request that is answered refreshes what it changed.
LEMMA NoticeAnsweredKeeps ==
  ASSUME NotifyInv, NEW x \in notices, NoticeAnswered(x)
  PROVE  NotifyInv'
<1>0. /\ notifier \in Notifier /\ notifier.editing \in DOMAIN policies \cup {NoPolicy} /\ x \in NoticeSent
      /\ notices' \subseteq NoticeSent /\ studio' = studio /\ LooksTrue /\ policies \in PolicyTable
      /\ policyLooks \in [Policy -> QueryOf(PolicyRow \cup {Unseen})]
  BY DEF NotifyInv, NotifyTypes, NoticeAnswered, studioVars
<1>1. policies' \in PolicyTable /\ DOMAIN policies \subseteq DOMAIN policies'
  BY <1>0, PoliciesCarried DEF NoticeAnswered
<1>2. /\ {ListTold, ListUntold} \subseteq QueryOf(TablesAmong(DOMAIN policies'))
      /\ Truthful(ListTold, policies', ListShown) /\ Truthful(ListUntold, policies', ListShown)
  BY <1>1, ListFollowsPolicies
<1>3. CASE x.op = "create"
  <2>0. PolicyCreated(x) /\ policyLooks' = policyLooks
    BY <1>3 DEF NoticeAnswered, PolicyCreated
  <2>1. \A q \in DOMAIN policies : policies'[q] = policies[q]
    <3>1. Created(x)
      BY <1>3 DEF NoticeAnswered, Carried
    <3>. QED BY <3>1 DEF Created
  <2>2. /\ notifier' \in Notifier /\ notifier'.editing = notifier.editing
        /\ notifier' = notifier \/ notifier'.view = "list"
    <3>1. CASE x.mine
      <4>1. notifier' = [notifier EXCEPT !.view = "list", !.name = NoName, !.rows = <<"blank">>]
        BY <2>0, <3>1 DEF PolicyCreated
      <4>2. <<"blank">> \in TriggerEntries
        BY BlankNotifierIsTyped
      <4>3. notifier \in Notifier
        BY <1>0
      <4>. QED BY <4>1, <4>2, <4>3 DEF Notifier
    <3>2. CASE ~x.mine
      BY <1>0, <2>0, <3>2 DEF PolicyCreated
    <3>. QED BY <3>1, <3>2
  <2>3. ASSUME NEW p \in Policy
        PROVE  /\ Truthful(policyLooks'[p], policies'[p], Edited(p)')
               /\ policyLooks'[p].asked => p \in DOMAIN policies'
    <3>1. /\ Truthful(policyLooks[p], policies[p], Edited(p)) /\ (policyLooks[p].asked => p \in DOMAIN policies)
          /\ Edited(p)' => Edited(p)
          /\ Edited(p) => p \in DOMAIN policies
      BY <1>0, <2>2, NotificationAssumption DEF LooksTrue, Edited, Here
    <3>2. CASE p \in DOMAIN policies
      BY <1>1, <2>0, <2>1, <3>1, <3>2, HiddenIsTruthful
    <3>3. CASE p \notin DOMAIN policies
      BY <2>0, <3>1, <3>3 DEF Truthful
    <3>. QED BY <3>2, <3>3
  <2>4. policyList' \in QueryOf(TablesAmong(DOMAIN policies')) /\ Truthful(policyList', policies', ListShown')
    <3>1. policies' \in TablesAmong(DOMAIN policies')
      BY <1>1, PoliciesAreRowsAfter
    <3>2. CASE policyList' = Asked(ListTold, policies')
      <4>1. Asked(ListTold, policies') \in QueryOf(TablesAmong(DOMAIN policies'))
        BY <1>2, <3>1, QueryKinds
      <4>. QED BY <1>2, <3>2, <4>1, AskedIsTruthful
    <3>3. CASE policyList' = ListTold /\ (ListShown' => ListShown)
      BY <1>2, <3>3, HiddenIsTruthful
    <3>4. CASE x.mine /\ ~OnPolicies
      BY <2>0, <3>2, <3>4 DEF PolicyCreated
    <3>5. CASE ~(x.mine /\ ~OnPolicies)
      <4>1. policyList' = ListTold /\ (ListShown' => ListShown)
        BY <1>0, <2>0, <3>5 DEF PolicyCreated, ListShown, OnPolicies, Here
      <4>. QED BY <3>3, <4>1
    <3>. QED BY <3>4, <3>5
  <2>5. NotifyTypes'
    BY <1>0, <1>1, <2>0, <2>2, <2>4 DEF NotifyTypes
  <2>. QED BY <2>3, <2>4, <2>5 DEF NotifyInv, LooksTrue
<1>4. CASE x.op # "create"
  <2>1. policyList' \in {ListTold, ListUntold} /\ policyLooks' = LooksTold(x)
    BY <1>4 DEF NoticeAnswered, TriggersChanged, StatusChanged
  <2>2. notifier' \in {notifier, [notifier EXCEPT !.adding = FALSE, !.trigger = "blank"]}
    BY <1>4 DEF NoticeAnswered, TriggersChanged, StatusChanged
  <2>3. notifier' \in Notifier /\ notifier'.editing = notifier.editing /\ notifier'.view = notifier.view
    BY <1>0, <2>2 DEF Notifier, TriggerEntry
  <2>4. (ListShown' <=> ListShown) /\ \A p \in Policy : Edited(p)' <=> Edited(p)
    BY <1>0, <2>3 DEF ListShown, OnPolicies, Edited, Here
  <2>5. ASSUME NEW p \in Policy
        PROVE  /\ policyLooks'[p] \in QueryOf(PolicyRow \cup {Unseen})
               /\ Truthful(policyLooks'[p], policies'[p], Edited(p)')
               /\ policyLooks'[p].asked => p \in DOMAIN policies'
    BY <1>1, <2>1, <2>4, LookTold, HiddenIsTruthful
  <2>6. policyLooks' \in [Policy -> QueryOf(PolicyRow \cup {Unseen})]
    <3>1. \A p \in Policy : policyLooks'[p] \in QueryOf(PolicyRow \cup {Unseen})
      BY <2>5
    <3>2. policyLooks' = [p \in Policy |-> policyLooks'[p]]
      BY <2>1 DEF LooksTold
    <3>. QED BY <3>1, <3>2
  <2>7a. LooksTrue'
    BY <2>5 DEF LooksTrue
  <2>7. NotifyTypes'
    BY <1>0, <1>1, <1>2, <2>1, <2>3, <2>6 DEF NotifyTypes
  <2>8. Truthful(policyList', policies', ListShown')
    BY <1>2, <2>1, <2>4, HiddenIsTruthful
  <2>. QED BY <2>7, <2>7a, <2>8 DEF NotifyInv
<1>. QED BY <1>3, <1>4

\* Nobody tells the studio: an answer is lost, or another user has published.
LEMMA PoliciesUntoldKeep ==
  ASSUME NotifyInv, NEW x \in NoticeSent, Carried(x), policyList' = ListUntold, policyLooks' = LooksUntold,
         notices' \subseteq NoticeSent, UNCHANGED <<notifier, studio>>
  PROVE  NotifyInv'
<1>0. policies \in PolicyTable /\ notifier \in Notifier /\ notifier.editing \in DOMAIN policies \cup {NoPolicy}
  BY DEF NotifyInv, NotifyTypes
<1>1. policies' \in PolicyTable /\ DOMAIN policies \subseteq DOMAIN policies'
  BY <1>0, PoliciesCarried
<1>2. policyList' \in QueryOf(TablesAmong(DOMAIN policies')) /\ Truthful(policyList', policies', ListShown)
  BY <1>1, ListFollowsPolicies
<1>3. (ListShown' <=> ListShown) /\ \A p \in Policy : Edited(p)' <=> Edited(p)
  BY DEF ListShown, OnPolicies, Edited, Here
<1>4. ASSUME NEW p \in Policy
      PROVE  /\ policyLooks'[p] \in QueryOf(PolicyRow \cup {Unseen})
             /\ Truthful(policyLooks'[p], policies'[p], Edited(p)')
             /\ policyLooks'[p].asked => p \in DOMAIN policies'
  BY <1>1, <1>3, LookUntold, HiddenIsTruthful
<1>5. policyLooks' \in [Policy -> QueryOf(PolicyRow \cup {Unseen})]
  <2>1. \A p \in Policy : policyLooks'[p] \in QueryOf(PolicyRow \cup {Unseen})
    BY <1>4
  <2>2. policyLooks' = [p \in Policy |-> policyLooks'[p]]
    BY DEF LooksUntold
  <2>. QED BY <2>1, <2>2
<1>5a. LooksTrue'
  BY <1>4 DEF LooksTrue
<1>6. NotifyTypes'
  BY <1>0, <1>1, <1>2, <1>5 DEF NotifyTypes
<1>7. Truthful(policyList', policies', ListShown')
  BY <1>2, <1>3, HiddenIsTruthful
<1>. QED BY <1>5a, <1>6, <1>7 DEF NotifyInv

\* Every answer keeps what the studio shows true.
LEMMA PolicyAnswersKeep ==
  ASSUME NotifyInv, PolicyAnswers \/ OthersPublish
  PROVE  NotifyInv'
<1>0. /\ notifier \in Notifier /\ notifier.editing \in DOMAIN policies \cup {NoPolicy}
      /\ notices \subseteq NoticeSent /\ policies \in PolicyTable
      /\ policyList \in QueryOf(TablesAmong(DOMAIN policies))
      /\ policyLooks \in [Policy -> QueryOf(PolicyRow \cup {Unseen})]
      /\ Truthful(policyList, policies, ListShown) /\ LooksTrue
  BY DEF NotifyInv, NotifyTypes
<1>1. CASE \E x \in notices : NoticeAnswered(x)
  BY <1>1, NoticeAnsweredKeeps
<1>2. ASSUME NEW x \in notices, NoticeFailed(x) PROVE NotifyInv'
  <2>1. x \in NoticeSent /\ notices' \subseteq NoticeSent /\ UNCHANGED <<notifier, studio>>
    BY <1>0, <1>2 DEF NoticeFailed
  <2>2. CASE UNCHANGED <<policies, policyList, policyLooks>>
    BY <1>0, <2>1, <2>2, NotifierKeeps DEF Here
  <2>3. CASE Carried(x) /\ policyList' = ListUntold /\ policyLooks' = LooksUntold
    BY <2>1, <2>3, PoliciesUntoldKeep
  <2>. QED BY <1>2, <2>2, <2>3 DEF NoticeFailed
<1>3. CASE PoliciesArrive
  <2>1. /\ policyList.asked /\ policyList' \in Answers(policyList, policies)
        /\ UNCHANGED <<notifier, policies, policyLooks, notices, studio>>
    BY <1>3 DEF PoliciesArrive, studioVars
  <2>2. policyList' \in QueryOf(TablesAmong(DOMAIN policies))
    BY <1>0, <2>1, PoliciesAreRows, QueryKinds
  <2>3. NotifyTypes'
    BY <1>0, <2>1, <2>2 DEF NotifyTypes
  <2>4. Truthful(policyList', policies', ListShown')
    BY <1>0, <2>1, AnswersAreTruthful
  <2>5. LooksTrue'
    BY <1>0, <2>1 DEF LooksTrue, Edited, Here
  <2>. QED BY <2>3, <2>4, <2>5 DEF NotifyInv
<1>4. ASSUME NEW p \in Policy, LookArrives(p) PROVE NotifyInv'
  <2>1. PICK a \in Answers(policyLooks[p], policies[p]) : policyLooks' = [policyLooks EXCEPT ![p] = a]
    BY <1>4 DEF LookArrives
  <2>2. policyLooks[p].asked /\ UNCHANGED <<notifier, policies, policyList, notices, studio>>
    BY <1>4 DEF LookArrives, studioVars
  <2>3. p \in DOMAIN policies /\ policies[p] \in PolicyRow \cup {Unseen}
    BY <1>0, <2>2, PoliciesAreRows DEF LooksTrue
  <2>4. a \in QueryOf(PolicyRow \cup {Unseen})
    BY <1>0, <2>3, QueryKinds
  <2>5. NotifyTypes'
    BY <1>0, <2>1, <2>2, <2>4 DEF NotifyTypes
  <2>6. ASSUME NEW q \in Policy
        PROVE  Truthful(policyLooks'[q], policies'[q], Edited(q)') /\ (policyLooks'[q].asked => q \in DOMAIN policies')
    <3>1. Truthful(policyLooks[q], policies[q], Edited(q)) /\ (policyLooks[q].asked => q \in DOMAIN policies)
      BY <1>0 DEF LooksTrue
    <3>2. Edited(q)' <=> Edited(q)
      BY <2>2 DEF Edited, Here
    <3>3. CASE q = p
      BY <1>0, <2>1, <2>2, <2>3, <3>1, <3>3, AnswersAreTruthful
    <3>4. CASE q # p
      BY <1>0, <2>1, <2>2, <3>1, <3>2, <3>4, HiddenIsTruthful
    <3>. QED BY <3>3, <3>4
  <2>7. Truthful(policyList', policies', ListShown')
    BY <1>0, <2>2 DEF ListShown, OnPolicies, Here
  <2>. QED BY <2>5, <2>6, <2>7 DEF NotifyInv, LooksTrue
<1>5. CASE OthersPublish
  <2>1. PICK op \in {"add", "submit", "live"}, p \in DOMAIN policies :
          Carried([NoticeOf(op, p, NoTrigger, <<"complete">>) EXCEPT !.own = FALSE])
    BY <1>5 DEF OthersPublish
  <2>2. NoticeOf(op, p, NoTrigger, <<"complete">>) \in NoticeSent
    BY <1>0, BlankNotifierIsTyped, NoticesAreSent, PoliciesAreRows DEF NoticeOp
  <2>3. [NoticeOf(op, p, NoTrigger, <<"complete">>) EXCEPT !.own = FALSE] \in NoticeSent
    BY <2>2 DEF NoticeSent, Notice
  <2>4. policyList' = ListUntold /\ policyLooks' = LooksUntold /\ UNCHANGED <<notifier, notices, studio>>
    BY <1>5 DEF OthersPublish
  <2>. QED BY <1>0, <2>1, <2>3, <2>4, PoliciesUntoldKeep
<1>. QED BY <1>1, <1>2, <1>3, <1>4, <1>5 DEF PolicyAnswers

\* The studio opens on a list it asks for, and closes on none.
LEMMA NotifierComesAndGoes ==
  ASSUME NotifyInv, EnterNotifications \/ ExitNotifications
  PROVE  NotifyInv'
<1>0. /\ notifier' = BlankNotifier /\ UNCHANGED <<policies, policyLooks>> /\ policies \in PolicyTable
      /\ policyList \in QueryOf(TablesAmong(DOMAIN policies)) /\ Truthful(policyList, policies, ListShown)
  BY DEF EnterNotifications, ExitNotifications, NotifierLost, NotifyInv, NotifyTypes
<1>1. notices' \subseteq NoticeSent
  <2>1. \A x \in NoticeSent : [x EXCEPT !.mine = FALSE] \in NoticeSent
    BY DEF NoticeSent, Notice
  <2>. QED BY <2>1 DEF EnterNotifications, ExitNotifications, NotifierLost, NotifyInv, NotifyTypes
<1>2. CASE EnterNotifications
  <2>1. policyList' = Asked(policyList, policies)
    BY <1>2 DEF EnterNotifications
  <2>2. policyList' \in QueryOf(TablesAmong(DOMAIN policies))
    BY <1>0, <2>1, PoliciesAreRows, QueryKinds
  <2>3. NotifyTypes'
    BY <1>0, <1>1, <2>2, BlankNotifierIsTyped DEF NotifyInv, NotifyTypes
  <2>4. Truthful(policyList', policies', ListShown')
    BY <1>0, <2>1, AskedIsTruthful
  <2>5. \A p \in Policy : ~Edited(p)'
    BY <1>0, BlankNotifierIsTyped, NotificationAssumption DEF Edited
  <2>6. LooksTrue'
    BY <1>0, <2>5, HiddenIsTruthful DEF NotifyInv, LooksTrue
  <2>. QED BY <2>3, <2>4, <2>6 DEF NotifyInv
<1>3. CASE ExitNotifications
  <2>1. ~Here("notifications")' /\ policyList' = policyList
    BY <1>3 DEF ExitNotifications, Exit, Here
  <2>. QED BY <1>0, <1>1, <2>1, BlankNotifierIsTyped, NotifierKeeps
<1>. QED BY <1>2, <1>3

\* No other studio has a word in the policies.
LEMMA PoliciesLeftAlone ==
  ASSUME NotifyInv, UNCHANGED notificationVars, studio'.desk = studio.desk,
         UNCHANGED studio \/ studio.desk # "notifications"
  PROVE  NotifyInv'
<1>1. Here("notifications")' => Here("notifications")
  BY DEF Here
<1>. QED BY <1>1, NotifierKeeps DEF notificationVars, NotifyInv, NotifyTypes

(***************************************************************************)
(* No studio moves another                                                 *)
(***************************************************************************)

\* Every step of any studio keeps the pages of the registry true,
LEMMA TableInvNext == TableInv /\ StudioTypeOK /\ [Next]_vars => TableInv'
<1>. SUFFICES ASSUME TableInv, StudioTypeOK, [Next]_vars PROVE TableInv'
  OBVIOUS
<1>1. studio'.desk = studio.desk
  BY SittingNext
<1>2. CASE Fields
  BY <1>2, TableClicked, TableAnswered, PageArrivesTrue, TableComesAndGoes DEF Fields, FieldNext
<1>3. CASE UNCHANGED fieldVars /\ (UNCHANGED studio \/ studio.desk # "fields")
  BY <1>1, <1>3, FieldsLeftAlone
<1>. QED BY <1>2, <1>3 DEF Next, Insights, Calculations, Queues, Masters, Runtime, Notifications, vars, studioVars

\* the queues,
LEMMA QueueInvNext == QueueInv /\ StudioTypeOK /\ [Next]_vars => QueueInv'
<1>. SUFFICES ASSUME QueueInv, StudioTypeOK, [Next]_vars PROVE QueueInv'
  OBVIOUS
<1>1. studio'.desk = studio.desk
  BY SittingNext
<1>2. CASE Queues
  BY <1>2, QueueClicksKeep, QueueAnswersKeep, CockpitLostKeeps DEF Queues, QueueNext
<1>3. CASE UNCHANGED queueVars /\ (UNCHANGED studio \/ studio.desk # "queues")
  BY <1>1, <1>3, QueuesLeftAlone
<1>. QED BY <1>2, <1>3 DEF Next, Insights, Calculations, Fields, Masters, Runtime, Notifications, vars, studioVars

\* the master records,
LEMMA MasterInvNext == MasterInv /\ StudioTypeOK /\ [Next]_vars => MasterInv'
<1>. SUFFICES ASSUME MasterInv, StudioTypeOK, [Next]_vars PROVE MasterInv'
  OBVIOUS
<1>1. studio'.desk = studio.desk
  BY SittingNext
<1>2. CASE Masters
  BY <1>2, MasterClicksKeep, ListsArriveKeeps, OrdersAnsweredKeep, OrdersFailedKeep, OthersMaintainKeeps, BoardLostKeeps
     DEF Masters, MasterNext, MasterAnswers, EnterExplorer, ExitExplorer
<1>3. CASE UNCHANGED masterVars /\ (UNCHANGED studio \/ studio.desk # "masters")
  BY <1>1, <1>3, MastersLeftAlone
<1>. QED BY <1>2, <1>3 DEF Next, Insights, Calculations, Fields, Queues, Runtime, Notifications, vars, studioVars

\* the shell,
LEMMA RuntimeInvNext == RuntimeInv /\ StudioTypeOK /\ [Next]_vars => RuntimeInv'
<1>. SUFFICES ASSUME RuntimeInv, StudioTypeOK, [Next]_vars PROVE RuntimeInv'
  OBVIOUS
<1>1. studio'.desk = studio.desk
  BY SittingNext
<1>2. CASE Runtime
  BY <1>2, ShellClicksKeep, ShellAnswersKeep, OthersDecideKeeps, RuntimeLostKeeps
     DEF Runtime, ShellNext, EnterRuntime, ExitRuntime
<1>3. CASE UNCHANGED runtimeVars /\ (UNCHANGED studio \/ studio.desk # "runtime")
  BY <1>1, <1>3, RuntimeLeftAlone
<1>. QED BY <1>2, <1>3 DEF Next, Insights, Calculations, Fields, Queues, Masters, Notifications, vars, studioVars

\* and the policies.
LEMMA NotifyInvNext == NotifyInv /\ StudioTypeOK /\ [Next]_vars => NotifyInv'
<1>. SUFFICES ASSUME NotifyInv, StudioTypeOK, [Next]_vars PROVE NotifyInv'
  OBVIOUS
<1>1. studio'.desk = studio.desk
  BY SittingNext
<1>2. CASE Notifications
  BY <1>2, PolicyClicksKeep, PolicyAnswersKeep, NotifierComesAndGoes DEF Notifications, NotificationNext
<1>3. CASE UNCHANGED notificationVars /\ (UNCHANGED studio \/ studio.desk # "notifications")
  BY <1>1, <1>3, PoliciesLeftAlone
<1>. QED BY <1>2, <1>3 DEF Next, Insights, Calculations, Fields, Queues, Masters, Runtime, vars, studioVars

(***************************************************************************)
(* The studios together                                                    *)
(***************************************************************************)
\* The invariants of the studios: each reads the studio that is open and writes what is its own.
StudiosInv ==
  /\ StudioTypeOK /\ InsightInv /\ FactoryTypes /\ CalcInv /\ TableInv /\ QueueInv
  /\ MasterInv /\ RuntimeInv /\ NotifyInv

\* The invariants of the studios hold together.
LEMMA StudiosInvHolds == Safety => []StudiosInv
<1>1. Init => StudiosInv
  BY SittingInit, InsightInvInit, FactoryTypesInit, CalcInvInit, TableInvInit, QueueInvInit, MasterInvInit,
     RuntimeInvInit, NotifyInvInit DEF Init, StudiosInv
<1>2. StudiosInv /\ [Next]_vars => StudiosInv'
  BY SittingNext, InsightInvNext, FactoryTypesNext, CalcInvNext, TableInvNext, QueueInvNext, MasterInvNext,
     RuntimeInvNext, NotifyInvNext DEF StudiosInv
<1>. QED BY <1>1, <1>2, PTL DEF Safety

\* Every variable of the studios keeps its type.
THEOREM StudiosTyped == Safety => []TypeOK
<1>1. StudiosInv => TypeOK
  BY FactoryTypesSuffice, CalcInvSuffices, TableTypesSuffice, QueueTypesSuffice, MasterTypesSuffice, RuntimeTypesSuffice,
     NotifyTypesSuffice
     DEF StudiosInv, TypeOK, TableInv, QueueInv, MasterInv, RuntimeInv, NotifyInv
<1>. QED BY <1>1, StudiosInvHolds, PTL

\* The engine runs every program, and would run every form, in the order it is shown.
THEOREM StepsInOrder == Safety => []StepsRunAsShown
<1>1. StudiosInv => StepsRunAsShown
  BY CalcInvSuffices DEF StudiosInv
<1>. QED BY <1>1, StudiosInvHolds, PTL

\* Bank names and settings stay with the field or the item they were drawn up for.
THEOREM DraftsStayHome == Safety => []ThingsAreOwn
<1>1. StudiosInv => ThingsAreOwn
  BY TableTypesSuffice, QueueTypesSuffice DEF StudiosInv, ThingsAreOwn, TableInv, QueueInv
<1>. QED BY <1>1, StudiosInvHolds, PTL

\* What a studio shows is what the server has, unless nobody told it.
THEOREM ShownOnlyTruth == Safety => []ShownIsTrue
<1>. SUFFICES StudiosInv => ShownIsTrue
  BY StudiosInvHolds, PTL
<1>. SUFFICES ASSUME StudiosInv PROVE ShownIsTrue
  OBVIOUS
<1>1. FreshPagesAreTrue
  BY DEF StudiosInv, TableInv, TableTypes, TrueEntry, PageShown, FreshPagesAreTrue
<1>2. ShownRulesAreTrue
  <2>1. cockpit.rulesOf \in Item \cup {NoItem}
    BY DEF StudiosInv, QueueInv, QueueTypes, SoundCockpit, Cockpit
  <2>. QED BY <2>1 DEF StudiosInv, QueueInv, RulesShown, Truthful, ShownRulesAreTrue
<1>3. ShownRecordsAreTrue
  <2>1. OnBoard(board.selected) => board.selected \in Master
    BY DEF StudiosInv, MasterInv, MasterTypes, OnBoard
  <2>. QED BY <2>1 DEF StudiosInv, MasterInv, MasterTypes, Truthful, ShownRecordsAreTrue
<1>4. ShownQueueIsTrue
  BY DEF StudiosInv, RuntimeInv, Truthful, ShownQueueIsTrue
<1>5. ShownPoliciesAreTrue
  BY DEF StudiosInv, NotifyInv, LooksTrue, Truthful, ShownPoliciesAreTrue, ListShown
<1>. QED BY <1>1, <1>2, <1>3, <1>4, <1>5 DEF ShownIsTrue

\* However fields, filters and page sizes change under the table, and whichever page
\* the user is on by then: the numbers offered are pages there are, none of them twice.
THEOREM PagesOffered == Safety => []OfferedPagesExist
<1>1. StudiosInv => OfferedPagesExist
  BY TableTypesSuffice, PagesAreOffered DEF StudiosInv, TableInv
<1>. QED BY <1>1, StudiosInvHolds, PTL
=============================================================================
