--------------------------- MODULE InsightsFactory ---------------------------
(***************************************************************************)
(* The Insights Factory (InsightsFactoryStudio.tsx): a wizard of four      *)
(* steps whose one request is several: every rule or calculation that was  *)
(* drawn up inside the wizard is posted first, then the insight.  Nothing  *)
(* takes back the first ones when a later one fails.                       *)
(* Trigger, fields, roles and channels of an insight are left out.         *)
(***************************************************************************)
EXTENDS Studio

CONSTANTS
  InsightName, InsightCode,  \* names typed, and the codes made of them
  CodeOf,                    \* INSIGHT- and the first letters of the name
  RuleName, Token,           \* names of rules drawn up in the wizard, and tokens
  TokenOf,                   \* BRE-INS- and the first letters of the name
  KnownCalcs,                \* tokens of stored calculations
  Nameless,                  \* the empty name, code and token
  MaxSteps                   \* bound: analysis steps of a draft

ASSUME InsightAssumption ==
  /\ CodeOf \in [InsightName -> InsightCode] /\ TokenOf \in [RuleName -> Token]
  /\ KnownCalcs \subseteq Token /\ MaxSteps \in Nat
  /\ Nameless \notin InsightName \cup InsightCode \cup RuleName \cup Token

VARIABLES
  wizard,     \* the state of the component
  deploys,    \* the last deployments, one for each mounting of the studio
  insights,   \* the stored insights and the tokens of their steps
  ruleSets,   \* the tokens of the stored rule sets
  insightList \* the query ['insights']

insightVars == <<wizard, deploys, insights, ruleSets, insightList>>

\* The two inline builders and the two references.
StepKind == {"RULE", "CALC", "REF_RULE", "REF_CALC"}
AnalysisStep == [kind : StepKind, name : RuleName \cup {Nameless}, token : Token \cup {Nameless}]
OutputMode == {"DASHBOARD_WIDGET", "NOTIFICATION", "SCREEN_PANEL"}

Wizard == [creating : BOOLEAN, selected : InsightCode \cup {Nameless}, step : 1 .. 4,
           name : InsightName \cup {Nameless}, code : InsightCode \cup {Nameless}, mode : OutputMode,
           steps : Seq(AnalysisStep)]
BlankWizard == [creating |-> FALSE, selected |-> Nameless, step |-> 1, name |-> Nameless,
                code |-> Nameless, mode |-> "DASHBOARD_WIDGET", steps |-> <<>>]

\* A deployment keeps the draft of the click.  todo: steps not saved yet; mine:
\* the mounting that sent it is still there.
Deployment == [st : {"none", "sent", "done", "failed", "unread"}, mine : BOOLEAN,
               code : InsightCode \cup {Nameless}, mode : OutputMode,
               steps : Seq(AnalysisStep), todo : 0 .. MaxSteps]
NoDeployment == [st |-> "none", mine |-> FALSE, code |-> Nameless, mode |-> "DASHBOARD_WIDGET",
                 steps |-> <<>>, todo |-> 0]
\* Two of them: of this mounting and of the one before.
DeploySlot == {1, 2}

InsightTypeOK ==
  /\ wizard \in Wizard /\ Len(wizard.steps) <= MaxSteps
  /\ deploys \in [DeploySlot -> Deployment]
  /\ insights \in SUBSET [code : InsightCode, tokens : SUBSET (Token \cup {Nameless})]
  /\ ruleSets \subseteq Token
  /\ insightList.data \cup insightList.old \subseteq InsightCode /\ insightList.asked \in BOOLEAN

InsightInit ==
  /\ wizard = BlankWizard /\ deploys = [d \in DeploySlot |-> NoDeployment]
  /\ insights = {} /\ ruleSets = {} /\ insightList = Unasked({})

StoredCodes == {i.code : i \in insights}

(***************************************************************************)
(* The list on the left                                                    *)
(***************************************************************************)
InFactory == At("insights", {})
Rewrite(w) == wizard' = w /\ UNCHANGED <<deploys, insights, ruleSets, insightList>>

\* New Insight, Build from Scratch, the cross, Cancel: resetForm.
NewInsight == InFactory /\ Rewrite([BlankWizard EXCEPT !.creating = TRUE])
CancelWizard == InFactory /\ wizard.creating /\ Rewrite(BlankWizard)

\* The draft stays behind the insight shown.
SelectInsight(c) ==
  /\ InFactory /\ c \in insightList.data
  /\ Rewrite([wizard EXCEPT !.selected = c, !.creating = FALSE])

\* Edit Insight opens the wizard, with the draft that is there.
EditInsight ==
  /\ InFactory /\ ~wizard.creating /\ wizard.selected # Nameless
  /\ Rewrite([wizard EXCEPT !.creating = TRUE, !.selected = Nameless])

\* A pre-built template gives name, code and output; the steps of the draft stay.
PREBUILT_TEMPLATES == [name : InsightName, outputMode : OutputMode]
ApplyTemplate(tpl) ==
  /\ InFactory
  /\ Rewrite([wizard EXCEPT !.name = tpl.name, !.code = CodeOf[tpl.name], !.mode = tpl.outputMode,
                           !.creating = TRUE, !.step = 1])

(***************************************************************************)
(* The wizard                                                              *)
(***************************************************************************)
OnStep(n) == InFactory /\ wizard.creating /\ wizard.step = n

\* Step 1: the code follows the name.
NameInsight(n) == OnStep(1) /\ Rewrite([wizard EXCEPT !.name = n, !.code = CodeOf[n]])

\* Step 3: steps of the analysis.
AddAnalysisStep(k) ==
  /\ OnStep(3) /\ Len(wizard.steps) < MaxSteps
  /\ Rewrite([wizard EXCEPT !.steps = Append(@, [kind |-> k, name |-> Nameless, token |-> Nameless])])

RemoveAnalysisStep(i) ==
  /\ OnStep(3) /\ i \in DOMAIN wizard.steps
  /\ Rewrite([wizard EXCEPT !.steps = SubSeq(@, 1, i - 1) \o SubSeq(@, i + 1, Len(@))])

\* The inline builder of a rule makes the token of the name typed.
BuildRule(i, n) ==
  /\ OnStep(3) /\ i \in DOMAIN wizard.steps /\ wizard.steps[i].kind = "RULE"
  /\ Rewrite([wizard EXCEPT !.steps[i].name = n, !.steps[i].token = TokenOf[n]])
BuildCalculation(i, n) ==
  /\ OnStep(3) /\ i \in DOMAIN wizard.steps /\ wizard.steps[i].kind = "CALC"
  /\ Rewrite([wizard EXCEPT !.steps[i].name = n, !.steps[i].token = TokenOf[n]])

\* A step refers to a rule or a calculation that is stored.
ReferTo(i, t) ==
  /\ OnStep(3) /\ i \in DOMAIN wizard.steps
  /\ \/ wizard.steps[i].kind = "REF_RULE" /\ t \in ruleSets
     \/ wizard.steps[i].kind = "REF_CALC" /\ t \in KnownCalcs
  /\ Rewrite([wizard EXCEPT !.steps[i].token = t])

\* Step 4: where the insight is shown.
ChooseOutput(m) == OnStep(4) /\ m # wizard.mode /\ Rewrite([wizard EXCEPT !.mode = m])

CanProceed ==
  /\ wizard.step = 1 => wizard.name # Nameless
  /\ wizard.step = 3 => wizard.steps # <<>>
NextStep ==
  /\ InFactory /\ wizard.creating /\ wizard.step < 4 /\ CanProceed
  /\ Rewrite([wizard EXCEPT !.step = @ + 1])

\* Faulty variant: on the first step the button goes back, too.
PreviousStepBelow == InFactory /\ wizard.creating /\ Rewrite([wizard EXCEPT !.step = @ - 1])

PreviousStep ==
  InFactory /\ wizard.creating /\ wizard.step > 1 /\ Rewrite([wizard EXCEPT !.step = @ - 1])

(***************************************************************************)
(* Deploying                                                               *)
(***************************************************************************)
InFlight(d) == deploys[d].st = "sent"
Deploying == \E d \in DeploySlot : InFlight(d) /\ deploys[d].mine

DeployInsight ==
  /\ At("insights", {"sends"}) /\ wizard.creating /\ wizard.step = 4
  /\ ~Deploying /\ wizard.name # Nameless
  /\ LET d == IF InFlight(1) THEN 2 ELSE 1
     IN ~InFlight(d) /\ deploys' = [deploys EXCEPT ![d] =
          [st |-> "sent", mine |-> TRUE, code |-> wizard.code, mode |-> wizard.mode,
           steps |-> wizard.steps, todo |-> Len(wizard.steps)]]
  /\ UNCHANGED <<wizard, insights, ruleSets, insightList>>

ToSave(d) == deploys[d].steps[Len(deploys[d].steps) - deploys[d].todo + 1]
IsInline(s) == s.kind \in {"RULE", "CALC"} /\ s.name # Nameless
\* The loop of mutationFn is at a step it saves, or past them all.
Saving(d) == InFlight(d) /\ deploys[d].todo > 0 /\ IsInline(ToSave(d))
Posting(d) == InFlight(d) /\ deploys[d].todo = 0

SkipStep(d) ==
  /\ InFlight(d) /\ deploys[d].todo > 0 /\ ~IsInline(ToSave(d))
  /\ deploys' = [deploys EXCEPT ![d].todo = @ - 1]
  /\ UNCHANGED <<wizard, insights, ruleSets, insightList, studioVars>>

Outcome(d, st) == deploys' = [deploys EXCEPT ![d].st = st]

\* onError: a toast; the wizard keeps the draft.
Refused(d) == Outcome(d, "failed") /\ UNCHANGED <<wizard, insightList, studio>>

\* A body the schema does not accept: the detail of the answer is a list, which
\* the toast cannot render, and the error takes the studio with it.
NotReadable(d) ==
  /\ Outcome(d, "unread") /\ UNCHANGED insightList
  /\ IF deploys[d].mine THEN Crash("insights") /\ wizard' = BlankWizard
                        ELSE UNCHANGED <<wizard, studio>>

\* Faulty variant: the loop goes on after a rule that could not be saved.
RuleRefusedAndSkipped(d) == deploys' = [deploys EXCEPT ![d].todo = @ - 1] /\ UNCHANGED <<wizard, insightList, studio>>

RuleRefused(d) == Refused(d)

\* POST /rules/: a token is stored once.
RuleSaved(d) ==
  /\ Saving(d) /\ ToSave(d).kind = "RULE" /\ ToSave(d).token \notin ruleSets
  /\ ruleSets' = ruleSets \cup {ToSave(d).token}
  /\ deploys' = [deploys EXCEPT ![d].todo = @ - 1]
  /\ UNCHANGED <<wizard, insights, insightList, studioVars>>
RuleNotSaved(d) ==
  /\ Saving(d) /\ ToSave(d).kind = "RULE" /\ RuleRefused(d)
  /\ \/ ToSave(d).token \in ruleSets /\ UNCHANGED <<ruleSets, left>>
     \/ Use({"breaks"}) /\ ruleSets' \in {ruleSets, ruleSets \cup {ToSave(d).token}}
  /\ UNCHANGED insights

\* POST /calculations/ asks for fields the studio does not send.
CalculationUnread(d) ==
  /\ Saving(d) /\ ToSave(d).kind = "CALC" /\ NotReadable(d)
  /\ UNCHANGED <<insights, ruleSets, left>>

\* POST /insights/: dashboard_category is null unless the output is a widget.
InsightUnread(d) ==
  /\ Posting(d) /\ deploys[d].mode # "DASHBOARD_WIDGET" /\ NotReadable(d)
  /\ UNCHANGED <<insights, ruleSets, left>>
InsightOf(d) ==
  [code |-> deploys[d].code, tokens |-> {deploys[d].steps[i].token : i \in DOMAIN deploys[d].steps}]
CodeTaken(d) == deploys[d].code \in StoredCodes

\* onSuccess: the list is asked for again, and resetForm wipes whatever the
\* wizard of that mounting holds by now.
InsightStored(d) ==
  /\ Posting(d) /\ deploys[d].mode = "DASHBOARD_WIDGET" /\ ~CodeTaken(d)
  /\ insights' = insights \cup {InsightOf(d)}
  /\ Outcome(d, "done")
  /\ insightList' = IF Here("insights") THEN Refreshed(insightList, StoredCodes')
                    ELSE Missed(insightList)
  /\ wizard' = IF deploys[d].mine THEN BlankWizard ELSE wizard
  /\ UNCHANGED <<ruleSets, studioVars>>
InsightNotStored(d) ==
  /\ Posting(d) /\ Refused(d)
  /\ \/ CodeTaken(d) /\ UNCHANGED <<insights, left>>
     \/ /\ deploys[d].mode = "DASHBOARD_WIDGET" /\ ~CodeTaken(d) /\ Use({"breaks"})
        /\ insights' \in {insights, insights \cup {InsightOf(d)}}
  /\ UNCHANGED ruleSets

(***************************************************************************)
(* The query, coming and going                                             *)
(***************************************************************************)
\* Faulty variant: the answer is not taken over.
InsightsArriveStale ==
  /\ insightList.asked /\ insightList' = Unasked(insightList.data)
  /\ UNCHANGED <<wizard, deploys, insights, ruleSets, studioVars>>

InsightsArrive ==
  /\ insightList.asked /\ insightList' \in Answers(insightList, StoredCodes)
  /\ UNCHANGED <<wizard, deploys, insights, ruleSets, studioVars>>

\* The state of the studio is gone; its loop runs on.
FactoryLost ==
  /\ wizard' = BlankWizard
  /\ deploys' = [d \in DeploySlot |-> [deploys[d] EXCEPT !.mine = FALSE]]
  /\ UNCHANGED <<insights, ruleSets>>
EnterFactory ==
  /\ Enter("insights") \/ RetryStudio("insights")
  /\ FactoryLost /\ insightList' = Asked(insightList, StoredCodes)
ExitFactory == Exit("insights") /\ FactoryLost /\ UNCHANGED insightList

FactoryClicks ==
  \/ NewInsight \/ CancelWizard \/ EditInsight \/ NextStep \/ PreviousStep \/ DeployInsight
  \/ \E c \in InsightCode : SelectInsight(c)
  \/ \E n \in InsightName : NameInsight(n)
  \/ \E tpl \in PREBUILT_TEMPLATES : ApplyTemplate(tpl)
  \/ \E m \in OutputMode : ChooseOutput(m)
  \/ \E k \in StepKind : AddAnalysisStep(k)
  \/ \E i \in 1 .. MaxSteps :
       \/ RemoveAnalysisStep(i) \/ \E t \in Token : ReferTo(i, t)
       \/ \E n \in RuleName : BuildRule(i, n) \/ BuildCalculation(i, n)

DeployStep(d) ==
  \/ SkipStep(d) \/ RuleSaved(d) \/ RuleNotSaved(d) \/ CalculationUnread(d)
  \/ InsightUnread(d) \/ InsightStored(d) \/ InsightNotStored(d)

InsightNext ==
  \/ FactoryClicks \/ EnterFactory \/ ExitFactory \/ InsightsArrive
  \/ \E d \in DeploySlot : DeployStep(d)

(***************************************************************************)
(* Properties                                                              *)
(***************************************************************************)
\* "tokens that are saved to their respective engines AND bound to this insight":
\* whatever fails on the way, every token a stored insight names is stored too.
BoundTokensExist ==
  \A i \in insights : i.tokens \ {Nameless} \subseteq ruleSets \cup KnownCalcs

\* A deployment ends, and an insight that was stored comes into the list that is
\* on the screen.
DeploysEnd ==
  \A d \in DeploySlot :
    InFlight(d) ~> \/ deploys[d].st \in {"failed", "unread"} \/ ~Here("insights")
                   \/ deploys[d].code \in insightList.data

\* "THREE OUTPUT MODES", "Inline-created items are automatically saved": whatever
\* the wizard lets the user draw up is a request the server can read.
DraftsAreRead == \A d \in DeploySlot : deploys[d].st # "unread"
=============================================================================
