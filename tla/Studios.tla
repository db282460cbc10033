------------------------------- MODULE Studios -------------------------------
(***************************************************************************)
(* The studios together, in App: one is on the screen at a time, and the   *)
(* requests of the others go on.  A sitting is in one studio, so that the  *)
(* bounds of one do not multiply with those of another.                    *)
(***************************************************************************)
EXTENDS InsightsFactory, CalculationStudio, FieldRegistry, QueueInfrastructure, MasterRecords,
        RuntimeShell, NotificationEngine

vars == <<studioVars, insightVars, calcVars, fieldVars, queueVars, masterVars, runtimeVars,
          notificationVars>>

TypeOK ==
  /\ StudioTypeOK /\ InsightTypeOK /\ CalcTypeOK /\ FieldTypeOK /\ QueueTypeOK
  /\ MasterTypeOK /\ ShellTypeOK /\ NotificationTypeOK

\* Transactions and policies are there before the sitting; they matter to a sitting in
\* the runtime or with the notifications.
Init ==
  /\ StudioInit /\ InsightInit /\ CalcInit /\ FieldInit /\ QueueInit /\ MasterInit /\ ShellInit
  /\ NotificationInit
  /\ studio.desk = "runtime" \/ rows = [i \in Inst |-> Unread]
  /\ studio.desk = "notifications" \/ policies = Established

Insights ==
  /\ studio.desk = "insights" /\ InsightNext
  /\ UNCHANGED <<calcVars, fieldVars, queueVars, masterVars, runtimeVars, notificationVars>>
Calculations ==
  /\ studio.desk = "calculations" /\ CalcNext
  /\ UNCHANGED <<insightVars, fieldVars, queueVars, masterVars, runtimeVars, notificationVars>>
Fields ==
  /\ studio.desk = "fields" /\ FieldNext
  /\ UNCHANGED <<insightVars, calcVars, queueVars, masterVars, runtimeVars, notificationVars>>
Queues ==
  /\ studio.desk = "queues" /\ QueueNext
  /\ UNCHANGED <<insightVars, calcVars, fieldVars, masterVars, runtimeVars, notificationVars>>
Masters ==
  /\ studio.desk = "masters" /\ MasterNext
  /\ UNCHANGED <<insightVars, calcVars, fieldVars, queueVars, runtimeVars, notificationVars>>
Runtime ==
  /\ studio.desk = "runtime" /\ ShellNext
  /\ UNCHANGED <<insightVars, calcVars, fieldVars, queueVars, masterVars, notificationVars>>
Notifications ==
  /\ studio.desk = "notifications" /\ NotificationNext
  /\ UNCHANGED <<insightVars, calcVars, fieldVars, queueVars, masterVars, runtimeVars>>

Next == Insights \/ Calculations \/ Fields \/ Queues \/ Masters \/ Runtime \/ Notifications

\* What has been asked for is answered: by the server, by an error, or by the browser
\* that gives the request up.
Answered ==
  /\ WF_<<insightVars, studioVars>>(InsightsArrive)
  /\ \A d \in DeploySlot : WF_<<insightVars, studioVars>>(DeployStep(d))
  /\ WF_<<calcVars, studioVars>>(ProgramsArrive) /\ WF_<<calcVars, studioVars>>(TestAnswered)
  /\ WF_<<calcVars, studioVars>>(ProgramSaved \/ ProgramNotSaved)

Safety == Init /\ [][Next]_vars
Spec == Safety /\ Answered

(***************************************************************************)
(* Properties                                                              *)
(***************************************************************************)
\* No item gets what was drawn up for another: bank names of fields, settings of
\* connections and queues, whichever drawer or form a late answer closes.  (The
\* translations of a new field are not among them: see TranslationsAreOwn.)
ThingsAreOwn == NamesAreOwn /\ SettingsAreOwn

\* What a studio shows, when it is not asking for it, is what the server has, unless
\* nobody told it: pages of fields, rules of a queue, records of a master, the queue
\* of transactions, notification policies.
ShownIsTrue ==
  /\ FreshPagesAreTrue /\ ShownRulesAreTrue /\ ShownRecordsAreTrue /\ ShownQueueIsTrue
  /\ ShownPoliciesAreTrue

\* Deployments, try-outs and saved programs come to an end that the user sees.
StudiosSettle == DeploysEnd /\ EngineSettles
=============================================================================
