------------------------------ MODULE MCStudios ------------------------------
(* The studios on small instances: the sittings of each run are of the desks *)
(* its questions are about.                                                   *)
EXTENDS Studios, TLC

CONSTANTS
  insight, insightCode, sanctionRule, ruleToken, calcToken,
  baseProgram, bankProgram, newProgram, baseCode, bankCode, newCode,
  wire, swift, inbox, copies, newItem, firstRule, secondRule,
  branches, holidays, oldBranch, oldHoliday, newRecord,
  oldRun, otherRun, newRun, payments, cards, treasury,
  alerts, running, newPolicy, risk, t1, t2, t3

CodeOfInsight == insight :> insightCode
TokenOfRule == sanctionRule :> ruleToken

SeededPrograms ==
  (baseProgram :> [code |-> baseCode, template |-> TRUE, locked |-> TRUE, steps |-> <<1, 2>>])
    @@ (bankProgram :> [code |-> bankCode, template |-> FALSE, locked |-> FALSE, steps |-> <<1, 3>>])

FurnishedItems ==
  [i \in {wire, swift, inbox, copies} |->
     [kind |-> IF i \in {wire, swift} THEN "connection" ELSE "queue", of |-> i,
      master |-> i = inbox, parent |-> IF i = copies THEN inbox ELSE NoItem]]

PlacedRules == firstRule :> inbox

ProvidedRecords == (oldBranch :> branches) @@ (oldHoliday :> holidays)
FlowOfRun == (oldRun :> payments) @@ (otherRun :> cards) @@ (newRun :> payments)

\* Both of another user; the first is under way to replace the second.
EstablishedPolicies ==
  (alerts :> [name |-> risk, status |-> "PENDING_APPROVAL", own |-> FALSE, at |-> (t1 :> 0) @@ (t2 :> 1)])
    @@ (running :> [name |-> risk, status |-> "LIVE", own |-> FALSE, at |-> <<>>])

\* Bounds of one sitting at desk d.
Of(d, f) == [desk |-> d, left |-> [w \in Bounded |-> IF w \in DOMAIN f THEN f[w] ELSE 0]]

\* Things are drawn up: one long visit, and two visits with requests in flight.
Authoring == {
  Of("insights", [visits |-> 1, clicks |-> 10, sends |-> 2, breaks |-> 1]),
  Of("insights", [visits |-> 2, clicks |-> 8, sends |-> 2]),
  Of("calculations", [visits |-> 1, clicks |-> 7, sends |-> 1, breaks |-> 1]),
  Of("calculations", [visits |-> 2, clicks |-> 5, sends |-> 2])}

\* Lists are kept: with requests that break, and with other users at the same lists.
Records == {
  Of("insights", [visits |-> 1, clicks |-> 7, sends |-> 1]),
  Of("calculations", [visits |-> 1, clicks |-> 4, sends |-> 1]),
  Of("fields", [visits |-> 1, clicks |-> 4, sends |-> 1]),
  Of("fields", [visits |-> 1, clicks |-> 3, sends |-> 2, breaks |-> 1]),
  Of("fields", [visits |-> 2, clicks |-> 2, sends |-> 1, others |-> 1]),
  Of("queues", [visits |-> 1, clicks |-> 6, sends |-> 2]),
  Of("queues", [visits |-> 2, clicks |-> 4, sends |-> 2, breaks |-> 1]),
  Of("masters", [visits |-> 1, clicks |-> 4, sends |-> 2]),
  Of("masters", [visits |-> 2, clicks |-> 3, sends |-> 1, breaks |-> 1]),
  Of("masters", [visits |-> 2, clicks |-> 2, sends |-> 1, others |-> 1]),
  Of("runtime", [visits |-> 1, clicks |-> 5, sends |-> 1]),
  Of("runtime", [visits |-> 1, clicks |-> 4, sends |-> 1, breaks |-> 1]),
  Of("runtime", [visits |-> 1, clicks |-> 4, sends |-> 2]),
  Of("runtime", [visits |-> 2, clicks |-> 2, sends |-> 1, others |-> 1]),
  Of("notifications", [visits |-> 1, clicks |-> 7, sends |-> 2]),
  Of("notifications", [visits |-> 2, clicks |-> 5, sends |-> 2, breaks |-> 1]),
  Of("notifications", [visits |-> 1, clicks |-> 5, sends |-> 2, others |-> 1])}

\* What the code does not keep: a rejection in the package runtime, the order of triggers.
Deciding == {
  Of("runtime", [visits |-> 1, clicks |-> 4, sends |-> 1]),
  Of("notifications", [visits |-> 1, clicks |-> 5, sends |-> 2])}
=============================================================================
