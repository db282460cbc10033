\* TLC stops at the first; leave out an invariant to see the other violated.
SPECIFICATION Safety
CONSTANTS
  insight = insight
  insightCode = insightCode
  sanctionRule = sanctionRule
  ruleToken = ruleToken
  calcToken = calcToken
  baseProgram = baseProgram
  bankProgram = bankProgram
  newProgram = newProgram
  baseCode = baseCode
  bankCode = bankCode
  newCode = newCode
  wire = wire
  swift = swift
  inbox = inbox
  copies = copies
  newItem = newItem
  firstRule = firstRule
  secondRule = secondRule
  branches = branches
  holidays = holidays
  oldBranch = oldBranch
  oldHoliday = oldHoliday
  newRecord = newRecord
  oldRun = oldRun
  otherRun = otherRun
  newRun = newRun
  payments = payments
  cards = cards
  treasury = treasury
  alerts = alerts
  running = running
  newPolicy = newPolicy
  risk = risk
  t1 = t1
  t2 = t2
  t3 = t3
  Desk = {"insights", "calculations", "fields", "queues", "masters", "runtime", "notifications"}
  Sittings <- Deciding
  InsightName = {insight}
  InsightCode = {insightCode}
  CodeOf <- CodeOfInsight
  RuleName = {sanctionRule}
  Token = {ruleToken, calcToken}
  TokenOf <- TokenOfRule
  KnownCalcs = {calcToken}
  Nameless = Nameless
  MaxSteps = 2
  Program = {baseProgram, bankProgram, newProgram}
  NoProgram = NoProgram
  ProgramCode = {baseCode, bankCode, newCode}
  NoCode = NoCode
  Seeded <- SeededPrograms
  HeaderProduct = TRUE
  MaxForm = 3
  Field = {1, 2, 3}
  Registered = {1, 2}
  Renamed = {2}
  NoField = NoField
  Matching = {1, 3}
  PageSizes = {1, 2}
  FirstSize = 2
  WindowMax = 2
  Item = {wire, swift, inbox, copies, newItem}
  NoItem = NoItem
  Unset = Unset
  Rule = {firstRule, secondRule}
  NoRule = NoRule
  Furnished <- FurnishedItems
  Placed <- PlacedRules
  Master = {branches, holidays}
  NoMaster = NoMaster
  Record = {oldBranch, oldHoliday, newRecord}
  NoRecord = NoRecord
  Provided <- ProvidedRecords
  Inst = {oldRun, otherRun, newRun}
  NNodes = 2
  Gate = {1, 2}
  Skippable = {}
  Irreversible = {}
  Workflow = {payments, cards}
  NoFlow = NoFlow
  NoInst = NoInst
  FlowOf <- FlowOfRun
  Screened = {1}
  Complete = {otherRun}
  Domain = {treasury}
  NoDomain = NoDomain
  Policy = {alerts, running, newPolicy}
  NoPolicy = NoPolicy
  PolicyName = {risk}
  NoName = NoName
  Trigger = {t1, t2, t3}
  NoTrigger = NoTrigger
  Established <- EstablishedPolicies
  MaxRows = 2
INVARIANTS
  RejectNeverRunsOn
  TriggersAreInOrder
CHECK_DEADLOCK FALSE
