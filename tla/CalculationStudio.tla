-------------------------- MODULE CalculationStudio --------------------------
(***************************************************************************)
(* The calculation engine's studio (CalculationEngineStudio.tsx): programs *)
(* of numbered steps, drawn up in a form, saved, taken from the registry   *)
(* of templates, and tried out.  The engine runs the steps by their        *)
(* numbers, whatever order the form shows them in.                         *)
(* Of a step its number is kept and whether it has a name and an           *)
(* expression; inputs, tier, description, search and domain are left out.  *)
(***************************************************************************)
EXTENDS Studio

CONSTANTS
  Program, NoProgram,   \* names of programs, stored or free
  ProgramCode, NoCode,
  Seeded,               \* the programs stored at the start
  HeaderProduct,        \* a product is chosen in the banner
  MaxForm               \* bound: steps of a form

\* A stored program: the numbers of its steps, in the order they are shown.
StoredProgram == [code : ProgramCode, template : BOOLEAN, locked : BOOLEAN, steps : Seq(Nat)]
Increasing(s) == \A i, j \in DOMAIN s : i < j => s[i] < s[j]

ASSUME CalcAssumption ==
  /\ NoProgram \notin Program /\ NoCode \notin ProgramCode
  /\ DOMAIN Seeded \subseteq Program /\ Seeded \in [DOMAIN Seeded -> StoredProgram]
  /\ \A p \in DOMAIN Seeded : Increasing(Seeded[p].steps) /\ Len(Seeded[p].steps) <= MaxForm
  /\ HeaderProduct \in BOOLEAN /\ MaxForm \in Nat \ {0}

VARIABLES
  editor,       \* the state of the component
  programs,     \* the stored programs
  programList,  \* the query ['calc-programs', ...]
  saving, testing,  \* the last request of each kind
  cloning       \* the clones on their way: the buttons are never disabled

calcVars == <<editor, programs, programList, saving, cloning, testing>>

FormStep == [seq : Nat, var_name : BOOLEAN, expression : BOOLEAN]
Filled(x) == x.var_name /\ x.expression

\* selected: the copy of a program that is shown; result: the program whose
\* test result is shown.
Editor == [selected : Program \cup {NoProgram}, creating : BOOLEAN, editing : BOOLEAN,
           named : BOOLEAN, code : ProgramCode \cup {NoCode}, product : BOOLEAN,
           steps : Seq(FormStep), result : Program \cup {NoProgram}]
makeStep(n) == [seq |-> n, var_name |-> FALSE, expression |-> FALSE]
EmptyForm(e) ==
  [e EXCEPT !.named = FALSE, !.code = NoCode, !.product = FALSE, !.steps = <<makeStep(1)>>,
            !.result = NoProgram]
BlankEditor ==
  [selected |-> NoProgram, creating |-> FALSE, editing |-> FALSE, named |-> FALSE, code |-> NoCode,
   product |-> FALSE, steps |-> <<makeStep(1)>>, result |-> NoProgram]

\* A request: mine while the mounting that sent it is there.
Request == [st : {"none", "sent", "done", "failed"}, mine : BOOLEAN, about : Program \cup {NoProgram},
            code : ProgramCode \cup {NoCode}, steps : Seq(Nat), edit : BOOLEAN]
NoRequest == [st |-> "none", mine |-> FALSE, about |-> NoProgram, code |-> NoCode,
              steps |-> <<>>, edit |-> FALSE]
\* A clone on its way; sent, what was left of the sends, tells them apart.
CloneRequest == [about : Program, mine : BOOLEAN, sent : Nat]

CalcTypeOK ==
  /\ editor \in Editor /\ Len(editor.steps) <= MaxForm
  /\ DOMAIN programs \subseteq Program /\ programs \in [DOMAIN programs -> StoredProgram]
  /\ programList.data \cup programList.old \subseteq DOMAIN programs /\ programList.asked \in BOOLEAN
  /\ {saving, testing} \subseteq Request /\ cloning \subseteq CloneRequest

CalcInit ==
  /\ editor = BlankEditor /\ programs = Seeded /\ programList = Unasked({})
  /\ saving = NoRequest /\ cloning = {} /\ testing = NoRequest

(***************************************************************************)
(* The lists and the form                                                  *)
(***************************************************************************)
InEngine == At("calculations", {})
Show(e) == editor' = e /\ UNCHANGED <<programs, programList, saving, cloning, testing>>
FormShown(e) == e.creating \/ e.editing

\* The picker takes the product of the banner when it mounts with the form.
PickerMounts(e, was) ==
  IF FormShown(e) /\ ~FormShown(was) /\ ~e.product THEN [e EXCEPT !.product = HeaderProduct] ELSE e

openProgram(p) ==
  [editor EXCEPT !.selected = p, !.creating = FALSE, !.editing = FALSE, !.result = NoProgram]

\* A program of the package or, on the other tab, a template of the registry.
OpenProgram(p) ==
  /\ InEngine /\ p \in programList.data
  /\ Show(openProgram(p))

NewProgram ==
  /\ InEngine
  /\ Show(PickerMounts([EmptyForm(editor) EXCEPT !.selected = NoProgram, !.editing = FALSE,
                                                 !.creating = TRUE], editor))

\* Edit copies the program into the form.
Loaded(p) == [i \in DOMAIN programs[p].steps |-> [seq |-> programs[p].steps[i], var_name |-> TRUE, expression |-> TRUE]]
EditProgram ==
  /\ InEngine /\ editor.selected # NoProgram /\ ~FormShown(editor)
  /\ ~programs[editor.selected].locked
  /\ Show(PickerMounts([editor EXCEPT !.editing = TRUE, !.named = TRUE, !.product = FALSE,
            !.code = programs[editor.selected].code,
            !.steps = IF Loaded(editor.selected) = <<>> THEN <<makeStep(1)>>
                      ELSE Loaded(editor.selected)], editor))

resetForm(e) == [EmptyForm(e) EXCEPT !.creating = FALSE, !.editing = FALSE]
CancelForm == InEngine /\ FormShown(editor) /\ Show(resetForm(editor))

TypeHead(c) ==
  InEngine /\ FormShown(editor) /\ Show([editor EXCEPT !.named = TRUE, !.code = c])
ChooseProgramProduct(b) ==
  InEngine /\ FormShown(editor) /\ b # editor.product /\ Show([editor EXCEPT !.product = b])

(***************************************************************************)
(* The steps of the form                                                   *)
(***************************************************************************)
MaxSeq == CHOOSE n \in {0} \cup {editor.steps[i].seq : i \in DOMAIN editor.steps} :
            \A i \in DOMAIN editor.steps : n >= editor.steps[i].seq
EditSteps(s) == InEngine /\ FormShown(editor) /\ Show([editor EXCEPT !.steps = s])
Renumbered(s) == [i \in DOMAIN s |-> [s[i] EXCEPT !.seq = i]]

AddStep ==
  Len(editor.steps) < MaxForm /\ EditSteps(Append(editor.steps, makeStep(MaxSeq + 1)))
RemoveStep(i) ==
  /\ i \in DOMAIN editor.steps
  /\ EditSteps(Renumbered(SubSeq(editor.steps, 1, i - 1) \o SubSeq(editor.steps, i + 1, Len(editor.steps))))
\* Name and expression of a step are typed in, or wiped.
NameStep(i) ==
  i \in DOMAIN editor.steps /\ EditSteps([editor.steps EXCEPT ![i].var_name = ~@])
TypeExpression(i) ==
  i \in DOMAIN editor.steps /\ EditSteps([editor.steps EXCEPT ![i].expression = ~@])
\* The picker puts a token of the field registry into the expression.
InsertField(i) ==
  i \in DOMAIN editor.steps /\ EditSteps([editor.steps EXCEPT ![i].expression = TRUE])

Swapped(i, j) == [editor.steps EXCEPT ![i] = editor.steps[j], ![j] = editor.steps[i]]

\* Faulty variant: the steps keep their numbers.
MoveStepAlone(i, j) ==
  {i, j} \subseteq DOMAIN editor.steps /\ j \in {i - 1, i + 1} /\ EditSteps(Swapped(i, j))

\* The arrows.
MoveStep(i, j) ==
  /\ {i, j} \subseteq DOMAIN editor.steps /\ j \in {i - 1, i + 1}
  /\ EditSteps(Renumbered(Swapped(i, j)))

(***************************************************************************)
(* Saving, cloning, testing                                                *)
(***************************************************************************)
Busy(r) == r.st = "sent"
\* The numbers of the filled steps, in the order of the form.
FilledSeqs(s) ==
  LET upTo[n \in 0 .. Len(s)] ==
        IF n = 0 THEN <<>>
        ELSE IF Filled(s[n]) THEN Append(upTo[n - 1], s[n].seq) ELSE upTo[n - 1]
  IN upTo[Len(s)]
CanSave ==
  /\ editor.named /\ editor.code # NoCode /\ editor.product
  /\ \E i \in DOMAIN editor.steps : Filled(editor.steps[i])

\* Create Program and Save Changes are one request: a new program.
SaveProgram ==
  /\ At("calculations", {"sends"}) /\ FormShown(editor) /\ CanSave /\ ~Busy(saving)
  /\ saving' = [st |-> "sent", mine |-> TRUE, about |-> editor.selected, code |-> editor.code,
                steps |-> FilledSeqs(editor.steps), edit |-> editor.editing]
  /\ UNCHANGED <<editor, programs, programList, cloning, testing>>

CloneTemplate(p) ==
  /\ At("calculations", {"sends"}) /\ p \in programList.data /\ programs[p].template
  /\ cloning' = cloning \cup {[about |-> p, mine |-> TRUE, sent |-> left["sends"]]}
  /\ UNCHANGED <<editor, programs, programList, saving, testing>>

RunTest ==
  /\ At("calculations", {"sends"}) /\ editor.selected # NoProgram /\ ~Busy(testing)
  /\ testing' = [NoRequest EXCEPT !.st = "sent", !.mine = TRUE, !.about = editor.selected]
  /\ editor' = [editor EXCEPT !.result = NoProgram]
  /\ UNCHANGED <<programs, programList, saving, cloning>>

Codes == {programs[p].code : p \in DOMAIN programs}
WithProgram(p, s) == [q \in DOMAIN programs \cup {p} |-> IF q = p THEN s ELSE programs[q]]
ListStale ==
  IF Here("calculations") THEN Refreshed(programList, DOMAIN programs') ELSE Missed(programList)

\* POST /calculations/programs: the code is unique.  onSuccess resets the form,
\* whatever is in it by now.
ProgramSaved ==
  /\ Busy(saving) /\ saving.code \notin Codes
  /\ \E p \in Program \ DOMAIN programs :
       /\ programs' = WithProgram(p, [code |-> saving.code, template |-> FALSE, locked |-> FALSE,
                                      steps |-> saving.steps])
       /\ saving' = [saving EXCEPT !.st = "done", !.about = p]
  /\ programList' = ListStale
  /\ editor' = IF saving.mine THEN resetForm(editor) ELSE editor
  /\ UNCHANGED <<cloning, testing, studioVars>>
\* There is no onError.
ProgramNotSaved ==
  /\ Busy(saving)
  /\ \/ saving.code \in Codes /\ UNCHANGED left
     \/ saving.code \notin Codes /\ Use({"breaks"})
  /\ saving' = [saving EXCEPT !.st = "failed"]
  /\ UNCHANGED <<editor, programs, programList, cloning, testing, studio>>

\* The copy has the steps of the template and a code of its own; onSuccess opens
\* it, whatever is on the screen by now.
TemplateCloned(r) ==
  /\ \E p \in Program \ DOMAIN programs, c \in ProgramCode \ Codes :
       /\ programs' = WithProgram(p, [code |-> c, template |-> FALSE, locked |-> FALSE,
                                      steps |-> programs[r.about].steps])
       /\ editor' = IF r.mine THEN openProgram(p) ELSE editor
  /\ cloning' = cloning \ {r} /\ programList' = ListStale
  /\ UNCHANGED <<saving, testing, studioVars>>
TemplateNotCloned(r) ==
  /\ Use({"breaks"})
  /\ cloning' = cloning \ {r}
  /\ UNCHANGED <<editor, programs, programList, saving, testing, studio>>

\* The result, or the error of the try-out, is shown: under the program that is
\* selected by now.
TestAnswered ==
  /\ Busy(testing) /\ testing' = [testing EXCEPT !.st = "done"]
  /\ editor' = IF testing.mine THEN [editor EXCEPT !.result = testing.about] ELSE editor
  /\ UNCHANGED <<programs, programList, saving, cloning, studioVars>>

(***************************************************************************)
(* The query, coming and going                                             *)
(***************************************************************************)
ProgramsArrive ==
  /\ programList.asked /\ programList' \in Answers(programList, DOMAIN programs)
  /\ UNCHANGED <<editor, programs, saving, cloning, testing, studioVars>>

\* The state is gone, the buttons are free again.
Orphaned(r) == IF Busy(r) THEN [r EXCEPT !.mine = FALSE] ELSE NoRequest
EngineLost ==
  /\ editor' = BlankEditor /\ UNCHANGED programs
  /\ saving' = Orphaned(saving) /\ testing' = Orphaned(testing)
  /\ cloning' = {[r EXCEPT !.mine = FALSE] : r \in cloning}
EnterEngine == Enter("calculations") /\ EngineLost /\ programList' = Asked(programList, DOMAIN programs)
ExitEngine == Exit("calculations") /\ EngineLost /\ UNCHANGED programList

EngineClicks ==
  \/ NewProgram \/ EditProgram \/ CancelForm \/ AddStep \/ SaveProgram \/ RunTest
  \/ \E p \in Program : OpenProgram(p) \/ CloneTemplate(p)
  \/ \E c \in ProgramCode : TypeHead(c) \/ \E b \in BOOLEAN : ChooseProgramProduct(b)
  \/ \E i \in 1 .. MaxForm : \/ RemoveStep(i) \/ NameStep(i) \/ TypeExpression(i) \/ InsertField(i)
                             \/ \E j \in 1 .. MaxForm : MoveStep(i, j)

EngineAnswers ==
  \/ ProgramSaved \/ ProgramNotSaved \/ TestAnswered
  \/ \E r \in cloning : TemplateCloned(r) \/ TemplateNotCloned(r)

CalcNext == EngineClicks \/ EngineAnswers \/ ProgramsArrive \/ EnterEngine \/ ExitEngine

(***************************************************************************)
(* Properties                                                              *)
(***************************************************************************)
\* Whatever is added, removed, moved, loaded or left empty: the steps of the form
\* and of every stored program are numbered in the order they are shown, which
\* is the order the engine runs them in.
StepsRunAsShown ==
  /\ Increasing([i \in DOMAIN editor.steps |-> editor.steps[i].seq])
  /\ \A p \in DOMAIN programs : Increasing(programs[p].steps)

\* A try-out ends, and a program that is saved comes into the list, if the studio
\* stays on the screen.
EngineSettles ==
  /\ Busy(testing) ~> ~Busy(testing)
  /\ Busy(saving) ~> \/ saving.st = "failed" \/ ~Here("calculations")
                     \/ saving.about \in programList.data

\* "Data contract: /api/v1/calculations/programs (CRUD ...)": Save Changes changes the
\* program that is edited.
EditsAreSaved == saving.edit /\ saving.st # "none" => saving.st # "failed"
=============================================================================
