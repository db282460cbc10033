---------------------------- MODULE FieldRegistry ----------------------------
(***************************************************************************)
(* The field registry's studio (FieldRegistryStudio.tsx): a table of the   *)
(* registered fields in pages, with filters, a search that waits for the   *)
(* typing to end, a selection for bulk updates, and two drawers.           *)
(* Fields are numbers, in the order of the column sorted by.  Of a field   *)
(* the display preference is kept, whose bank name it has, and where its   *)
(* localized names come from; one filter stands for the chips.             *)
(***************************************************************************)
EXTENDS Studio

CONSTANTS
  Field, NoField,  \* registered or free
  Registered,      \* the fields registered at the start
  Renamed,         \* those of them that show their bank name
  Matching,        \* the fields that the search term finds
  PageSizes,       \* PAGE_SIZE_OPTIONS
  FirstSize,       \* the one chosen at the start
  WindowMax        \* page numbers offered at most

ASSUME FieldAssumption ==
  /\ Field \subseteq Nat /\ IsFiniteSet(Field) /\ NoField \notin Field /\ Registered \subseteq Field
  /\ Renamed \subseteq Registered
  /\ Matching \subseteq Field /\ WindowMax \in Nat \ {0}
  /\ PageSizes \subseteq Nat \ {0} /\ FirstSize \in PageSizes

VARIABLES
  grid,       \* the state of the component
  registry,   \* the stored fields
  pages,      \* the queries ['fields', ...]: one entry for each key met so far
  patches,    \* PATCH .../preferences on their way
  drafting    \* the last registration and the last translation

fieldVars == <<grid, registry, pages, patches, drafting>>

Pref == {"ISO", "CLIENT"}
Opposite == [ISO |-> "CLIENT", CLIENT |-> "ISO"]
\* The localized names come from the drawer they are in, or from one before it.
Localized == {"none", "own", "other"}
StoredField == [pref : Pref, name : Field \cup {NoField}, local : Localized]
NewlyStored(l) == [pref |-> "ISO", name |-> NoField, local |-> l]

\* What the table shows is a key; asc: the direction of the sort.
Key == [term : BOOLEAN, chip : {"", "CLIENT"}, asc : BOOLEAN, size : PageSizes, page : Nat]
Drawer == [field : Field \cup {NoField}, name : Field \cup {NoField}, pref : Pref]
Closed == [field |-> NoField, name |-> NoField, pref |-> "ISO"]

\* typed: the text in the search box; timer: the 300 ms run; names: of the drawer
\* for a new field, which is open or not; bulk: the bulk update of this mounting.
Grid == [key : Key, typed : BOOLEAN, timer : BOOLEAN, selected : SUBSET Field, drawer : Drawer,
         new : BOOLEAN, names : Localized, bulk : {"idle", "pending", "failed"}]
FirstKey == [term |-> FALSE, chip |-> "", asc |-> TRUE, size |-> FirstSize, page |-> 0]
BlankGrid == [key |-> FirstKey, typed |-> FALSE, timer |-> TRUE, selected |-> {}, drawer |-> Closed,
              new |-> FALSE, names |-> "none", bulk |-> "idle"]

FieldRow == [field : Field, pref : Pref, name : Field \cup {NoField}]
Answer == [rows : SUBSET FieldRow, total : Nat]
\* gap: the server has changed with no word to this entry.
Entry == [data : Answer, asked : BOOLEAN, old : Answer, stale : BOOLEAN, gap : BOOLEAN]

PatchKind == {"toggle", "edit", "bulk", "stray"}
\* Two requests of the same content count as one.
Patch == [kind : PatchKind, field : Field, pref : Pref, name : Field \cup {NoField}, mine : BOOLEAN]
Draft == [st : {"none", "sent"}, mine : BOOLEAN, local : Localized]
NoDraft == [st |-> "none", mine |-> FALSE, local |-> "none"]

FieldTypeOK ==
  /\ grid \in Grid /\ patches \subseteq Patch
  /\ DOMAIN registry \subseteq Field /\ registry \in [DOMAIN registry -> StoredField]
  /\ DOMAIN pages \subseteq Key /\ pages \in [DOMAIN pages -> Entry]
  /\ drafting \in [create : Draft, translate : Draft]

FieldInit ==
  /\ grid = BlankGrid /\ pages = [k \in {} |-> {}] /\ patches = {}
  /\ registry = [f \in Registered |-> [NewlyStored("none") EXCEPT !.pref = IF f \in Renamed THEN "CLIENT" ELSE @,
                                                                 !.name = IF f \in Renamed THEN f ELSE @]]
  /\ drafting = [create |-> NoDraft, translate |-> NoDraft]

(***************************************************************************)
(* Pages                                                                   *)
(***************************************************************************)
Least(a, b) == IF a < b THEN a ELSE b
Found(k) == {f \in DOMAIN registry : /\ k.term => f \in Matching
                                     /\ k.chip = "CLIENT" => registry[f].pref = "CLIENT"}
Place(f, k) == Cardinality({g \in Found(k) : IF k.asc THEN g < f ELSE g > f})
Listed(k) == {f \in Found(k) : Place(f, k) \div k.size = k.page}

\* GET /fields/registry/search: skip, limit and the total.  The rows come in the order of
\* the key.
Search(k) ==
  [rows |-> {[field |-> f, pref |-> registry[f].pref, name |-> registry[f].name] : f \in Listed(k)},
   total |-> Cardinality(Found(k))]

Nothing == [rows |-> {}, total |-> 0]
Shown == IF grid.key \in DOMAIN pages THEN pages[grid.key].data ELSE Nothing
RowsShown == Shown.rows
TotalPages == (Shown.total + grid.key.size - 1) \div grid.key.size

\* The numbers offered: a window of at most WindowMax pages around the current one.
WindowSize(total) == Least(total, WindowMax)
WindowStart(page, total) ==
  LET start == Least(page - WindowSize(total) \div 2, total - WindowSize(total))
  IN IF start < 0 THEN 0 ELSE start

\* Faulty variant: each number is clamped by itself.
PageNumberClamped(i, page, total) ==
  LET p == Least(page - WindowSize(total) \div 2 + i, total - 1) IN IF p < 0 THEN 0 ELSE p

PageNumber(i, page, total) == WindowStart(page, total) + i

Window == 0 .. WindowSize(TotalPages) - 1
Offered == [i \in Window |-> PageNumber(i, grid.key.page, TotalPages)]

\* The entry of a key that comes on the screen: asked for unless it is fresh, and a
\* fresh one is 30 s later asked for all the same.
Mounted(k, now) ==
  IF k \notin DOMAIN pages
  THEN {[data |-> Nothing, asked |-> TRUE, old |-> now, stale |-> FALSE, gap |-> FALSE]}
  ELSE IF pages[k].asked THEN {pages[k]}
  ELSE {[pages[k] EXCEPT !.asked = TRUE, !.old = now, !.stale = FALSE, !.gap = FALSE]}
       \cup (IF pages[k].stale THEN {} ELSE {pages[k]})
Turn(g) ==
  /\ grid' = g
  /\ IF g.key = grid.key THEN UNCHANGED pages
     ELSE \E e \in Mounted(g.key, Search(g.key)) :
            pages' = [k \in DOMAIN pages \cup {g.key} |-> IF k = g.key THEN e ELSE pages[k]]
  /\ UNCHANGED <<registry, patches, drafting>>

InRegistry == At("fields", {})
View(g) == InRegistry /\ Turn(g)

Type == View([grid EXCEPT !.typed = ~@, !.timer = TRUE])
\* The timer is this studio's own.
SearchSettles ==
  /\ Here("fields") /\ grid.timer
  /\ Turn([grid EXCEPT !.timer = FALSE, !.key.term = grid.typed, !.key.page = 0])
  /\ UNCHANGED studioVars
\* A filter or another sort leads back to the first page.
Filter == View([grid EXCEPT !.key.chip = IF @ = "" THEN "CLIENT" ELSE "", !.key.page = 0])
SortOther == View([grid EXCEPT !.key.asc = ~@, !.key.page = 0])
Resize(n) == n # grid.key.size /\ View([grid EXCEPT !.key.size = n, !.key.page = 0])
GoTo(p) ==
  /\ \/ \E i \in Window : p = Offered[i]
     \/ p \in {0, grid.key.page - 1} /\ grid.key.page > 0
     \/ p \in {grid.key.page + 1, TotalPages - 1} /\ grid.key.page < TotalPages - 1
  /\ p # grid.key.page /\ View([grid EXCEPT !.key.page = p])

PageArrives(k) ==
  /\ k \in DOMAIN pages /\ pages[k].asked
  /\ \E v \in {pages[k].old, Search(k)} :
       pages' = [pages EXCEPT ![k] = [@ EXCEPT !.data = v, !.asked = FALSE, !.old = Nothing, !.stale = FALSE]]
  /\ UNCHANGED <<grid, registry, patches, drafting, studioVars>>

(***************************************************************************)
(* Selection                                                               *)
(***************************************************************************)
Toggled(s) == (grid.selected \ s) \cup (s \ grid.selected)
Select(s) == View([grid EXCEPT !.selected = s])

SelectRow(r) == r \in RowsShown /\ Select(Toggled({r.field}))
FieldsShown == {r.field : r \in RowsShown}
SelectPage ==
  FieldsShown # {} /\ Select(IF FieldsShown \subseteq grid.selected THEN grid.selected \ FieldsShown
                             ELSE grid.selected \cup FieldsShown)
\* The box of a domain's group toggles each of its rows.
SelectGroup(g) == g # {} /\ g \subseteq FieldsShown /\ Select(Toggled(g))
ClearSelection == grid.selected # {} /\ Select({})

(***************************************************************************)
(* Preferences                                                             *)
(***************************************************************************)
PatchOf(k, f, p, n) == [kind |-> k, field |-> f, pref |-> p, name |-> n, mine |-> TRUE]
Ask(s) ==
  /\ At("fields", {"sends"}) /\ patches' = patches \cup s
  /\ UNCHANGED <<registry, pages, drafting>>

\* The row as it is shown says what to ask for.
ToggleDisplay(r) ==
  r \in RowsShown /\ Ask({PatchOf("toggle", r.field, Opposite[r.pref], NoField)}) /\ UNCHANGED grid

BulkUpdate(p) ==
  /\ grid.selected # {} /\ grid.bulk # "pending"
  /\ Ask({PatchOf("bulk", f, p, NoField) : f \in grid.selected})
  /\ grid' = [grid EXCEPT !.bulk = "pending"]

\* Faulty variant: the name stays that of the field before.
OpenDrawerHalf(r) ==
  r \in RowsShown /\ View([grid EXCEPT !.drawer = [field |-> r.field, name |-> @.name, pref |-> r.pref]])

OpenDrawer(r) ==
  r \in RowsShown /\ View([grid EXCEPT !.drawer = [field |-> r.field, name |-> r.name, pref |-> r.pref]])

CloseDrawer == grid.drawer # Closed /\ View([grid EXCEPT !.drawer = Closed])
\* A bank name for the field is typed in, a preference chosen.
EditDrawer(p) ==
  grid.drawer # Closed /\ View([grid EXCEPT !.drawer.name = grid.drawer.field, !.drawer.pref = p])
SavePreferences ==
  /\ grid.drawer # Closed /\ ~\E x \in patches : x.kind = "edit" /\ x.mine
  /\ Ask({PatchOf("edit", grid.drawer.field, grid.drawer.pref, grid.drawer.name)})
  /\ UNCHANGED grid

\* What a preferences request does to its field; a name of null leaves the name.
Patched(x) ==
  IF x.field \notin DOMAIN registry THEN registry
  ELSE [registry EXCEPT ![x.field].pref = x.pref,
                        ![x.field].name = IF x.name = NoField THEN @ ELSE x.name]

\* invalidateQueries(['fields']): all entries are stale, the one on the screen is
\* asked for again; what another one has been asked for may still bring old rows.
Invalidated ==
  [k \in DOMAIN pages |->
     IF Here("fields") /\ k = grid.key
     THEN [pages[k] EXCEPT !.asked = TRUE, !.old = Search(k)', !.stale = FALSE, !.gap = FALSE]
     ELSE [pages[k] EXCEPT !.stale = TRUE, !.gap = @ \/ pages[k].asked]]
Unannounced == [k \in DOMAIN pages |-> [pages[k] EXCEPT !.gap = TRUE]]

LastOfBulk(x) == ~\E y \in patches \ {x} : y.kind = "bulk" /\ y.mine = x.mine

\* onSuccess closes the drawer that is open by now, and empties the selection when
\* all requests of a bulk update are answered.
PreferencesSaved(x) ==
  /\ x \in patches /\ x.field \in DOMAIN registry
  /\ registry' = Patched(x) /\ patches' = patches \ {x}
  /\ pages' = CASE x.kind \in {"toggle", "edit"} \/ (x.kind = "bulk" /\ LastOfBulk(x)) -> Invalidated
                [] OTHER -> Unannounced
  /\ grid' = CASE ~x.mine \/ x.kind \in {"toggle", "stray"} -> grid
               [] x.kind = "edit" -> [grid EXCEPT !.drawer = Closed]
               [] x.kind = "bulk" /\ LastOfBulk(x) -> [grid EXCEPT !.bulk = "idle", !.selected = {}]
               [] OTHER -> grid
  /\ UNCHANGED <<drafting, studioVars>>

\* The field is gone, or the connection breaks before or after the commit.  The
\* first failure ends a bulk update; its other requests run on.
PreferencesNotSaved(x) ==
  /\ x \in patches
  /\ \/ x.field \notin DOMAIN registry /\ UNCHANGED <<registry, pages, left>>
     \/ x.field \in DOMAIN registry /\ Use({"breaks"}) /\ UNCHANGED <<registry, pages>>
     \/ /\ x.field \in DOMAIN registry /\ Use({"breaks"})
        /\ registry' = Patched(x) /\ pages' = Unannounced
  /\ patches' = {IF x.kind = "bulk" /\ y.kind = "bulk" /\ y.mine = x.mine THEN [y EXCEPT !.kind = "stray"] ELSE y :
                   y \in patches \ {x}}
  /\ grid' = IF x.kind = "bulk" /\ x.mine THEN [grid EXCEPT !.bulk = "failed"] ELSE grid
  /\ UNCHANGED <<drafting, studio>>

(***************************************************************************)
(* A new field                                                             *)
(***************************************************************************)
OpenNew == ~grid.new /\ View([grid EXCEPT !.new = TRUE])
\* The names that are on their way are those of a drawer before.
Abandoned(d) == [d EXCEPT !.translate.local = IF @ = "own" THEN "other" ELSE @]
CloseNew ==
  /\ InRegistry /\ grid.new /\ grid' = [grid EXCEPT !.new = FALSE, !.names = "none"]
  /\ drafting' = Abandoned(drafting) /\ UNCHANGED <<registry, pages, patches>>

Translate ==
  /\ At("fields", {"sends"}) /\ grid.new /\ drafting.translate.st = "none"
  /\ drafting' = [drafting EXCEPT !.translate = [st |-> "sent", mine |-> TRUE, local |-> "own"]]
  /\ UNCHANGED <<grid, registry, pages, patches>>
\* The names arrive, or an alert; open or not, the drawer takes them.
Translated ==
  /\ drafting.translate.st = "sent"
  /\ drafting' = [drafting EXCEPT !.translate = NoDraft]
  /\ \/ grid' = IF drafting.translate.mine THEN [grid EXCEPT !.names = drafting.translate.local] ELSE grid
     \/ UNCHANGED grid
  /\ UNCHANGED <<registry, pages, patches, studioVars>>

RegisterField ==
  /\ At("fields", {"sends"}) /\ grid.new /\ drafting.create.st = "none"
  /\ drafting' = [drafting EXCEPT !.create = [st |-> "sent", mine |-> TRUE, local |-> grid.names]]
  /\ UNCHANGED <<grid, registry, pages, patches>>
\* onSuccess closes the drawer, the one that is open by now too.
FieldRegistered ==
  /\ drafting.create.st = "sent"
  /\ \E f \in Field \ DOMAIN registry :
       registry' = [g \in DOMAIN registry \cup {f} |->
                      IF g = f THEN NewlyStored(drafting.create.local) ELSE registry[g]]
  /\ pages' = Invalidated
  /\ grid' = IF drafting.create.mine THEN [grid EXCEPT !.new = FALSE, !.names = "none"] ELSE grid
  /\ drafting' = [IF drafting.create.mine /\ grid.new THEN Abandoned(drafting) ELSE drafting
                  EXCEPT !.create = NoDraft]
  /\ UNCHANGED <<patches, studioVars>>
\* The technical name is taken: nothing is shown.
FieldRefused ==
  /\ drafting.create.st = "sent" /\ drafting' = [drafting EXCEPT !.create = NoDraft]
  /\ UNCHANGED <<grid, registry, pages, patches, studioVars>>

(***************************************************************************)
(* Others, coming and going                                                *)
(***************************************************************************)
OthersChange ==
  /\ Use({"others"}) /\ pages' = Unannounced
  /\ \E f \in DOMAIN registry :
       \/ registry' = [registry EXCEPT ![f].pref = Opposite[@]]
       \/ registry' = [g \in DOMAIN registry \ {f} |-> registry[g]]
  /\ UNCHANGED <<grid, patches, drafting, studio>>

RegistryLost ==
  /\ grid' = BlankGrid /\ UNCHANGED registry
  /\ patches' = {[x EXCEPT !.mine = FALSE] : x \in patches}
  /\ drafting' = [create |-> Deserted(drafting.create), translate |-> Deserted(drafting.translate)]
EnterRegistry ==
  /\ Enter("fields") /\ RegistryLost
  /\ \E e \in Mounted(FirstKey, Search(FirstKey)) :
       pages' = [k \in DOMAIN pages \cup {FirstKey} |-> IF k = FirstKey THEN e ELSE pages[k]]
ExitRegistry == Exit("fields") /\ RegistryLost /\ UNCHANGED pages

RegistryClicks ==
  \/ Type \/ Filter \/ SortOther \/ SelectPage \/ ClearSelection
  \/ \E n \in PageSizes : Resize(n)
  \/ \E p \in 0 .. Cardinality(Field) : GoTo(p)
  \/ \E g \in SUBSET Field : SelectGroup(g)
  \/ \E p \in Pref : BulkUpdate(p) \/ EditDrawer(p)
  \/ CloseDrawer \/ SavePreferences \/ OpenNew \/ CloseNew \/ Translate \/ RegisterField
RowClicks == \E r \in RowsShown : SelectRow(r) \/ ToggleDisplay(r) \/ OpenDrawer(r)

RegistryAnswers ==
  \/ \E x \in patches : PreferencesSaved(x) \/ PreferencesNotSaved(x)
  \/ Translated \/ FieldRegistered \/ FieldRefused

FieldNext ==
  \/ RegistryClicks \/ RowClicks \/ SearchSettles
  \/ (\E k \in DOMAIN pages : PageArrives(k)) \/ RegistryAnswers
  \/ OthersChange \/ EnterRegistry \/ ExitRegistry

(***************************************************************************)
(* Properties                                                              *)
(***************************************************************************)
\* "so every page number is unique": the numbers offered under the table are pages
\* there are, and the current page is one of them, if it is there itself.
OfferedPagesExist ==
  Here("fields") =>
    /\ \A i \in Window : Offered[i] \in 0 .. TotalPages - 1
    /\ \A i, j \in Window : i # j => Offered[i] # Offered[j]
    /\ grid.key.page < TotalPages => \E i \in Window : Offered[i] = grid.key.page

\* However the drawer is opened, filled, saved and closed by late answers, no
\* field gets the bank name that was drawn up for another.
NamesAreOwn == \A f \in DOMAIN registry : registry[f].name \in {f, NoField}

\* A page on the screen that is not being asked for shows the registry as it is,
\* unless others changed it, a bulk update failed half-way, or an answer to an
\* earlier look at the page was still on its way.
FreshPagesAreTrue ==
  Here("fields") /\ ~pages[grid.key].asked /\ ~pages[grid.key].gap
    => pages[grid.key].data = Search(grid.key)

\* Localized names are those of the field they are stored with.
TranslationsAreOwn == \A f \in DOMAIN registry : registry[f].local # "other"
=============================================================================
