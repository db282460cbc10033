---------------------------- MODULE MasterRecords ----------------------------
(***************************************************************************)
(* The master data explorer (MasterDataExplorer.tsx) and the grid in it    *)
(* (MasterMaintenance.tsx), which lists, adds, edits and deletes the       *)
(* records of a master and shares it with all packages.  The grid stays    *)
(* mounted from one master to the next when the next one is in the cache,  *)
(* and an answer then asks for the list of the master that is shown.       *)
(* Messages and columns are left out, and of a record all but an edit.     *)
(***************************************************************************)
EXTENDS Studio

CONSTANTS
  Master, NoMaster,
  Record, NoRecord,  \* ids of records, stored or free
  Provided           \* the records stored at the start, with their masters

ASSUME MasterAssumption ==
  /\ NoMaster \notin Master /\ NoRecord \notin Record
  /\ DOMAIN Provided \subseteq Record /\ Provided \in [DOMAIN Provided -> Master]

VARIABLES
  board,       \* the state of both components
  records,     \* the stored records
  sharing,     \* is_global_shared of each master
  recordLists, \* the queries ['master-records', m]
  details,     \* the queries ['master-detail', m]
  orders       \* requests of the grid on their way

masterVars == <<board, records, sharing, recordLists, details, orders>>

StoredRecord == [master : Master, edited : BOOLEAN]
\* What the explorer knows of a master: nothing yet, or whether it is shared.
Detail == {"unknown", "scoped", "global"}

\* mounted: the grid is shown; modal: the form for a new record, or for one there is.
Board == [selected : Master \cup {NoMaster}, mounted : BOOLEAN, modal : {"", "add", "edit"},
          editing : Record \cup {NoRecord}, shared : Detail, sheet : Sheet]
BlankBoard == [selected |-> NoMaster, mounted |-> FALSE, modal |-> "", editing |-> NoRecord,
               shared |-> "unknown", sheet |-> NewSheet(FALSE)]

\* master: the one it is sent for; seen: the one that the grid it was sent from
\* showed last.  nr tells two requests of the same content apart.
Order == [op : {"create", "update", "delete", "share"}, nr : 1 .. 2, mine : BOOLEAN, master : Master,
          seen : Master, record : Record \cup {NoRecord}, shared : Detail]

RecordsOf(m) == [r \in {s \in DOMAIN records : records[s].master = m} |-> records[r]]

MasterTypeOK ==
  /\ board \in Board /\ sharing \in [Master -> {"scoped", "global"}] /\ orders \subseteq Order
  /\ DOMAIN records \subseteq Record /\ records \in [DOMAIN records -> StoredRecord]
  /\ \A m \in Master : DOMAIN recordLists[m].data \subseteq Record /\ details[m].data \in Detail

MasterInit ==
  /\ board = BlankBoard /\ sharing = [m \in Master |-> "scoped"] /\ orders = {}
  /\ records = [r \in DOMAIN Provided |-> [master |-> Provided[r], edited |-> FALSE]]
  /\ recordLists = [m \in Master |-> Unasked([r \in {} |-> NoRecord])]
  /\ details = [m \in Master |-> Unasked("unknown")]

(***************************************************************************)
(* From master to master                                                   *)
(***************************************************************************)
Listing(m) == recordLists' = [recordLists EXCEPT ![m] = Asked(@, RecordsOf(m))]
\* The grid mounts: the sharing it starts from is that of the answer.
Grown(b, m, shared) ==
  [BlankBoard EXCEPT !.selected = m, !.mounted = TRUE, !.shared = shared, !.sheet = b.sheet]

\* The modal covers the page.
InExplorer == At("masters", {}) /\ board.modal = ""

\* Of a master that is in the cache the grid is shown at once, or shown still: then
\* with the sharing of the master before, and requests on their way follow.
SelectMaster(m) ==
  /\ InExplorer /\ m # board.selected
  /\ details' = [details EXCEPT ![m] = Asked(@, sharing[m])]
  /\ IF details[m].data = "unknown"
     THEN /\ board' = [BlankBoard EXCEPT !.selected = m, !.sheet = board.sheet]
          /\ orders' = {[x EXCEPT !.mine = FALSE] : x \in orders}
          /\ UNCHANGED recordLists
     ELSE /\ board' = IF board.mounted THEN [board EXCEPT !.selected = m]
                      ELSE Grown(board, m, details[m].data)
          /\ orders' = {IF x.mine THEN [x EXCEPT !.seen = m] ELSE x : x \in orders}
          /\ Listing(m)
  /\ UNCHANGED <<records, sharing>>

DetailArrives(m) ==
  /\ details[m].asked
  /\ \E a \in Answers(details[m], sharing[m]) :
       /\ details' = [details EXCEPT ![m] = a]
       /\ IF Here("masters") /\ board.selected = m /\ ~board.mounted
          THEN board' = Grown(board, m, a.data) /\ Listing(m)
          ELSE UNCHANGED <<board, recordLists>>
  /\ UNCHANGED <<records, sharing, orders, studioVars>>

RecordsArrive(m) ==
  /\ recordLists[m].asked
  /\ \E a \in Answers(recordLists[m], RecordsOf(m)) : recordLists' = [recordLists EXCEPT ![m] = a]
  /\ UNCHANGED <<board, records, sharing, details, orders, studioVars>>

(***************************************************************************)
(* The grid                                                                *)
(***************************************************************************)
OnGrid == InExplorer /\ board.mounted
Behold(b) == board' = b /\ UNCHANGED <<records, sharing, recordLists, details, orders>>

OpenAdd == OnGrid /\ Behold([board EXCEPT !.modal = "add", !.sheet = NewSheet(FALSE)])
OpenEdit(r) ==
  /\ OnGrid /\ r \in DOMAIN recordLists[board.selected].data
  /\ Behold([board EXCEPT !.modal = "edit", !.editing = r, !.sheet = NewSheet(TRUE)])
InModal == At("masters", {}) /\ board.modal # ""
Shut(b) == [b EXCEPT !.modal = "", !.editing = NoRecord]
TypeRecord == InModal /\ Behold([board EXCEPT !.sheet = FieldTyped(@)])
\* The cross, the backdrop and the form's Cancel.
CloseModal == InModal /\ Behold(Shut(board))
SubmitInvalid == InModal /\ ~Passes(board.sheet, "SUBMIT") /\ Behold([board EXCEPT !.sheet = Acted(@, "SUBMIT")])

Send(op, r, shared) ==
  /\ Use({"sends"})
  /\ \E n \in 1 .. 2 :
       LET x == [op |-> op, nr |-> n, mine |-> TRUE, master |-> board.selected,
                 seen |-> board.selected, record |-> r, shared |-> shared]
       IN x \notin orders /\ orders' = orders \cup {x}
  /\ UNCHANGED <<records, sharing, recordLists, details, studio>>
\* Submit is never disabled: a second click sends a second request.
SubmitRecord ==
  /\ Here("masters") /\ board.modal # "" /\ Passes(board.sheet, "SUBMIT")
  /\ Send(IF board.modal = "edit" THEN "update" ELSE "create", board.editing, "unknown")
  /\ board' = [board EXCEPT !.sheet = Acted(@, "SUBMIT")]
DeleteRecord(r) ==
  /\ Here("masters") /\ board.mounted /\ board.modal = "" /\ r \in DOMAIN recordLists[board.selected].data
  /\ Send("delete", r, "unknown") /\ UNCHANGED board
ShareMaster ==
  /\ Here("masters") /\ board.mounted /\ board.modal = "" /\ ~\E x \in orders : x.op = "share" /\ x.mine
  /\ Send("share", NoRecord, IF board.shared = "global" THEN "scoped" ELSE "global") /\ UNCHANGED board

(***************************************************************************)
(* routers/masters.py, and the answers                                     *)
(***************************************************************************)
\* The record is looked up with its master.
Has(x) == x.record \in DOMAIN records /\ records[x.record].master = x.master
Done(x) ==
  \/ /\ x.op = "create" /\ UNCHANGED sharing
     /\ \E r \in Record \ DOMAIN records :
          records' = [s \in DOMAIN records \cup {r} |->
                        IF s = r THEN [master |-> x.master, edited |-> FALSE] ELSE records[s]]
  \/ /\ x.op = "update" /\ Has(x)
     /\ records' = [records EXCEPT ![x.record].edited = TRUE] /\ UNCHANGED sharing
  \/ /\ x.op = "delete" /\ Has(x)
     /\ records' = [r \in DOMAIN records \ {x.record} |-> records[r]] /\ UNCHANGED sharing
  \/ x.op = "share" /\ sharing' = [sharing EXCEPT ![x.master] = x.shared] /\ UNCHANGED records
\* The record is gone (404).
Missing(x) == x.op \in {"update", "delete"} /\ ~Has(x)

OnBoard(m) == Here("masters") /\ board.mounted /\ board.selected = m
\* A master whose records changed with no word to its list.
Untold(x) == [recordLists EXCEPT ![x.master].gap = TRUE]

\* Faulty variant: the list that is on the screen is not asked for again.
RelistedNever(x) == [recordLists EXCEPT ![x.seen] = Missed(@)]

\* invalidate() of the grid as it was rendered last: the list of the master it showed.
Relisted(x) ==
  [IF x.seen = x.master THEN recordLists ELSE Untold(x)
   EXCEPT ![x.seen] = IF OnBoard(x.seen) THEN Refreshed(@, RecordsOf(x.seen)') ELSE Missed(@)]

\* onSuccess closes the modal of its kind, whichever record it is open for by now.
Closes(x) == x.mine /\ <<x.op, board.modal>> \in {<<"create", "add">>, <<"update", "edit">>}
OrderAnswered(x) ==
  /\ x \in orders /\ Done(x) /\ orders' = orders \ {x}
  /\ recordLists' = IF x.op = "share" THEN recordLists ELSE Relisted(x)
  /\ board' = IF Closes(x) THEN Shut(board)
              ELSE IF x.op = "share" /\ x.mine THEN [board EXCEPT !.shared = x.shared] ELSE board
  /\ UNCHANGED <<details, studioVars>>
\* A message is shown, no list is asked for; the connection may break after the commit.
OrderFailed(x) ==
  /\ x \in orders /\ orders' = orders \ {x}
  /\ \/ Missing(x) /\ UNCHANGED <<records, sharing, recordLists, left>>
     \/ ~Missing(x) /\ Use({"breaks"}) /\ UNCHANGED <<records, sharing, recordLists>>
     \/ Done(x) /\ Use({"breaks"}) /\ recordLists' = Untold(x)
  /\ UNCHANGED <<board, details, studio>>

\* Another user edits or deletes a record.
OthersMaintain ==
  /\ Use({"others"})
  /\ \E r \in DOMAIN records :
       /\ \/ records' = [records EXCEPT ![r].edited = TRUE]
          \/ records' = [s \in DOMAIN records \ {r} |-> records[s]]
       /\ recordLists' = [recordLists EXCEPT ![records[r].master].gap = TRUE]
  /\ UNCHANGED <<board, sharing, details, orders, studio>>

BoardLost ==
  /\ board' = BlankBoard /\ orders' = {[x EXCEPT !.mine = FALSE] : x \in orders}
  /\ UNCHANGED <<records, sharing, recordLists, details>>
EnterExplorer == Enter("masters") /\ BoardLost
ExitExplorer == Exit("masters") /\ BoardLost

MasterClicks ==
  \/ (\E m \in Master : SelectMaster(m)) \/ OpenAdd \/ TypeRecord \/ CloseModal \/ SubmitInvalid
  \/ SubmitRecord \/ ShareMaster \/ \E r \in Record : OpenEdit(r) \/ DeleteRecord(r)
MasterAnswers ==
  \/ \E m \in Master : DetailArrives(m) \/ RecordsArrive(m)
  \/ \E x \in orders : OrderAnswered(x) \/ OrderFailed(x)
MasterNext == MasterClicks \/ MasterAnswers \/ OthersMaintain \/ EnterExplorer \/ ExitExplorer

(***************************************************************************)
(* Properties                                                              *)
(***************************************************************************)
\* The records on the screen, when they are not being asked for, are those of the
\* selected master, unless others changed them, an answer was lost, or it came when
\* the grid had gone on to another master.
ShownRecordsAreTrue ==
  OnBoard(board.selected) /\ ~recordLists[board.selected].asked /\ ~recordLists[board.selected].gap
    => recordLists[board.selected].data = RecordsOf(board.selected)

\* "When on, this master is shared across all packages": what the toggle shows is what
\* the selected master is, unless a request for it is on its way.
ShownSharingIsOwn ==
  OnBoard(board.selected) /\ (\A x \in orders : x.op # "share") => board.shared = sharing[board.selected]
=============================================================================
