---------------------- MODULE TransactionScreenProofs -----------------------
(***************************************************************************)
(* Proofs about the transaction screen and its bulk panel, for any set of  *)
(* transactions, any stations of the workflow and any bounds.              *)
(***************************************************************************)
EXTENDS TransactionScreen, FiniteSetTheorems, TLAPS

(***************************************************************************)
(* The server                                                              *)
(***************************************************************************)
\* Rows are written anew, and never taken away.
Grows ==
  /\ rows' \in [Inst -> Row]
  /\ \A i \in Inst : rows[i].ver <= rows'[i].ver /\ (Exists(i) => Exists(i)')

\* Where a run stops is a state of a row.
LEMMA StopsAreStates ==
  \A s \in Stops \cup {<<"COMPLETED", NNodes>>} : s[1] \in Status /\ s[1] # "ABSENT" /\ s[2] \in Node
BY ServerAssumption DEF Stops, Status, Terminal, Node

\* One commit of a row.
LEMMA RowGrows ==
  ASSUME rows \in [Inst -> Row], NEW i \in Inst, NEW st \in Status \ {"ABSENT"}, NEW n \in Node,
         rows' = [rows EXCEPT ![i] = Written(@, st, n)]
  PROVE  Grows /\ Exists(i)'
<1>1. rows[i] \in Row
  OBVIOUS
<1>2. Written(rows[i], st, n) \in Row /\ Written(rows[i], st, n).ver = rows[i].ver + 1
      /\ Written(rows[i], st, n).status = st
  BY <1>1 DEF Written, Row
<1>3. \A j \in Inst : rows[j].ver \in Nat
  BY DEF Row
<1>4. \A j \in Inst : rows'[j] = IF j = i THEN Written(rows[i], st, n) ELSE rows[j]
  OBVIOUS
<1>5. rows' \in [Inst -> Row]
  BY <1>2
<1>. QED BY <1>2, <1>3, <1>4, <1>5 DEF Grows, Exists

\* Two commits in one step, of different rows.
LEMMA RowsGrow ==
  ASSUME rows \in [Inst -> Row], NEW i \in Inst, NEW j \in Inst, i # j,
         NEW st \in Status \ {"ABSENT"}, NEW m \in Node, NEW n \in Node,
         rows' = [rows EXCEPT ![i] = Written(@, st, m), ![j] = Written(@, st, n)]
  PROVE  Grows
<1>1. rows[i] \in Row /\ rows[j] \in Row
  OBVIOUS
<1>2. /\ Written(rows[i], st, m) \in Row /\ Written(rows[i], st, m).ver = rows[i].ver + 1
      /\ Written(rows[i], st, m).status = st
      /\ Written(rows[j], st, n) \in Row /\ Written(rows[j], st, n).ver = rows[j].ver + 1
      /\ Written(rows[j], st, n).status = st
  BY <1>1 DEF Written, Row
<1>3. \A k \in Inst : rows[k].ver \in Nat
  BY DEF Row
<1>4. \A k \in Inst : rows'[k] = IF k = j THEN Written(rows[j], st, n)
                                 ELSE IF k = i THEN Written(rows[i], st, m) ELSE rows[k]
  OBVIOUS
<1>5. rows' \in [Inst -> Row]
  BY <1>2
<1>. QED BY <1>2, <1>3, <1>4, <1>5 DEF Grows, Exists

\* A step that leaves the rows alone.
LEMMA RowsStay ==
  ASSUME rows \in [Inst -> Row], UNCHANGED rows
  PROVE  Grows
<1>1. \A i \in Inst : rows[i].ver \in Nat
  BY DEF Row
<1>. QED BY <1>1 DEF Grows, Exists

\* A decision, whoever takes it, is one commit, or two, or none.
LEMMA TakeGrows ==
  ASSUME rows \in [Inst -> Row], NEW i \in Inst, NEW k, NEW n, Take(i, k, n)
  PROVE  Grows
<1>0. rows[i] \in Row /\ rows[i].node \in Node /\ NNodes \in Node
  BY ServerAssumption DEF Row, Node
<1>1. CASE Settle(i, k)
  <2>1. CASE UNCHANGED rows
    BY <2>1, RowsStay
  <2>2. CASE rows' # rows
    <3>1. k \in DOMAIN Settles /\ rows' = [rows EXCEPT ![i] = Written(@, Settles[k], @.node)]
      BY <1>1, <2>2 DEF Settle
    <3>2. Settles[k] \in Status \ {"ABSENT"}
      BY <3>1 DEF Settles, Status, Terminal
    <3>3. PICK st \in Status \ {"ABSENT"}, m \in Node : st = Settles[k] /\ m = rows[i].node
      BY <1>0, <3>2
    <3>4. rows' = [rows EXCEPT ![i] = Written(@, st, m)]
      BY <3>1, <3>3
    <3>. QED BY <3>4, RowGrows
  <2>. QED BY <2>1, <2>2
<1>2. CASE RunOn(i, k)
  <2>1. CASE rows' = [rows EXCEPT ![i] = Written(@, "COMPLETED", NNodes)]
    BY <1>0, <2>1, RowGrows DEF Status, Terminal
  <2>2. CASE rows' = [rows EXCEPT ![i] = Written(@, "FAILED", @.node)]
    <3>1. PICK m \in Node : m = rows[i].node
      BY <1>0
    <3>2. rows' = [rows EXCEPT ![i] = Written(@, "FAILED", m)]
      BY <2>2, <3>1
    <3>. QED BY <3>2, RowGrows DEF Status
  <2>3. CASE \E j \in Inst, s \in Stops :
               /\ ~Exists(j)
               /\ rows' = [rows EXCEPT ![i] = Written(@, s[1], @.node), ![j] = Written(@, s[1], s[2])]
    <3>1. PICK j \in Inst, s \in Stops :
               /\ ~Exists(j)
               /\ rows' = [rows EXCEPT ![i] = Written(@, s[1], @.node), ![j] = Written(@, s[1], s[2])]
      BY <2>3
    <3>2. i # j
      BY <3>1 DEF Take
    <3>3. PICK st \in Status \ {"ABSENT"}, m \in Node, l \in Node : st = s[1] /\ m = rows[i].node /\ l = s[2]
      BY <1>0, StopsAreStates
    <3>4. rows' = [rows EXCEPT ![i] = Written(@, st, m), ![j] = Written(@, st, l)]
      BY <3>1, <3>3
    <3>. QED BY <3>2, <3>4, RowsGrow
  <2>. QED BY <1>2, <2>1, <2>2, <2>3 DEF RunOn
<1>. QED BY <1>1, <1>2 DEF Take

\* An execution is one commit.
LEMMA ExecuteGrows ==
  ASSUME rows \in [Inst -> Row], NEW j \in Inst, Execute(j)
  PROVE  Grows /\ Exists(j)'
<1>1. PICK s \in Stops \cup {<<"COMPLETED", NNodes>>} : rows' = [rows EXCEPT ![j] = Written(@, s[1], s[2])]
  BY DEF Execute
<1>2. PICK st \in Status \ {"ABSENT"}, n \in Node : st = s[1] /\ n = s[2]
  BY StopsAreStates
<1>. QED BY <1>1, <1>2, RowGrows

(***************************************************************************)
(* What holds of the screen                                                *)
(***************************************************************************)
\* A fetch of a row; a call that waits for its answer or for its handlers.
Fetch == [st : {"idle", "asked", "read"}, row : Row]
Waits == {"sent", "ok", "bad"}

\* The variables of the screen and their types.
ScreenTypes ==
  /\ rows \in [Inst -> Row] /\ scr \in Screen /\ cache \in [Inst -> Row] /\ fetch \in [Inst -> Fetch]
  /\ broken \subseteq Inst /\ calls \in Seq(Call) /\ left \in Sitting

\* What is on the screen, fetched or decided about exists, and no copy is ahead of it.
Existing ==
  /\ scr.inst # NoInst => Exists(scr.inst)
  /\ \A c \in DOMAIN calls : calls[c].inst # NoInst => Exists(calls[c].inst)
  /\ \A i \in Inst :
       /\ fetch[i].st # "idle" => Exists(i)
       /\ fetch[i].st = "read" => fetch[i].row.status # "ABSENT" /\ fetch[i].row.ver <= rows[i].ver
       /\ cache[i].ver <= rows[i].ver

\* A decision is about a transaction that has a copy.  Once it was handled with its
\* transaction on the screen, every answer that counts was read after it.
Seen(k) ==
  k.kind # "execute" =>
    /\ k.inst \in Inst /\ Cached(k.inst) /\ k.ver <= rows[k.inst].ver
    /\ k.st = "done" /\ k.stayed =>
         /\ fetch[k.inst].st = "read" => k.ver <= fetch[k.inst].row.ver
         /\ fetch[k.inst].st = "idle" /\ k.inst \notin broken => k.ver <= cache[k.inst].ver

\* Its handlers are those of a screen that still shows it.
Stays(k) ==
  k.kind # "execute" /\ k.st \in Waits /\ k.stayed => scr.inst = k.inst /\ k.key = k.inst

\* A typed reason is later than every call that was sent with another; the calls sent with
\* it have failed, but for the one that the reject panel waits for.
Reasons ==
  /\ scr.reason <= Len(calls) + 1
  /\ \A c \in DOMAIN calls : calls[c].kind = "reject" =>
       /\ calls[c].reason \in 1 .. c
       /\ calls[c].reason = scr.reason =>
            calls[c].st = "failed" \/ (calls[c].live = "sender" /\ calls[c].st \in Waits /\ Latest(c))
       /\ \A d \in DOMAIN calls : c # d /\ calls[d].kind = "reject" /\ calls[c].reason = calls[d].reason =>
            calls[c].st = "failed" \/ calls[d].st = "failed"

\* What keeps ReadsOwnWrite and ReasonUsedOnce.
ScreenInv ==
  /\ ScreenTypes /\ Existing /\ Reasons
  /\ \A c \in DOMAIN calls : Seen(calls[c]) /\ Stays(calls[c])

\* The invariant is strong enough.
LEMMA ScreenInvSuffices == ScreenInv => ReadsOwnWrite /\ ReasonUsedOnce
<1>. SUFFICES ASSUME ScreenInv PROVE ReadsOwnWrite /\ ReasonUsedOnce
  OBVIOUS
<1>1. ReadsOwnWrite
  <2>1. \A c \in DOMAIN calls : calls[c] \in Call
    BY DEF ScreenInv, ScreenTypes
  <2>2. \A i \in Inst : cache[i].ver \in Nat
    BY DEF ScreenInv, ScreenTypes, Row
  <2>. QED BY <2>1, <2>2 DEF ReadsOwnWrite, ScreenInv, Seen, Call
<1>2. ReasonUsedOnce
  <2>. SUFFICES ASSUME NEW c \in DOMAIN calls, NEW d \in DOMAIN calls, c # d,
                       {calls[c].kind, calls[d].kind} = {"reject"}, {calls[c].st, calls[d].st} = {"done"},
                       calls[c].reason = calls[d].reason
                PROVE  FALSE
    BY DEF ReasonUsedOnce
  <2>1. calls[c].kind = "reject" /\ calls[d].kind = "reject" /\ calls[c].st = "done" /\ calls[d].st = "done"
    OBVIOUS
  <2>. QED BY <2>1 DEF ScreenInv, Reasons
<1>. QED BY <1>1, <1>2

\* The screen as it is opened, and the copy before the first fetch.
LEMMA BlankTypes == Blank \in Screen /\ Unread \in Row /\ Unread.ver = 0
BY ServerAssumption DEF Blank, Screen, Unread, Fresh, Row, Status, Terminal, Node

\* It holds when the browser is opened.
LEMMA ScreenInvInit == Init => ScreenInv
<1>. SUFFICES ASSUME Init PROVE ScreenInv
  OBVIOUS
<1>1. \A n \in Gate : Fresh("PAUSED", n) \in Row /\ Fresh("PAUSED", n).ver = 0
  BY ServerAssumption DEF Fresh, Row, Status
<1>2. rows \in [Inst -> Row] /\ \A i \in Inst : rows[i].ver = 0
  BY <1>1, BlankTypes DEF Init, ServerInit
<1>3. fetch \in [Inst -> Fetch] /\ \A i \in Inst : fetch[i].st = "idle"
  BY BlankTypes DEF Init, Fetch
<1>4. cache \in [Inst -> Row] /\ \A i \in Inst : cache[i].ver = 0
  BY BlankTypes DEF Init
<1>5. left \in Sitting
  BY ScreenAssumption DEF Init
<1>6. scr = Blank /\ scr.inst = NoInst /\ scr.reason = 0 /\ calls = <<>> /\ Len(calls) = 0 /\ DOMAIN calls = {}
  BY DEF Init, Blank
<1>7. ScreenTypes
  BY <1>2, <1>3, <1>4, <1>5, <1>6, BlankTypes DEF ScreenTypes, Init
<1>8. Existing /\ Reasons
  BY <1>2, <1>3, <1>4, <1>6 DEF Existing, Reasons
<1>. QED BY <1>6, <1>7, <1>8 DEF ScreenInv

(***************************************************************************)
(* What steps do to the calls                                              *)
(***************************************************************************)
\* An event of the sitting.
LEMMA SittingGoesOn ==
  ASSUME left \in Sitting, UNCHANGED left \/ \E what : Use(what)
  PROVE  left' \in Sitting
<1>1. \A w \in Bounded : left[w] \in Nat
  BY DEF Sitting
<1>2. ASSUME NEW what, Use(what) PROVE left' \in Sitting
  <2>1. \A w \in what : w \in Bounded => left[w] > 0
    BY <1>2 DEF Use
  <2>2. \A w \in Bounded : (IF w \in what THEN left[w] - 1 ELSE left[w]) \in Nat
    BY <1>1, <2>1
  <2>. QED BY <1>2, <2>2 DEF Use, Sitting
<1>. QED BY <1>2

\* Call k is now l: what was decided and how it went are the same.
Same(l, k) ==
  /\ l.kind = k.kind /\ l.inst = k.inst /\ l.ver = k.ver /\ l.reason = k.reason
  /\ l.stayed => k.stayed
  /\ k.kind = "reject" => l.live = k.live

\* The calls are a sequence of calls.
LEMMA CallFields ==
  ASSUME ScreenTypes
  PROVE  /\ Len(calls) \in Nat /\ DOMAIN calls = 1 .. Len(calls)
         /\ \A c \in DOMAIN calls : calls[c] \in Call
BY DEF ScreenTypes

\* The handlers of a new rendering: what the calls are about is as it was, and a call that
\* is still awaited stayed only if the screen is with its transaction.
LEMMA CallsRekeyed ==
  ASSUME ScreenTypes, NEW i \in Inst \cup {NoInst}, NEW st
  PROVE  /\ Rekeyed(i, st) \in Seq(Call) /\ DOMAIN Rekeyed(i, st) = DOMAIN calls
         /\ Len(Rekeyed(i, st)) = Len(calls)
         /\ \A c \in DOMAIN calls :
              LET l == Rekeyed(i, st)[c]
                  k == calls[c]
              IN /\ Same(l, k) /\ l.st = k.st
                 /\ k.st \in Waits /\ l.stayed => i = k.inst
                 /\ l.key \in {i, k.key}
<1> DEFINE r == Rekeyed(i, st)
<1>0. Len(calls) \in Nat /\ DOMAIN calls = 1 .. Len(calls) /\ \A c \in DOMAIN calls : calls[c] \in Call
  BY CallFields
<1>1. DOMAIN r = DOMAIN calls
  BY DEF Rekeyed
<1>2. ASSUME NEW c \in DOMAIN calls
      PROVE  /\ r[c] \in Call /\ Same(r[c], calls[c]) /\ r[c].st = calls[c].st
             /\ calls[c].st \in Waits /\ r[c].stayed => i = calls[c].inst
             /\ r[c].key \in {i, calls[c].key}
  <2>. PICK k \in Call : k = calls[c]
    BY <1>0
  <2>. PICK x \in {i, k.key} : x = IF k.live = "sender" /\ k.kind # "execute" /\ Pending(c) /\ Latest(c) THEN i ELSE k.key
    OBVIOUS
  <2>. PICK y \in BOOLEAN : y = (k.stayed /\ (i = k.inst \/ ~Pending(c)))
    OBVIOUS
  <2>. PICK z \in {k.live, "screen"} :
         z = IF k.kind = "execute" /\ k.live = "sender" /\ st # "running" THEN "screen" ELSE k.live
    OBVIOUS
  <2>1. r[c] = [k EXCEPT !.key = x, !.stayed = y, !.live = z]
    BY DEF Rekeyed
  <2>2. x \in Inst \cup {NoInst} /\ z \in {"sender", "screen", "none"}
    BY DEF Call
  <2>3. r[c] \in Call
    BY <2>1, <2>2 DEF Call
  <2>4. /\ r[c].kind = k.kind /\ r[c].inst = k.inst /\ r[c].ver = k.ver /\ r[c].reason = k.reason /\ r[c].st = k.st
        /\ r[c].key = x /\ r[c].stayed = y /\ r[c].live = z
    BY <2>1 DEF Call
  <2>. QED BY <2>3, <2>4 DEF Same, Pending, Waits
<1> HIDE DEF r
<1>3. r \in Seq(Call) /\ Len(r) = Len(calls)
  <2>1. r = [c \in 1 .. Len(calls) |-> r[c]]
    BY <1>0, <1>1 DEF r, Rekeyed
  <2>. QED BY <1>0, <1>2, <2>1
<1>. QED BY <1>1, <1>2, <1>3 DEF r

\* One call gets another state, or another transaction.
LEMMA CallWritten ==
  ASSUME ScreenTypes, NEW c \in DOMAIN calls, NEW k \in Call, NEW r, r = [calls EXCEPT ![c] = k]
  PROVE  /\ r \in Seq(Call) /\ DOMAIN r = DOMAIN calls /\ Len(r) = Len(calls)
         /\ r[c] = k /\ \A d \in DOMAIN calls : d # c => r[d] = calls[d]
<1>1. Len(calls) \in Nat /\ DOMAIN calls = 1 .. Len(calls) /\ \A d \in DOMAIN calls : calls[d] \in Call
  BY CallFields
<1>2. /\ DOMAIN r = 1 .. Len(calls) /\ r[c] = k
      /\ \A d \in DOMAIN calls : d # c => r[d] = calls[d]
  BY <1>1
<1>3. \A d \in 1 .. Len(calls) : r[d] \in Call
  BY <1>1, <1>2
<1>4. r \in [1 .. Len(calls) -> Call]
  BY <1>1, <1>2, <1>3
<1>5. r \in Seq(Call)
  BY <1>1, <1>4
<1>6. Len(r) = Len(calls)
  BY <1>1, <1>2, <1>5
<1>. QED BY <1>1, <1>2, <1>5, <1>6

(***************************************************************************)
(* What steps do to the reasons                                            *)
(***************************************************************************)
\* No rejection is sent; a call that failed stays failed, and one that ends otherwise
\* takes its reason with it.
LEMMA ReasonsStay ==
  ASSUME ScreenTypes, Reasons, DOMAIN calls' = DOMAIN calls, Len(calls') = Len(calls), scr'.reason \in {0, scr.reason},
         \A c \in DOMAIN calls :
           /\ calls'[c].kind = calls[c].kind
           /\ calls[c].kind = "reject" =>
                /\ calls'[c].reason = calls[c].reason
                /\ calls[c].st = "failed" => calls'[c].st = "failed"
                /\ calls'[c].live # calls[c].live => scr'.reason # calls[c].reason
                /\ calls[c].st \in Waits /\ calls'[c].st \notin Waits \cup {"failed"} => scr'.reason # calls[c].reason
  PROVE  Reasons'
<1>0. Len(calls) \in Nat /\ DOMAIN calls = 1 .. Len(calls) /\ scr.reason \in Nat
  BY CallFields DEF ScreenTypes, Screen
<1>1. scr'.reason <= Len(calls') + 1
  BY <1>0 DEF Reasons
<1>2. ASSUME NEW c \in DOMAIN calls, calls[c].kind = "reject"
      PROVE  /\ calls'[c].reason \in 1 .. c
             /\ \A d \in DOMAIN calls : c # d /\ calls'[d].kind = "reject" /\ calls'[c].reason = calls'[d].reason =>
                  calls'[c].st = "failed" \/ calls'[d].st = "failed"
  BY <1>2 DEF Reasons
<1>3. ASSUME NEW c \in DOMAIN calls, calls[c].kind = "reject", calls'[c].reason = scr'.reason
      PROVE  calls'[c].st = "failed" \/ (calls'[c].live = "sender" /\ calls'[c].st \in Waits /\ Latest(c)')
  <2>1. calls[c].reason = scr.reason
    BY <1>0, <1>3 DEF Reasons
  <2>2. CASE calls[c].st = "failed"
    BY <1>3, <2>2
  <2>3. CASE calls[c].live = "sender" /\ calls[c].st \in Waits /\ Latest(c)
    <3>1. calls'[c].live = "sender" /\ calls'[c].st \in Waits \cup {"failed"}
      BY <1>3, <2>3
    <3>2. Latest(c)'
      BY <2>3 DEF Latest
    <3>. QED BY <3>1, <3>2
  <2>. QED BY <1>3, <2>1, <2>2, <2>3 DEF Reasons
<1>. QED BY <1>1, <1>2, <1>3 DEF Reasons

(***************************************************************************)
(* What steps do to what was seen                                          *)
(***************************************************************************)
\* A call that is the same, or ends while its transaction is asked for, was seen: fetches
\* are sent again, broken off or kept.
LEMMA SeenStays ==
  ASSUME ScreenTypes, Grows, UNCHANGED cache, broken \subseteq broken',
         \A j \in Inst : \/ fetch'[j] = fetch[j]
                         \/ fetch'[j].st = "asked"
                         \/ fetch'[j].st = "idle" /\ j \in broken',
         NEW k \in Call, NEW l, Seen(k), Same(l, k),
         l.st = "done" => k.st = "done" \/ (l.stayed => fetch'[l.inst].st = "asked")
  PROVE  Seen(l)'
<1>. SUFFICES ASSUME k.kind # "execute" PROVE Seen(l)'
  BY DEF Seen, Same
<1> DEFINE i == k.inst
<1>1. i \in Inst /\ Cached(i) /\ k.ver <= rows[i].ver /\ l.inst = i /\ l.ver = k.ver /\ (l.stayed => k.stayed)
  BY DEF Seen, Same
<1>2. rows[i].ver \in Nat /\ rows'[i].ver \in Nat /\ k.ver \in Nat /\ rows[i].ver <= rows'[i].ver
  BY <1>1 DEF ScreenTypes, Grows, Row, Call
<1>3. l.ver <= rows'[i].ver
  BY <1>1, <1>2
<1>4. Cached(i)'
  BY <1>1 DEF Cached
<1>5. ASSUME l.st = "done", l.stayed
      PROVE  /\ fetch'[i].st = "read" => l.ver <= fetch'[i].row.ver
             /\ fetch'[i].st = "idle" /\ i \notin broken' => l.ver <= cache'[i].ver
  <2>1. CASE fetch'[i].st = "asked"
    BY <2>1
  <2>2. CASE k.st = "done"
    BY <1>1, <1>5, <2>2 DEF Seen
  <2>. QED BY <1>1, <1>5, <2>1, <2>2
<1> HIDE DEF i
<1>. QED BY <1>1, <1>3, <1>4, <1>5 DEF Seen

\* Nothing that was fetched or cached is lost.
LEMMA ExistingStays ==
  ASSUME ScreenTypes, Existing, Grows, UNCHANGED cache,
         scr'.inst # NoInst => scr'.inst = scr.inst \/ Exists(scr.inst)',
         scr'.inst \in Inst \cup {NoInst},
         \A c \in DOMAIN calls' : calls'[c].inst # NoInst =>
           calls'[c].inst \in Inst /\ ((c \in DOMAIN calls /\ calls'[c].inst = calls[c].inst) \/ Exists(calls[c].inst)'),
         \A j \in Inst : fetch'[j] = fetch[j] \/ (fetch'[j].st = "asked" /\ Exists(j)) \/ fetch'[j].st = "idle"
  PROVE  Existing'
<1>1. scr'.inst # NoInst => Exists(scr.inst)'
  BY DEF Existing, Grows
<1>2. \A c \in DOMAIN calls' : calls'[c].inst # NoInst => Exists(calls[c].inst)'
  BY DEF Existing, Grows
<1>3. ASSUME NEW i \in Inst
      PROVE  /\ fetch'[i].st # "idle" => Exists(i)'
             /\ fetch'[i].st = "read" => fetch'[i].row.status # "ABSENT" /\ fetch'[i].row.ver <= rows'[i].ver
             /\ cache'[i].ver <= rows'[i].ver
  <2>1. rows[i].ver <= rows'[i].ver /\ (Exists(i) => Exists(i)') /\ rows[i].ver \in Nat /\ rows'[i].ver \in Nat
        /\ cache[i].ver \in Nat /\ fetch[i].row.ver \in Nat
    BY DEF Grows, ScreenTypes, Row, Fetch
  <2>2. cache'[i].ver <= rows'[i].ver
    BY <2>1 DEF Existing
  <2>3. CASE fetch'[i] = fetch[i]
    BY <2>1, <2>2, <2>3 DEF Existing
  <2>4. CASE fetch'[i].st = "asked" /\ Exists(i)
    BY <2>1, <2>2, <2>4
  <2>5. CASE fetch'[i].st = "idle"
    BY <2>2, <2>5
  <2>. QED BY <2>3, <2>4, <2>5
<1>. QED BY <1>1, <1>2, <1>3 DEF Existing

(***************************************************************************)
(* What users do                                                           *)
(***************************************************************************)
\* The screen stays with its transaction, and no request is sent or answered.
LEMMA QuietKeeps ==
  ASSUME ScreenInv, Grows, UNCHANGED <<cache, fetch, broken, calls>>, left' \in Sitting,
         scr' \in Screen, scr'.inst = scr.inst, scr'.reason \in {scr.reason, 0, Len(calls) + 1}
  PROVE  ScreenInv'
<1>0. ScreenTypes /\ Existing /\ Reasons
  BY DEF ScreenInv
<1>1. ScreenTypes'
  BY <1>0 DEF ScreenTypes, Grows
<1>2. \A c \in DOMAIN calls : calls[c] \in Call
  BY <1>0, CallFields
<1>3. ASSUME NEW c \in DOMAIN calls PROVE Seen(calls[c])' /\ Stays(calls[c])'
  <2>. PICK k \in Call : k = calls[c] /\ k = calls'[c]
    BY <1>2
  <2>1. Seen(k) /\ Stays(k) /\ Same(k, k)
    BY DEF ScreenInv, Same
  <2>2. Seen(k)'
    BY <1>0, <2>1, SeenStays
  <2>3. Stays(k)'
    BY <2>1 DEF Stays
  <2>. QED BY <2>2, <2>3
<1>4. Existing'
  <2>1. scr'.inst \in Inst \cup {NoInst} /\ \A c \in DOMAIN calls : calls[c].inst \in Inst \cup {NoInst}
    BY <1>0, <1>2 DEF ScreenTypes, Screen, Call
  <2>. QED BY <1>0, <2>1, ExistingStays
<1>5. Reasons'
  <2>1. CASE scr'.reason \in {scr.reason, 0}
    BY <1>0, <2>1, ReasonsStay
  <2>2. CASE scr'.reason = Len(calls) + 1
    <3>1. Len(calls) \in Nat /\ DOMAIN calls = 1 .. Len(calls)
      BY <1>0, CallFields
    <3>2. scr'.reason <= Len(calls') + 1
      BY <2>2, <3>1
    <3>3. ASSUME NEW c \in DOMAIN calls, calls[c].kind = "reject" PROVE calls[c].reason \in 1 .. c /\ calls[c].reason # scr'.reason
      BY <1>0, <2>2, <3>1, <3>3 DEF Reasons
    <3>. QED BY <1>0, <3>2, <3>3 DEF Reasons
  <2>. QED BY <2>1, <2>2
<1>. QED BY <1>1, <1>2, <1>3, <1>4, <1>5 DEF ScreenInv

\* A change of the screen's own state.
LEMMA ShowKeeps ==
  ASSUME ScreenInv, NEW s \in Screen, Show(s), \E what : Use(what),
         s.inst = scr.inst, s.reason \in {scr.reason, 0, Len(calls) + 1}
  PROVE  ScreenInv'
<1>1. Grows
  BY RowsStay DEF Show, ScreenInv, ScreenTypes
<1>2. left' \in Sitting
  BY SittingGoesOn DEF ScreenInv, ScreenTypes
<1>. QED BY <1>1, <1>2, QuietKeeps DEF Show

\* Requests stay as they are, or move with the screen, which goes to transaction i or
\* stays: every fetch is kept, sent, or broken off.
LEMMA MovesKeep ==
  ASSUME ScreenInv, UNCHANGED <<rows, cache>>, left' \in Sitting,
         NEW i \in Inst \cup {NoInst}, i # NoInst => Exists(i),
         scr' \in Screen, scr'.inst = i, scr'.reason = scr.reason,
         broken \subseteq broken', broken' \subseteq Inst, fetch' \in [Inst -> Fetch],
         \A j \in Inst : \/ fetch'[j] = fetch[j]
                         \/ fetch'[j].st = "asked" /\ Exists(j)
                         \/ fetch'[j].st = "idle" /\ j \in broken',
         calls' \in Seq(Call), DOMAIN calls' = DOMAIN calls, Len(calls') = Len(calls),
         \A c \in DOMAIN calls :
           /\ Same(calls'[c], calls[c])
           /\ calls[c].kind # "execute" =>
                /\ calls'[c].st = calls[c].st /\ calls'[c].key \in {i, calls[c].key}
                /\ calls[c].st \in Waits /\ calls'[c].stayed => i = calls[c].inst
  PROVE  ScreenInv'
<1>0. ScreenTypes /\ Existing /\ Reasons
  BY DEF ScreenInv
<1>1. Grows
  BY <1>0, RowsStay DEF ScreenTypes
<1>2. ScreenTypes'
  BY <1>0, <1>1 DEF ScreenTypes, Grows
<1>3. \A c \in DOMAIN calls : calls[c] \in Call /\ calls'[c] \in Call
  BY <1>0, CallFields
<1>4. ASSUME NEW c \in DOMAIN calls PROVE Seen(calls[c])' /\ Stays(calls[c])'
  <2>. PICK k \in Call, l \in Call : k = calls[c] /\ l = calls'[c]
    BY <1>3
  <2>1. Seen(k) /\ Stays(k) /\ Same(l, k)
    BY DEF ScreenInv
  <2>2. Seen(l)'
    <3>1. CASE k.kind = "execute"
      BY <2>1, <3>1 DEF Seen, Same
    <3>2. CASE k.kind # "execute"
      <4>1. l.st = "done" => k.st = "done"
        BY <3>2
      <4>2. \A j \in Inst : fetch'[j] = fetch[j] \/ fetch'[j].st = "asked" \/ (fetch'[j].st = "idle" /\ j \in broken')
        OBVIOUS
      <4>. QED BY <1>0, <1>1, <2>1, <4>1, <4>2, SeenStays
    <3>. QED BY <3>1, <3>2
  <2>3. Stays(l)'
    BY <2>1 DEF Stays, Same
  <2>. QED BY <2>2, <2>3
<1>5. Existing'
  <2>1. i # NoInst => Exists(i)'
    BY DEF Exists
  <2>2. \A c \in DOMAIN calls' : calls'[c].inst = calls[c].inst /\ calls'[c].inst \in Inst \cup {NoInst}
    BY <1>3 DEF Same, Call
  <2>. QED BY <1>0, <1>1, <2>1, <2>2, ExistingStays
<1>6. Reasons'
  <2>1. \A c \in DOMAIN calls :
           /\ calls'[c].kind = calls[c].kind
           /\ calls[c].kind = "reject" =>
                calls'[c].reason = calls[c].reason /\ calls'[c].st = calls[c].st /\ calls'[c].live = calls[c].live
    BY DEF Same
  <2>2. \A c \in DOMAIN calls : calls[c].st \in Waits => calls[c].st \in Waits \cup {"failed"}
    OBVIOUS
  <2>. QED BY <1>0, <2>1, <2>2, ReasonsStay
<1>. QED BY <1>2, <1>4, <1>5, <1>6 DEF ScreenInv

\* A transaction that is shown is one, and has a copy.
LEMMA LiveIsCached ==
  ASSUME ScreenTypes, Live
  PROVE  scr.inst \in Inst /\ Cached(scr.inst) /\ Viewed \in 0 .. NNodes
<1>1. scr.inst \in Inst /\ Cached(scr.inst)
  BY DEF Live, View, ScreenTypes, Screen
<1>2. cache[scr.inst].node \in 0 .. NNodes
  BY <1>1, ServerAssumption DEF ScreenTypes, Row, Node
<1>. QED BY <1>1, <1>2 DEF Viewed, Shown, ScreenTypes, Screen

\* Buttons that change the screen alone.
LEMMA ShowsKeep ==
  ASSUME ScreenInv,
         \/ OpenBulk \/ CloseBulk \/ OpenRun \/ (\E n \in 0 .. NNodes : ViewStation(n))
         \/ StartReject \/ TypeReason \/ DropReject \/ OpenReversal \/ CloseReversal
         \/ ChooseWorkflow \/ ChooseProduct
  PROVE  ScreenInv'
<1>0. ScreenTypes /\ scr \in Screen /\ Len(calls) + 1 \in Nat
  BY CallFields DEF ScreenInv, ScreenTypes
<1>1. PICK s : Show(s) /\ (\E what : Use(what))
               /\ s \in Screen /\ s.inst = scr.inst /\ s.reason \in {scr.reason, 0, Len(calls) + 1}
  <2>1. CASE OpenBulk \/ CloseBulk \/ OpenRun
    <3>1. CASE OpenBulk
      <4> DEFINE s == [scr EXCEPT !.bulk = TRUE]
      <4>1. s \in Screen /\ s.inst = scr.inst /\ s.reason \in {scr.reason, 0, Len(calls) + 1}
        BY <1>0 DEF Screen
      <4>2. Show(s) /\ \E what : Use(what)
        BY <3>1 DEF OpenBulk
      <4> HIDE DEF s
      <4>. QED BY <4>1, <4>2
    <3>2. CASE CloseBulk
      <4> DEFINE s == [scr EXCEPT !.bulk = FALSE]
      <4>1. s \in Screen /\ s.inst = scr.inst /\ s.reason \in {scr.reason, 0, Len(calls) + 1}
        BY <1>0 DEF Screen
      <4>2. Show(s) /\ \E what : Use(what)
        BY <3>2 DEF CloseBulk, Click
      <4> HIDE DEF s
      <4>. QED BY <4>1, <4>2
    <3>3. CASE OpenRun
      <4> DEFINE s == [scr EXCEPT !.run = TRUE, !.step = "choosing", !.bulk = FALSE]
      <4>1. s \in Screen /\ s.inst = scr.inst /\ s.reason \in {scr.reason, 0, Len(calls) + 1}
        BY <1>0 DEF Screen
      <4>2. Show(s) /\ \E what : Use(what)
        BY <3>3 DEF OpenRun
      <4> HIDE DEF s
      <4>. QED BY <4>1, <4>2
    <3>. QED BY <2>1, <3>1, <3>2, <3>3
  <2>2. CASE \E n \in 0 .. NNodes : ViewStation(n)
    BY <1>0, <2>2 DEF ViewStation, Click, Screen
  <2>3. CASE StartReject \/ TypeReason \/ DropReject
    <3>1. CASE StartReject
      <4> DEFINE s == [scr EXCEPT !.rejecting = TRUE]
      <4>1. s \in Screen /\ s.inst = scr.inst /\ s.reason \in {scr.reason, 0, Len(calls) + 1}
        BY <1>0 DEF Screen
      <4>2. Show(s) /\ \E what : Use(what)
        BY <3>1 DEF StartReject, Click
      <4> HIDE DEF s
      <4>. QED BY <4>1, <4>2
    <3>2. CASE TypeReason
      BY <1>0, <3>2 DEF TypeReason, Click, Screen
    <3>3. CASE DropReject
      <4> DEFINE s == [scr EXCEPT !.rejecting = FALSE, !.reason = 0]
      <4>1. s \in Screen /\ s.inst = scr.inst /\ s.reason \in {scr.reason, 0, Len(calls) + 1}
        BY <1>0 DEF Screen
      <4>2. Show(s) /\ \E what : Use(what)
        BY <3>3 DEF DropReject, Click
      <4> HIDE DEF s
      <4>. QED BY <4>1, <4>2
    <3>. QED BY <2>3, <3>1, <3>2, <3>3
  <2>4. CASE OpenReversal
    <3>1. Viewed \in 0 .. NNodes
      BY <1>0, <2>4, LiveIsCached DEF OpenReversal
    <3>. QED BY <1>0, <2>4, <3>1 DEF OpenReversal, Click, Screen
  <2>5. CASE CloseReversal
    BY <1>0, <2>5, ServerAssumption DEF CloseReversal, Click, Screen
  <2>6. CASE ChooseWorkflow \/ ChooseProduct
    BY <1>0, <2>6 DEF ChooseWorkflow, ChooseProduct, Click, Screen
  <2>. QED BY <2>1, <2>2, <2>3, <2>4, <2>5, <2>6
<1>. QED BY <1>1, ShowKeeps

\* A decision or an execution is sent: the calls before it are as they were.
LEMMA CallSent ==
  ASSUME ScreenTypes, NEW k \in Call, NEW r, r = Append(calls, k)
  PROVE  /\ r \in Seq(Call) /\ Len(r) = Len(calls) + 1 /\ DOMAIN r = 1 .. Len(calls) + 1
         /\ r[Len(calls) + 1] = k /\ \A c \in DOMAIN calls : r[c] = calls[c]
BY CallFields DEF ScreenTypes

\* ... and is about the transaction that the screen shows a copy of; a rejection takes the
\* typed reason along when no other one is awaited.
LEMMA SendingKeeps ==
  ASSUME ScreenInv, UNCHANGED <<rows, cache, fetch, broken>>, left' \in Sitting, scr' \in Screen,
         scr'.inst = scr.inst, scr'.reason = scr.reason,
         NEW k \in Call, calls' = Append(calls, k), k.st = "sent",
         k.kind # "execute" => k.inst = scr.inst /\ k.key = scr.inst /\ scr.inst \in Inst /\ Cached(scr.inst) /\ k.ver = 0,
         k.kind = "execute" => k.inst = NoInst,
         k.kind = "reject" => k.reason = scr.reason /\ scr.reason # 0 /\ ~IsPending("reject") /\ k.live = "sender"
  PROVE  ScreenInv'
<1>0. ScreenTypes /\ Existing /\ Reasons /\ Grows
  BY RowsStay DEF ScreenInv, ScreenTypes
<1>. PICK n \in Nat : n = Len(calls)
  BY <1>0, CallFields
<1>1. DOMAIN calls = 1 .. n /\ \A c \in DOMAIN calls : calls[c] \in Call
  BY <1>0, CallFields
<1>2. /\ calls' \in Seq(Call) /\ Len(calls') = n + 1 /\ DOMAIN calls' = 1 .. n + 1
      /\ calls'[n + 1] = k /\ \A c \in 1 .. n : calls'[c] = calls[c]
  <2>. PICK r : r = calls'
    OBVIOUS
  <2>1. /\ r \in Seq(Call) /\ Len(r) = n + 1 /\ DOMAIN r = 1 .. n + 1
        /\ r[n + 1] = k /\ \A c \in DOMAIN calls : r[c] = calls[c]
    BY <1>0, CallSent
  <2>. QED BY <1>1, <2>1
<1>4. ScreenTypes'
  BY <1>0, <1>2 DEF ScreenTypes
<1>5. Existing'
  <2>1. scr'.inst \in Inst \cup {NoInst}
    BY DEF Screen
  <2>2. ASSUME NEW c \in DOMAIN calls', calls'[c].inst # NoInst
        PROVE  calls'[c].inst \in Inst /\ ((c \in DOMAIN calls /\ calls'[c].inst = calls[c].inst) \/ Exists(calls[c].inst)')
    <3>1. CASE c \in 1 .. n
      BY <1>1, <1>2, <2>2, <3>1 DEF Call
    <3>2. CASE c = n + 1
      <4>1. k.inst = scr.inst /\ scr.inst \in Inst
        BY <1>2, <2>2, <3>2
      <4>2. Exists(k.inst)'
        BY <1>0, <4>1, ScreenAssumption DEF Existing, Exists
      <4>3. calls'[c] = k
        BY <1>2, <3>2
      <4>4. Exists(calls[c].inst)'
        BY <4>2, <4>3
      <4>. QED BY <4>1, <4>3, <4>4
    <3>. QED BY <1>1, <1>2, <3>1, <3>2
  <2>. QED BY <1>0, <2>1, <2>2, ExistingStays
<1>6. ASSUME NEW c \in DOMAIN calls' PROVE Seen(calls[c])' /\ Stays(calls[c])'
  <2>1. CASE c \in 1 .. n
    <3>. PICK l \in Call : l = calls[c] /\ l = calls'[c]
      BY <1>1, <1>2, <2>1
    <3>1. Seen(l) /\ Stays(l) /\ Same(l, l)
      BY <1>1, <2>1 DEF ScreenInv, Same
    <3>2. Seen(l)'
      BY <1>0, <3>1, SeenStays
    <3>3. Stays(l)'
      BY <3>1 DEF Stays
    <3>. QED BY <3>2, <3>3
  <2>2. CASE c = n + 1
    <3>1. calls'[c] = k
      BY <1>2, <2>2
    <3>2. \A i \in Inst : rows[i].ver \in Nat
      BY <1>0 DEF ScreenTypes, Row
    <3>3. Seen(k)'
      BY <3>2 DEF Seen, Cached
    <3>4. Stays(k)'
      BY DEF Stays
    <3>. QED BY <3>1, <3>3, <3>4
  <2>. QED BY <1>1, <1>2, <2>1, <2>2
<1>7. Reasons'
  <2>0. scr.reason \in Nat /\ scr.reason <= n + 1
    BY <1>0 DEF Reasons, ScreenTypes, Screen
  <2>1. scr'.reason <= Len(calls') + 1
    BY <1>1, <1>2, <2>0
  <2>2. ASSUME k.kind = "reject", NEW c \in 1 .. n, calls[c].kind = "reject", calls[c].reason = k.reason
        PROVE  calls[c].st = "failed"
    BY <1>0, <1>1, <2>2 DEF Reasons, IsPending, Pending, Waits
  <2>3. ASSUME NEW c \in 1 .. n, calls[c].kind = "reject", calls[c].reason = scr'.reason
        PROVE  calls'[c].st = "failed" \/ (calls'[c].live = "sender" /\ calls'[c].st \in Waits /\ Latest(c)')
    <3>1. CASE k.kind = "reject"
      BY <1>2, <2>2, <2>3, <3>1
    <3>2. CASE k.kind # "reject"
      <4>1. Latest(c) => Latest(c)'
        BY <1>1, <1>2, <2>3, <3>2 DEF Latest
      <4>. QED BY <1>0, <1>1, <1>2, <2>3, <4>1 DEF Reasons
    <3>. QED BY <3>1, <3>2
  <2>4. ASSUME k.kind = "reject"
        PROVE  k.reason \in 1 .. n + 1 /\ Latest(n + 1)'
    <3>1. k.reason \in 1 .. n + 1
      BY <1>1, <2>0, <2>4
    <3>2. \A d \in DOMAIN calls' : ~(d > n + 1)
      BY <1>1, <1>2
    <3>3. Latest(n + 1)'
      BY <3>2 DEF Latest
    <3>. QED BY <3>1, <3>3
  <2>5. ASSUME NEW c \in DOMAIN calls', calls'[c].kind = "reject"
        PROVE  /\ calls'[c].reason \in 1 .. c
               /\ calls'[c].reason = scr'.reason =>
                    calls'[c].st = "failed" \/ (calls'[c].live = "sender" /\ calls'[c].st \in Waits /\ Latest(c)')
               /\ \A d \in DOMAIN calls' : c # d /\ calls'[d].kind = "reject" /\ calls'[c].reason = calls'[d].reason =>
                    calls'[c].st = "failed" \/ calls'[d].st = "failed"
    <3>1. CASE c \in 1 .. n
      <4>1. ASSUME NEW d \in DOMAIN calls', c # d, calls'[d].kind = "reject", calls'[c].reason = calls'[d].reason
            PROVE  calls'[c].st = "failed" \/ calls'[d].st = "failed"
        <5>1. CASE d \in 1 .. n
          BY <1>0, <1>1, <1>2, <2>5, <3>1, <4>1, <5>1 DEF Reasons
        <5>2. CASE d = n + 1
          BY <1>2, <2>2, <2>5, <3>1, <4>1, <5>2
        <5>. QED BY <1>2, <5>1, <5>2
      <4>2. calls'[c].reason \in 1 .. c
        BY <1>0, <1>1, <1>2, <2>5, <3>1 DEF Reasons
      <4>. QED BY <1>2, <2>3, <2>5, <3>1, <4>1, <4>2
    <3>2. CASE c = n + 1
      <4>1. ASSUME NEW d \in DOMAIN calls', c # d, calls'[d].kind = "reject", calls'[c].reason = calls'[d].reason
            PROVE  calls'[c].st = "failed" \/ calls'[d].st = "failed"
        <5>1. d \in 1 .. n
          BY <1>2, <3>2, <4>1
        <5>. QED BY <1>2, <2>2, <2>5, <3>2, <4>1, <5>1
      <4>2. Latest(c)'
        BY <1>2, <2>4, <2>5, <3>2
      <4>. QED BY <1>2, <2>4, <2>5, <3>2, <4>1, <4>2 DEF Waits
    <3>. QED BY <1>2, <3>1, <3>2
  <2>. QED BY <2>1, <2>5 DEF Reasons
<1>. QED BY <1>4, <1>5, <1>6, <1>7 DEF ScreenInv

\* Decisions.
LEMMA MutateKeeps ==
  ASSUME ScreenInv, NEW k \in Kind, NEW n \in 0 .. NNodes, NEW why \in Nat, Mutate(k, n, why), Live,
         k = "reject" => why = scr.reason /\ scr.reason # 0 /\ ~IsPending("reject")
  PROVE  ScreenInv'
<1>0. ScreenTypes
  BY DEF ScreenInv
<1>1. scr.inst \in Inst /\ Cached(scr.inst) /\ scr \in Screen
  BY <1>0, LiveIsCached DEF ScreenTypes
<1>. PICK x : x = [kind |-> k, inst |-> scr.inst, key |-> scr.inst, node |-> n, reason |-> why, st |-> "sent",
                   ver |-> 0, stayed |-> TRUE, live |-> "sender"]
  OBVIOUS
<1>2. /\ x \in Call /\ x.st = "sent" /\ x.kind = k /\ x.inst = scr.inst /\ x.key = scr.inst /\ x.ver = 0
      /\ x.reason = why /\ x.live = "sender" /\ k # "execute"
  BY <1>1 DEF Call, Kind
<1>3. calls' = Append(calls, x) /\ UNCHANGED <<rows, scr, cache, fetch, broken>> /\ \E what : Use(what)
  BY DEF Mutate
<1>4. left' \in Sitting
  BY <1>0, <1>3, SittingGoesOn DEF ScreenTypes
<1>. QED BY <1>1, <1>2, <1>3, <1>4, SendingKeeps

\* The bars, the form, the diagnostics and the drawer of a reversal.
LEMMA DecisionsKeep ==
  ASSUME ScreenInv,
         \/ Approve \/ ConfirmReject \/ SubmitForm \/ Retry \/ SendToRepair \/ SkipStep \/ CancelTransaction
         \/ SubmitReversal
  PROVE  ScreenInv'
<1>0. scr.reason \in Nat /\ 0 \in 0 .. NNodes /\ Node \subseteq 0 .. NNodes
  BY ServerAssumption DEF ScreenInv, ScreenTypes, Screen, Node
<1>1. CASE Approve \/ SubmitForm
  BY <1>0, <1>1, MutateKeeps DEF Approve, SubmitForm, CheckerBar, Kind
<1>2. CASE ConfirmReject
  BY <1>0, <1>2, MutateKeeps DEF ConfirmReject, CheckerBar, Kind
<1>3. CASE Retry \/ SendToRepair \/ SkipStep \/ CancelTransaction
  BY <1>0, <1>3, MutateKeeps DEF Retry, SendToRepair, SkipStep, CancelTransaction, FailureBar, Kind
<1>4. CASE SubmitReversal
  BY <1>0, <1>4, MutateKeeps DEF SubmitReversal, Kind
<1>. QED BY <1>1, <1>2, <1>3, <1>4

\* An execution.
LEMMA SubmitCaptureKeeps ==
  ASSUME ScreenInv, SubmitCapture
  PROVE  ScreenInv'
<1>0. ScreenTypes /\ scr \in Screen
  BY DEF ScreenInv, ScreenTypes
<1>. PICK x : x = [kind |-> "execute", inst |-> NoInst, key |-> NoInst, node |-> 0, reason |-> 0, st |-> "sent",
                   ver |-> 0, stayed |-> FALSE, live |-> "sender"]
  OBVIOUS
<1>1. x \in Call /\ x.st = "sent" /\ x.kind = "execute" /\ x.inst = NoInst
  BY ServerAssumption DEF Call
<1>2. calls' = Append(calls, x) /\ UNCHANGED <<rows, cache, fetch, broken>> /\ \E what : Use(what)
  BY DEF SubmitCapture, Click
<1>3. scr' \in Screen /\ scr'.inst = scr.inst /\ scr'.reason = scr.reason
  BY <1>0 DEF SubmitCapture, Screen
<1>4. left' \in Sitting
  BY <1>0, <1>2, SittingGoesOn DEF ScreenTypes
<1>. QED BY <1>1, <1>2, <1>3, <1>4, SendingKeeps

\* The screen goes to a transaction that exists, or to the worklist.
LEMMA GoToKeeps ==
  ASSUME ScreenInv, NEW i \in Inst \cup {NoInst}, i # NoInst => Exists(i), NEW s \in Screen, s.reason = scr.reason,
         GoTo(i, s), \E what : Use(what)
  PROVE  ScreenInv'
<1>0. ScreenTypes
  BY DEF ScreenInv
<1>1. left' \in Sitting
  BY <1>0, SittingGoesOn DEF ScreenTypes
<1> DEFINE moved == i # scr.inst
           kept == ~moved \/ (Live /\ i # NoInst /\ Cached(i) /\ i \notin broken)
<1>. PICK step : step = IF kept THEN s.step ELSE "choosing"
  OBVIOUS
<1>2. /\ scr' = [s EXCEPT !.inst = i, !.station = IF moved THEN 0 ELSE @, !.step = step]
      /\ fetch' = IF i # NoInst /\ moved /\ fetch[i].st = "idle" THEN [fetch EXCEPT ![i].st = "asked"] ELSE fetch
      /\ calls' = Rekeyed(i, step) /\ UNCHANGED <<rows, cache, broken>>
  BY DEF GoTo
<1>3. scr' \in Screen /\ scr'.inst = i /\ scr'.reason = scr.reason
  <2>1. step \in {"choosing", "form", "running", "error"} /\ 0 \in 0 .. NNodes
    BY ServerAssumption DEF Screen
  <2>. PICK st \in 0 .. NNodes : st = IF moved THEN 0 ELSE s.station
    BY <2>1 DEF Screen
  <2>2. scr' = [s EXCEPT !.inst = i, !.station = st, !.step = step]
    BY <1>2
  <2>. QED BY <2>1, <2>2 DEF Screen
<1>4. fetch' \in [Inst -> Fetch] /\ \A j \in Inst : fetch'[j] = fetch[j] \/ (fetch'[j].st = "asked" /\ Exists(j))
  <2>1. CASE i # NoInst /\ moved /\ fetch[i].st = "idle"
    <3>1. fetch' = [fetch EXCEPT ![i] = [fetch[i] EXCEPT !.st = "asked"]] /\ i \in Inst /\ fetch[i] \in Fetch
      BY <1>0, <1>2, <2>1 DEF ScreenTypes
    <3>2. [fetch[i] EXCEPT !.st = "asked"] \in Fetch /\ [fetch[i] EXCEPT !.st = "asked"].st = "asked"
      BY <3>1 DEF Fetch
    <3>. QED BY <1>0, <2>1, <3>1, <3>2 DEF ScreenTypes
  <2>2. CASE ~(i # NoInst /\ moved /\ fetch[i].st = "idle")
    BY <1>0, <1>2, <2>2 DEF ScreenTypes
  <2>. QED BY <2>1, <2>2
<1> HIDE DEF moved, kept
<1>5. /\ calls' \in Seq(Call) /\ DOMAIN calls' = DOMAIN calls /\ Len(calls') = Len(calls)
      /\ \A c \in DOMAIN calls :
           /\ Same(calls'[c], calls[c]) /\ calls'[c].st = calls[c].st /\ calls'[c].key \in {i, calls[c].key}
           /\ calls[c].st \in Waits /\ calls'[c].stayed => i = calls[c].inst
  BY <1>0, <1>2, CallsRekeyed
<1>6. broken \subseteq Inst
  BY <1>0 DEF ScreenTypes
<1>. QED BY <1>1, <1>2, <1>3, <1>4, <1>5, <1>6, MovesKeep

\* The worklist, the picker and the search panel.
LEMMA NavigationKeeps ==
  ASSUME ScreenInv,
         \/ \E i \in Inst : OpenFromWorklist(i) \/ OpenFromPicker(i) \/ OpenFromSearch(i)
         \/ BackToWorklist
  PROVE  ScreenInv'
<1>0. scr \in Screen
  BY DEF ScreenInv, ScreenTypes
<1>1. /\ [scr EXCEPT !.bulk = FALSE] \in Screen /\ [scr EXCEPT !.bulk = FALSE].reason = scr.reason
  BY <1>0 DEF Screen
<1>2. ASSUME NEW i \in Inst, OpenFromWorklist(i) PROVE ScreenInv'
  BY <1>0, <1>2, GoToKeeps DEF OpenFromWorklist, Click
<1>3. ASSUME NEW i \in Inst, OpenFromPicker(i) \/ OpenFromSearch(i) PROVE ScreenInv'
  BY <1>1, <1>3, GoToKeeps DEF OpenFromPicker, OpenFromSearch, Click
<1>4. CASE BackToWorklist
  BY <1>0, <1>4, GoToKeeps DEF BackToWorklist, Click
<1>. QED BY <1>2, <1>3, <1>4

\* The wizard is closed.
LEMMA CloseRunKeeps ==
  ASSUME ScreenInv, CloseRun
  PROVE  ScreenInv'
<1>0. ScreenTypes /\ scr \in Screen /\ broken \subseteq Inst /\ fetch \in [Inst -> Fetch] /\ scr.inst \in Inst \cup {NoInst}
  BY DEF ScreenInv, ScreenTypes, Screen
<1>1. calls' = Rekeyed(scr.inst, "choosing") /\ UNCHANGED <<rows, cache, fetch, broken>> /\ \E what : Use(what)
  BY DEF CloseRun, Click
<1>2. scr' \in Screen /\ scr'.inst = scr.inst /\ scr'.reason = scr.reason
  BY <1>0 DEF CloseRun, Screen
<1>3. left' \in Sitting
  BY <1>0, <1>1, SittingGoesOn DEF ScreenTypes
<1>4. /\ calls' \in Seq(Call) /\ DOMAIN calls' = DOMAIN calls /\ Len(calls') = Len(calls)
      /\ \A c \in DOMAIN calls :
           /\ Same(calls'[c], calls[c]) /\ calls'[c].st = calls[c].st /\ calls'[c].key \in {scr.inst, calls[c].key}
           /\ calls[c].st \in Waits /\ calls'[c].stayed => scr.inst = calls[c].inst
  BY <1>0, <1>1, CallsRekeyed
<1>5. scr.inst # NoInst => Exists(scr.inst)
  BY DEF ScreenInv, Existing
<1>. QED BY <1>0, <1>1, <1>2, <1>3, <1>4, <1>5, MovesKeep

\* Another module is opened: the answers on their way find no screen.
LEMMA ReturnKeeps ==
  ASSUME ScreenInv, Return
  PROVE  ScreenInv'
<1>0. ScreenTypes /\ Existing /\ Reasons /\ Grows
  BY RowsStay DEF ScreenInv, Return, ScreenTypes
<1>1. Len(calls) \in Nat /\ DOMAIN calls = 1 .. Len(calls) /\ \A c \in DOMAIN calls : calls[c] \in Call
  BY <1>0, CallFields
<1>2. scr' = Blank /\ UNCHANGED <<rows, cache, fetch, broken>> /\ \E what : Use(what)
  BY DEF Return, Click
<1>3. DOMAIN calls' = 1 .. Len(calls)
  BY <1>1 DEF Return
<1>4. ASSUME NEW c \in DOMAIN calls
      PROVE  /\ calls'[c] \in Call /\ calls'[c].st = calls[c].st /\ calls'[c].kind = calls[c].kind
             /\ calls'[c].inst = calls[c].inst /\ calls'[c].ver = calls[c].ver /\ calls'[c].reason = calls[c].reason
             /\ calls'[c].stayed => calls[c].stayed /\ calls[c].st \notin Waits
  <2>. PICK k \in Call : k = calls[c]
    BY <1>1
  <2>. PICK y \in BOOLEAN : y = (k.stayed /\ ~Pending(c))
    OBVIOUS
  <2>1. calls'[c] = [k EXCEPT !.live = "none", !.stayed = y]
    BY DEF Return
  <2>. QED BY <2>1 DEF Call, Pending, Waits
<1>5. calls' \in [1 .. Len(calls) -> Call]
  <2>1. calls' = [c \in DOMAIN calls |-> [calls[c] EXCEPT !.live = "none", !.stayed = @ /\ ~Pending(c)]]
    BY DEF Return
  <2>2. \A c \in DOMAIN calls : calls'[c] \in Call
    BY <1>4
  <2>. QED BY <1>1, <2>1, <2>2
<1>6. calls' \in Seq(Call) /\ Len(calls') = Len(calls)
  <2>. PICK r \in [1 .. Len(calls) -> Call] : r = calls'
    BY <1>5
  <2>1. r \in Seq(Call)
    BY <1>1
  <2>2. Len(r) = Len(calls)
    BY <1>1, <2>1
  <2>. QED BY <2>1, <2>2
<1>7. left' \in Sitting
  BY <1>0, <1>2, SittingGoesOn DEF ScreenTypes
<1>8. ScreenTypes'
  BY <1>0, <1>2, <1>6, <1>7, BlankTypes DEF ScreenTypes
<1>9. ASSUME NEW c \in DOMAIN calls' PROVE Seen(calls[c])' /\ Stays(calls[c])'
  <2>1. c \in DOMAIN calls
    BY <1>1, <1>3
  <2>. PICK k \in Call, l \in Call : k = calls[c] /\ l = calls'[c]
    BY <1>1, <1>4, <2>1
  <2>2. Seen(k)
    BY <2>1 DEF ScreenInv
  <2>3. l.st = k.st /\ l.kind = k.kind /\ l.inst = k.inst /\ l.ver = k.ver /\ l.reason = k.reason
        /\ (l.stayed => k.stayed /\ k.st \notin Waits)
    BY <1>4, <2>1
  <2>. PICK m : m = [l EXCEPT !.live = k.live]
    OBVIOUS
  <2>4. Same(m, k) /\ m.st = k.st /\ m.kind = l.kind /\ m.inst = l.inst /\ m.ver = l.ver /\ m.stayed = l.stayed /\ m.st = l.st
    BY <2>3 DEF Same, Call
  <2>5. Seen(m)'
    BY <1>0, <1>2, <2>2, <2>4, SeenStays
  <2>6. Seen(l)'
    BY <2>4, <2>5 DEF Seen
  <2>7. Stays(l)'
    BY <2>3 DEF Stays
  <2>. QED BY <2>6, <2>7
<1>10. scr'.inst = NoInst /\ scr'.reason = 0
  BY <1>2 DEF Blank
<1>11. Existing'
  <2>1. \A c \in DOMAIN calls' : c \in DOMAIN calls /\ calls'[c].inst = calls[c].inst /\ calls[c].inst \in Inst \cup {NoInst}
    BY <1>1, <1>3, <1>4 DEF Call
  <2>. QED BY <1>0, <1>2, <1>10, <2>1, ExistingStays
<1>12. Reasons'
  <2>1. \A c \in DOMAIN calls : calls[c].kind = "reject" => calls[c].reason # 0
    BY <1>1, <1>0 DEF Reasons
  <2>2. \A c \in DOMAIN calls : calls[c].st \in Waits => calls[c].st \in Waits \cup {"failed"}
    OBVIOUS
  <2>. QED BY <1>0, <1>1, <1>3, <1>4, <1>6, <1>10, <2>1, <2>2, ReasonsStay
<1>. QED BY <1>8, <1>9, <1>11, <1>12 DEF ScreenInv

(***************************************************************************)
(* The bulk panel                                                          *)
(***************************************************************************)
\* A run that a panel waits for.
Waited(r) == r.watched /\ ~r.over

\* A panel waits for one run, shows its results, and cannot be used before it ends.
BulkInv ==
  /\ bulk \in Panel /\ runs \in Seq(Run) /\ Len(runs) <= MaxRuns
  /\ \A l \in DOMAIN runs : runs[l].at = {} \/ \E i \in Inst : runs[l].at = {i}
  /\ ~bulk.results => bulk.selected \subseteq bulk.listed
  /\ \A l \in DOMAIN runs : Waited(runs[l]) => bulk.open /\ bulk.results /\ bulk.running
  /\ \A l, m \in DOMAIN runs : Waited(runs[l]) /\ Waited(runs[m]) => l = m

\* It contains what the panel and its runs are.
LEMMA BulkInvSuffices == BulkInv => BulkTypeOK
<1>. SUFFICES ASSUME BulkInv PROVE BulkTypeOK
  OBVIOUS
<1>1. ASSUME NEW l \in DOMAIN runs PROVE Cardinality(runs[l].at) <= 1
  <2>1. CASE runs[l].at = {}
    BY <2>1, FS_EmptySet
  <2>2. ASSUME NEW i \in Inst, runs[l].at = {i} PROVE Cardinality(runs[l].at) <= 1
    BY <2>2, FS_Singleton
  <2>. QED BY <2>1, <2>2 DEF BulkInv
<1>. QED BY <1>1 DEF BulkInv, BulkTypeOK

\* A panel that is closed.
LEMMA PanelIsClosed == ClosedPanel \in Panel /\ ~ClosedPanel.open /\ ~ClosedPanel.results /\ ClosedPanel.selected = {}
BY DEF ClosedPanel, Panel, Eligible, BulkAction

\* It holds when the browser is opened.
LEMMA BulkInvInit == BulkInit => BulkInv
<1>. SUFFICES ASSUME BulkInit PROVE BulkInv
  OBVIOUS
<1>1. runs \in Seq(Run) /\ DOMAIN runs = {} /\ Len(runs) = 0
  BY DEF BulkInit
<1>. QED BY <1>1, PanelIsClosed, BulkAssumption DEF BulkInit, BulkInv

\* The runs are a sequence of runs.
LEMMA RunsAreSeq ==
  ASSUME runs \in Seq(Run)
  PROVE  Len(runs) \in Nat /\ DOMAIN runs = 1 .. Len(runs) /\ \A l \in DOMAIN runs : runs[l] \in Run
OBVIOUS

\* Runs that are written anew, each for itself.
LEMMA RunsWritten ==
  ASSUME runs \in Seq(Run), NEW r, DOMAIN r = DOMAIN runs, \A l \in DOMAIN runs : r[l] \in Run,
         r = [l \in DOMAIN r |-> r[l]]
  PROVE  r \in Seq(Run) /\ Len(r) = Len(runs)
<1>1. r \in [1 .. Len(runs) -> Run] /\ Len(runs) \in Nat
  BY RunsAreSeq
<1>2. r \in Seq(Run)
  BY <1>1
<1>. QED BY <1>1, <1>2

\* The panel follows the screen: when it goes, its run goes on without it.
LEMMA FollowKeeps ==
  ASSUME BulkInv, Follow
  PROVE  BulkInv'
<1>0. runs \in Seq(Run) /\ bulk \in Panel /\ \A l \in DOMAIN runs : runs[l] \in Run
  BY RunsAreSeq DEF BulkInv
<1>1. CASE bulk.open /\ ~BulkShown'
  <2>1. bulk' = ClosedPanel /\ runs' = [l \in DOMAIN runs |-> [runs[l] EXCEPT !.watched = FALSE]]
    BY <1>1 DEF Follow
  <2>2. \A l \in DOMAIN runs : /\ runs'[l] \in Run /\ ~runs'[l].watched /\ runs'[l].at = runs[l].at
    BY <1>0, <2>1 DEF Run
  <2>3. runs' \in Seq(Run) /\ Len(runs') = Len(runs) /\ DOMAIN runs' = DOMAIN runs
    <3>. PICK r : r = runs'
      OBVIOUS
    <3>1. DOMAIN r = DOMAIN runs /\ r = [l \in DOMAIN r |-> r[l]]
      BY <2>1
    <3>. QED BY <1>0, <2>2, <3>1, RunsWritten
  <2>4. \A l \in DOMAIN runs : ~Waited(runs'[l])
    BY <2>2 DEF Waited
  <2>5. bulk' \in Panel /\ bulk'.selected = {}
    BY <2>1, PanelIsClosed
  <2>6. \A l \in DOMAIN runs' : runs'[l].at = {} \/ \E i \in Inst : runs'[l].at = {i}
    BY <2>2, <2>3 DEF BulkInv
  <2>7. Len(runs') <= MaxRuns /\ \A l \in DOMAIN runs' : ~Waited(runs'[l])
    BY <2>3, <2>4 DEF BulkInv
  <2>. QED BY <2>3, <2>5, <2>6, <2>7 DEF BulkInv, Waited
<1>2. CASE bulk.open /\ BulkShown'
  BY <1>2 DEF Follow, BulkInv, Waited
<1>3. CASE ~bulk.open
  <2>1. runs' = runs /\ bulk' \in {ClosedPanel, [ClosedPanel EXCEPT !.open = TRUE]}
    BY <1>3 DEF Follow
  <2>2. bulk' \in Panel /\ bulk'.selected = {}
    BY <2>1, PanelIsClosed DEF Panel
  <2>. QED BY <1>3, <2>1, <2>2 DEF BulkInv, Waited
<1>. QED BY <1>1, <1>2, <1>3

\* What users do in the panel.
LEMMA PanelStepKeeps ==
  ASSUME BulkInv, PanelStep
  PROVE  BulkInv'
<1>0. runs \in Seq(Run) /\ bulk \in Panel /\ Len(runs) \in Nat /\ DOMAIN runs = 1 .. Len(runs)
      /\ \A l \in DOMAIN runs : runs[l] \in Run
  BY RunsAreSeq DEF BulkInv
<1>1. ASSUME NEW st \in Eligible, ShowStatus(st) PROVE BulkInv'
  <2>1. Listed(st) \subseteq Inst
    BY DEF Listed
  <2>2. bulk' \in Panel /\ bulk'.selected = {} /\ ~bulk.results /\ runs' = runs
    BY <1>0, <1>1, <2>1 DEF ShowStatus, Panel
  <2>. QED BY <2>2 DEF BulkInv
<1>2. ASSUME NEW a \in BulkAction, PickAction(a) PROVE BulkInv'
  <2>1. bulk' \in Panel /\ bulk'.selected = bulk.selected /\ bulk'.listed = bulk.listed /\ ~bulk.results /\ runs' = runs
    BY <1>0, <1>2 DEF PickAction, Panel
  <2>. QED BY <2>1 DEF BulkInv
<1>3. CASE Tick
  <2>1. PICK s \in {Toggled(i) : i \in bulk.listed} \cup {AllToggled} : bulk' = [bulk EXCEPT !.selected = s]
    BY <1>3 DEF Tick
  <2>2. ~bulk.results /\ runs' = runs /\ bulk.selected \subseteq bulk.listed /\ bulk.listed \subseteq Inst
    BY <1>0, <1>3 DEF Tick, BulkInv, Panel
  <2>3. s \subseteq bulk.listed
    BY <2>2 DEF Toggled, AllToggled
  <2>4. bulk' \in Panel /\ bulk'.selected \subseteq bulk'.listed
    BY <1>0, <2>1, <2>2, <2>3 DEF Panel
  <2>. QED BY <2>2, <2>4 DEF BulkInv
<1>4. CASE HandleRun
  <2>. PICK n \in Nat : n = Len(runs)
    BY <1>0
  <2>. PICK r : r = [todo |-> bulk.selected, act |-> bulk.act, at |-> {}, leg |-> "there", good |-> {}, bad |-> {},
                     watched |-> TRUE, over |-> FALSE]
    OBVIOUS
  <2>1. r \in Run /\ r.at = {}
    BY <1>0 DEF Run, Panel
  <2>2. runs' = Append(runs, r) /\ n < MaxRuns /\ ~bulk.running /\ bulk.open
        /\ bulk' = [bulk EXCEPT !.results = TRUE, !.running = TRUE]
    BY <1>4 DEF HandleRun, RunOffered
  <2>3. runs' \in Seq(Run) /\ Len(runs') = n + 1 /\ DOMAIN runs' = 1 .. n + 1 /\ runs'[n + 1] = r
        /\ \A l \in 1 .. n : runs'[l] = runs[l]
    BY <1>0, <2>1, <2>2
  <2>4. bulk' \in Panel /\ bulk'.open /\ bulk'.results /\ bulk'.running
    BY <1>0, <2>2 DEF Panel
  <2>5. \A l \in 1 .. n : ~Waited(runs[l])
    BY <1>0, <2>2 DEF BulkInv
  <2>6. \A l \in DOMAIN runs' : Waited(runs'[l]) => l = n + 1
    BY <2>3, <2>5
  <2>7. \A l \in DOMAIN runs' : runs'[l].at = {} \/ \E i \in Inst : runs'[l].at = {i}
    BY <1>0, <2>1, <2>3 DEF BulkInv
  <2>8. Len(runs') <= MaxRuns
    BY <2>2, <2>3, BulkAssumption
  <2>. QED BY <2>3, <2>4, <2>6, <2>7, <2>8 DEF BulkInv, Waited
<1>5. CASE StartOver
  <2>1. bulk' \in Panel /\ bulk'.selected = {} /\ ~bulk.running /\ runs' = runs
    BY <1>0, <1>5 DEF StartOver, Panel
  <2>. QED BY <2>1 DEF BulkInv
<1>. QED BY <1>1, <1>2, <1>3, <1>4, <1>5 DEF PanelStep

\* One run goes on, or ends: then its panel, if it is still there, can be used again.
LEMMA LoopStepKeeps ==
  ASSUME BulkInv, NEW l \in DOMAIN runs, LoopStep(l)
  PROVE  BulkInv'
<1>0. runs \in Seq(Run) /\ bulk \in Panel /\ \A m \in DOMAIN runs : runs[m] \in Run
  BY RunsAreSeq DEF BulkInv
<1>1. ASSUME NEW r \in Run, runs' = [runs EXCEPT ![l] = r], r.at = {} \/ \E i \in Inst : r.at = {i},
             Waited(r) => Waited(runs[l]), bulk' = bulk
      PROVE  BulkInv'
  <2>1. DOMAIN runs' = DOMAIN runs /\ runs'[l] = r /\ \A m \in DOMAIN runs : m # l => runs'[m] = runs[m]
    BY <1>1
  <2>2. runs' \in Seq(Run) /\ Len(runs') = Len(runs)
    <3>. PICK q : q = runs'
      OBVIOUS
    <3>1. DOMAIN q = DOMAIN runs /\ q = [m \in DOMAIN q |-> q[m]]
      BY <1>1
    <3>2. \A m \in DOMAIN runs : q[m] \in Run
      BY <1>0, <2>1
    <3>. QED BY <1>0, <3>1, <3>2, RunsWritten
  <2>3. \A m \in DOMAIN runs : Waited(runs'[m]) => Waited(runs[m])
    BY <1>1, <2>1
  <2>4. \A m \in DOMAIN runs : runs'[m].at = {} \/ \E i \in Inst : runs'[m].at = {i}
    BY <1>1, <2>1 DEF BulkInv
  <2>5. bulk' \in Panel /\ Len(runs') <= MaxRuns /\ (~bulk'.results => bulk'.selected \subseteq bulk'.listed)
    BY <1>1, <2>2 DEF BulkInv
  <2>6. \A m \in DOMAIN runs' : Waited(runs'[m]) => bulk'.open /\ bulk'.results /\ bulk'.running
    BY <1>1, <2>1, <2>3 DEF BulkInv
  <2>7. \A m, n \in DOMAIN runs' : Waited(runs'[m]) /\ Waited(runs'[n]) => m = n
    BY <2>1, <2>3 DEF BulkInv
  <2>. QED BY <2>1, <2>2, <2>4, <2>5, <2>6, <2>7 DEF BulkInv, Waited
<1>2. CASE LoopNext(l)
  <2>1. PICK i \in runs[l].todo : runs' = [runs EXCEPT ![l] = [runs[l] EXCEPT !.todo = @ \ {i}, !.at = {i}, !.leg = "there"]]
    BY <1>2 DEF LoopNext
  <2> DEFINE r == [runs[l] EXCEPT !.todo = @ \ {i}, !.at = {i}, !.leg = "there"]
  <2>2. i \in Inst /\ r \in Run /\ r.at = {i} /\ (Waited(r) => Waited(runs[l]))
    BY <1>0 DEF Run, Waited
  <2>3. runs' = [runs EXCEPT ![l] = r] /\ bulk' = bulk
    BY <1>2, <2>1 DEF LoopNext
  <2> HIDE DEF r
  <2>. QED BY <1>1, <2>2, <2>3
<1>3. CASE LoopServed(l)
  <2>1. PICK leg \in {"ok", "bad"} : runs' = [runs EXCEPT ![l] = [runs[l] EXCEPT !.leg = leg]]
    BY <1>0, <1>3 DEF LoopServed
  <2> DEFINE r == [runs[l] EXCEPT !.leg = leg]
  <2>2. r \in Run /\ r.at = runs[l].at /\ (Waited(r) => Waited(runs[l]))
    BY <1>0 DEF Run, Waited
  <2>3. r.at = {} \/ \E i \in Inst : r.at = {i}
    BY <2>2 DEF BulkInv
  <2>4. runs' = [runs EXCEPT ![l] = r] /\ bulk' = bulk
    BY <1>3, <2>1 DEF LoopServed
  <2> HIDE DEF r
  <2>. QED BY <1>1, <2>2, <2>3, <2>4
<1>4. CASE LoopAnswered(l)
  <2> DEFINE r == IF runs[l].leg = "ok" THEN [runs[l] EXCEPT !.good = @ \cup runs[l].at, !.at = {}]
                  ELSE [runs[l] EXCEPT !.bad = @ \cup runs[l].at, !.at = {}]
  <2>1. r \in Run /\ r.at = {} /\ (Waited(r) => Waited(runs[l]))
    BY <1>0 DEF Run, Waited
  <2>2. runs' = [runs EXCEPT ![l] = r] /\ bulk' = bulk
    BY <1>4 DEF LoopAnswered
  <2> HIDE DEF r
  <2>. QED BY <1>1, <2>1, <2>2
<1>5. CASE LoopEnds(l)
  <2> DEFINE r == [runs[l] EXCEPT !.over = TRUE]
  <2>1. r \in Run /\ r.at = {} /\ ~Waited(r)
    BY <1>0, <1>5 DEF Run, Waited, LoopEnds
  <2>2. runs' = [runs EXCEPT ![l] = r] /\ runs[l].at = {} /\ ~runs[l].over
    BY <1>5 DEF LoopEnds
  <2> HIDE DEF r
  <2>3. CASE ~runs[l].watched
    BY <1>1, <1>5, <2>1, <2>2, <2>3 DEF LoopEnds
  <2>4. CASE runs[l].watched
    <3>1. Waited(runs[l])
      BY <2>2, <2>4 DEF Waited
    <3>2. Listed(bulk.filter) \subseteq Inst
      BY DEF Listed
    <3>3. bulk' \in Panel /\ bulk'.results
      BY <1>0, <1>5, <2>4, <3>1, <3>2 DEF LoopEnds, Panel, BulkInv
    <3>4. DOMAIN runs' = DOMAIN runs /\ runs'[l] = r /\ \A m \in DOMAIN runs : m # l => runs'[m] = runs[m]
      BY <2>2
    <3>5. runs' \in Seq(Run) /\ Len(runs') = Len(runs)
      <4>. PICK q : q = runs'
        OBVIOUS
      <4>1. DOMAIN q = DOMAIN runs /\ q = [m \in DOMAIN q |-> q[m]]
        BY <2>2
      <4>2. \A m \in DOMAIN runs : q[m] \in Run
        BY <1>0, <2>1, <3>4
      <4>. QED BY <1>0, <4>1, <4>2, RunsWritten
    <3>6. \A m \in DOMAIN runs' : ~Waited(runs'[m])
      BY <2>1, <3>1, <3>4 DEF BulkInv
    <3>7. \A m \in DOMAIN runs : runs'[m].at = {} \/ \E i \in Inst : runs'[m].at = {i}
      BY <2>1, <3>4 DEF BulkInv
    <3>. QED BY <3>3, <3>4, <3>5, <3>6, <3>7 DEF BulkInv, Waited
  <2>. QED BY <2>3, <2>4
<1>. QED BY <1>2, <1>3, <1>4, <1>5 DEF LoopStep

(***************************************************************************)
(* What the network does                                                   *)
(***************************************************************************)
\* The poll asks again.
LEMMA PollKeeps ==
  ASSUME ScreenInv, Poll
  PROVE  ScreenInv'
<1>0. ScreenTypes /\ Existing /\ Reasons
  BY DEF ScreenInv
<1>1. scr.inst \in Inst /\ Exists(scr.inst)
  <2>1. scr.inst # NoInst
    BY DEF Poll, View
  <2>. QED BY <1>0, <2>1 DEF ScreenTypes, Screen, Existing
<1>. PICK i \in Inst : i = scr.inst
  BY <1>1
<1>2. fetch' = [fetch EXCEPT ![i] = [fetch[i] EXCEPT !.st = "asked"]] /\ fetch[i] \in Fetch
      /\ UNCHANGED <<rows, scr, cache, broken, calls, left>>
  BY <1>0 DEF Poll, ScreenTypes
<1>3. [fetch[i] EXCEPT !.st = "asked"] \in Fetch /\ [fetch[i] EXCEPT !.st = "asked"].st = "asked"
  BY <1>2 DEF Fetch
<1>4. fetch' \in [Inst -> Fetch] /\ \A j \in Inst : fetch'[j] = fetch[j] \/ (fetch'[j].st = "asked" /\ Exists(j))
  BY <1>0, <1>1, <1>2, <1>3 DEF ScreenTypes
<1>5. i \in Inst \cup {NoInst} /\ Exists(i) /\ scr' \in Screen /\ scr'.inst = i /\ scr'.reason = scr.reason
      /\ broken' \subseteq Inst /\ calls' \in Seq(Call) /\ DOMAIN calls' = DOMAIN calls /\ Len(calls') = Len(calls)
      /\ left' \in Sitting
  BY <1>0, <1>1, <1>2 DEF ScreenTypes
<1>6. ASSUME NEW c \in DOMAIN calls
      PROVE  /\ Same(calls'[c], calls[c]) /\ calls'[c].st = calls[c].st /\ calls'[c].key \in {i, calls[c].key}
             /\ calls[c].kind # "execute" /\ calls[c].st \in Waits /\ calls'[c].stayed => i = calls[c].inst
  <2>1. calls'[c] = calls[c] /\ Stays(calls[c])
    BY <1>2 DEF ScreenInv
  <2>. QED BY <2>1 DEF Same, Stays
<1>. QED BY <1>2, <1>4, <1>5, <1>6, MovesKeep

\* The server reads a row: at least as late as every decision that was answered.
LEMMA FetchReadKeeps ==
  ASSUME ScreenInv, NEW i \in Inst, FetchRead(i)
  PROVE  ScreenInv'
<1>0. ScreenTypes /\ Existing /\ Reasons
  BY DEF ScreenInv
<1>. PICK f \in Fetch : f = [st |-> "read", row |-> rows[i]]
  BY <1>0 DEF ScreenTypes, Fetch
<1>1. /\ fetch' = [fetch EXCEPT ![i] = f] /\ fetch[i].st = "asked" /\ f.st = "read" /\ f.row = rows[i]
      /\ UNCHANGED <<rows, scr, cache, broken, calls, left>>
  BY DEF FetchRead
<1>2. ScreenTypes' /\ fetch'[i] = f /\ \A j \in Inst : j # i => fetch'[j] = fetch[j]
  BY <1>0, <1>1 DEF ScreenTypes
<1>3. Existing'
  <2>1. Exists(i) /\ rows[i].ver \in Nat
    BY <1>0, <1>1 DEF Existing, ScreenTypes, Row
  <2>2. ASSUME NEW j \in Inst
        PROVE  /\ fetch'[j].st # "idle" => Exists(j)'
               /\ fetch'[j].st = "read" => fetch'[j].row.status # "ABSENT" /\ fetch'[j].row.ver <= rows'[j].ver
               /\ cache'[j].ver <= rows'[j].ver
    <3>1. CASE j = i
      BY <1>0, <1>1, <1>2, <2>1, <3>1 DEF Existing, Exists
    <3>2. CASE j # i
      BY <1>0, <1>1, <1>2, <3>2 DEF Existing, Exists
    <3>. QED BY <3>1, <3>2
  <2>. QED BY <1>0, <1>1, <2>2 DEF Existing, Exists
<1>4. ASSUME NEW c \in DOMAIN calls PROVE Seen(calls[c])' /\ Stays(calls[c])'
  <2>. PICK k \in Call : k = calls[c] /\ k = calls'[c]
    BY <1>0, <1>1, CallFields
  <2>1. Seen(k) /\ Stays(k)
    BY DEF ScreenInv
  <2>2. Seen(k)'
    <3>1. CASE k.inst = i
      BY <1>1, <1>2, <2>1, <3>1 DEF Seen, Cached
    <3>2. CASE k.inst # i
      BY <1>1, <1>2, <2>1, <3>2 DEF Seen, Cached
    <3>. QED BY <3>1, <3>2
  <2>3. Stays(k)'
    BY <1>1, <2>1 DEF Stays
  <2>. QED BY <2>2, <2>3
<1>5. Reasons'
  BY <1>0, <1>1 DEF Reasons, Latest
<1>. QED BY <1>1, <1>2, <1>3, <1>4, <1>5 DEF ScreenInv

\* A copy arrives: whatever is on its way was read late enough.
LEMMA FetchArrivesKeeps ==
  ASSUME ScreenInv, NEW i \in Inst, FetchArrives(i)
  PROVE  ScreenInv'
<1>0. ScreenTypes /\ Existing /\ Reasons
  BY DEF ScreenInv
<1>. PICK f \in Fetch : f = [st |-> "idle", row |-> Unread]
  BY BlankTypes DEF Fetch
<1>. PICK r \in Row : r = fetch[i].row
  BY <1>0 DEF ScreenTypes, Fetch
<1>1. /\ fetch' = [fetch EXCEPT ![i] = f] /\ fetch[i].st = "read" /\ f.st = "idle"
      /\ cache' = [cache EXCEPT ![i] = r] /\ broken' = broken \ {i}
      /\ UNCHANGED <<rows, scr, calls, left>>
  BY DEF FetchArrives
<1>2. /\ ScreenTypes' /\ fetch'[i] = f /\ \A j \in Inst : j # i => fetch'[j] = fetch[j]
      /\ cache'[i] = r /\ \A j \in Inst : j # i => cache'[j] = cache[j]
  BY <1>0, <1>1 DEF ScreenTypes
<1>3. r.status # "ABSENT" /\ r.ver <= rows[i].ver
  BY <1>0, <1>1 DEF Existing
<1>4. Existing'
  <2>1. ASSUME NEW j \in Inst
        PROVE  /\ fetch'[j].st # "idle" => Exists(j)'
               /\ fetch'[j].st = "read" => fetch'[j].row.status # "ABSENT" /\ fetch'[j].row.ver <= rows'[j].ver
               /\ cache'[j].ver <= rows'[j].ver
    <3>1. CASE j = i
      BY <1>1, <1>2, <1>3, <3>1
    <3>2. CASE j # i
      BY <1>0, <1>1, <1>2, <3>2 DEF Existing, Exists
    <3>. QED BY <3>1, <3>2
  <2>. QED BY <1>0, <1>1, <2>1 DEF Existing, Exists
<1>5. ASSUME NEW c \in DOMAIN calls PROVE Seen(calls[c])' /\ Stays(calls[c])'
  <2>. PICK k \in Call : k = calls[c] /\ k = calls'[c]
    BY <1>0, <1>1, CallFields
  <2>1. Seen(k) /\ Stays(k)
    BY DEF ScreenInv
  <2>2. Seen(k)'
    <3>1. CASE k.inst = i
      BY <1>1, <1>2, <1>3, <2>1, <3>1 DEF Seen, Cached
    <3>2. CASE k.inst # i
      BY <1>1, <1>2, <2>1, <3>2 DEF Seen, Cached
    <3>. QED BY <3>1, <3>2
  <2>3. Stays(k)'
    BY <1>1, <2>1 DEF Stays
  <2>. QED BY <2>2, <2>3
<1>6. Reasons'
  BY <1>0, <1>1 DEF Reasons, Latest
<1>. QED BY <1>1, <1>2, <1>4, <1>5, <1>6 DEF ScreenInv

\* A fetch that fails shows its transaction broken.
LEMMA FetchFailsKeeps ==
  ASSUME ScreenInv, NEW i \in Inst, FetchFails(i)
  PROVE  ScreenInv'
<1>0. ScreenTypes /\ scr \in Screen /\ scr.inst \in Inst \cup {NoInst}
  BY DEF ScreenInv, ScreenTypes, Screen
<1>. PICK f \in Fetch : f = [st |-> "idle", row |-> Unread]
  BY BlankTypes DEF Fetch
<1>. PICK step \in {scr.step, "choosing"} : step = IF i = scr.inst THEN "choosing" ELSE scr.step
  OBVIOUS
<1>1. /\ fetch' = [fetch EXCEPT ![i] = f] /\ f.st = "idle" /\ broken' = broken \cup {i}
      /\ scr' = [scr EXCEPT !.step = step] /\ calls' = Rekeyed(scr.inst, step) /\ UNCHANGED <<rows, cache>>
      /\ \E what : Use(what)
  BY DEF FetchFails
<1>2. /\ fetch' \in [Inst -> Fetch] /\ \A j \in Inst : fetch'[j] = fetch[j] \/ (fetch'[j].st = "idle" /\ j \in broken')
      /\ broken \subseteq broken' /\ broken' \subseteq Inst
  BY <1>0, <1>1 DEF ScreenTypes
<1>3. scr' \in Screen /\ scr'.inst = scr.inst /\ scr'.reason = scr.reason
  BY <1>0, <1>1 DEF Screen
<1>4. left' \in Sitting
  BY <1>0, <1>1, SittingGoesOn DEF ScreenTypes
<1>5. /\ calls' \in Seq(Call) /\ DOMAIN calls' = DOMAIN calls /\ Len(calls') = Len(calls)
      /\ \A c \in DOMAIN calls :
           /\ Same(calls'[c], calls[c]) /\ calls'[c].st = calls[c].st /\ calls'[c].key \in {scr.inst, calls[c].key}
           /\ calls[c].st \in Waits /\ calls'[c].stayed => scr.inst = calls[c].inst
  BY <1>0, <1>1, CallsRekeyed
<1>6. scr.inst # NoInst => Exists(scr.inst)
  BY DEF ScreenInv, Existing
<1>. QED BY <1>0, <1>1, <1>2, <1>3, <1>4, <1>5, <1>6, MovesKeep

\* What others decide, and bulk runs.
LEMMA OthersKeep ==
  ASSUME ScreenInv, BulkInv, Others \/ OnPanel \/ Loops
  PROVE  ScreenInv'
<1>0. ScreenTypes /\ scr \in Screen
  BY DEF ScreenInv, ScreenTypes
<1>1. UNCHANGED <<scr, cache, fetch, broken, calls>> /\ (UNCHANGED left \/ \E what : Use(what))
  BY DEF Others, Elsewhere, OnPanel, Click, Loops
<1>2. Grows
  <2>1. CASE Others
    <3>1. PICK i \in Inst, k \in Kind, n \in Node : Take(i, k, n)
      BY <2>1 DEF Others, Elsewhere
    <3>. QED BY <1>0, <3>1, TakeGrows DEF ScreenTypes
  <2>2. CASE OnPanel
    <3>1. UNCHANGED rows
      BY <2>2 DEF OnPanel, PanelStep, ShowStatus, PickAction, Tick, HandleRun, StartOver
    <3>. QED BY <1>0, <3>1, RowsStay DEF ScreenTypes
  <2>3. CASE Loops
    <3>1. PICK l \in DOMAIN runs : LoopStep(l)
      BY <2>3 DEF Loops
    <3>2. CASE LoopServed(l)
      <4>1. PICK i \in runs[l].at : Take(i, runs[l].act, rows[i].node) \/ Refuse(i, runs[l].act, rows[i].node)
        BY <3>2 DEF LoopServed
      <4>2. i \in Inst
        BY <4>1 DEF BulkInv
      <4>. QED BY <1>0, <4>1, <4>2, TakeGrows, RowsStay DEF Refuse, ScreenTypes
    <3>3. CASE LoopNext(l) \/ LoopAnswered(l) \/ LoopEnds(l)
      BY <1>0, <3>3, RowsStay DEF LoopNext, LoopAnswered, LoopEnds, ScreenTypes
    <3>. QED BY <3>1, <3>2, <3>3 DEF LoopStep
  <2>. QED BY <2>1, <2>2, <2>3
<1>3. left' \in Sitting
  BY <1>0, <1>1, SittingGoesOn DEF ScreenTypes
<1>. QED BY <1>0, <1>1, <1>2, <1>3, QuietKeeps

(***************************************************************************)
(* Answers                                                                 *)
(***************************************************************************)
\* The calls when one of them gets another state.
LEMMA CallTurns ==
  ASSUME ScreenTypes, NEW c \in DOMAIN calls, NEW x \in Call, calls' = [calls EXCEPT ![c] = x]
  PROVE  /\ calls' \in Seq(Call) /\ DOMAIN calls' = DOMAIN calls /\ Len(calls') = Len(calls)
         /\ calls'[c] = x /\ \A d \in DOMAIN calls : d # c => calls'[d] = calls[d]
<1>. PICK r : r = [calls EXCEPT ![c] = x]
  OBVIOUS
<1>1. /\ r \in Seq(Call) /\ DOMAIN r = DOMAIN calls /\ Len(r) = Len(calls)
      /\ r[c] = x /\ \A d \in DOMAIN calls : d # c => r[d] = calls[d]
  BY CallWritten
<1>2. calls' = r
  OBVIOUS
<1>. QED BY <1>1, <1>2

\* One call gets further, and the screen stays with its transaction.
LEMMA CallGoesOn ==
  ASSUME ScreenInv, Grows, UNCHANGED <<cache, broken, left>>, fetch' \in [Inst -> Fetch],
         \A j \in Inst : fetch'[j] = fetch[j] \/ (fetch'[j].st = "asked" /\ Exists(j)),
         scr' \in Screen, scr'.inst = scr.inst, scr'.reason \in {0, scr.reason},
         NEW c \in DOMAIN calls, NEW k \in Call, k = calls[c], NEW x \in Call, calls' = [calls EXCEPT ![c] = x],
         x.kind = k.kind, x.reason = k.reason, x.live = k.live, k.st # "failed",
         x.inst # NoInst => x.inst = k.inst \/ Exists(x.inst)',
         Seen(x)', Stays(x)',
         k.kind = "reject" /\ x.st \notin Waits \cup {"failed"} => scr'.reason # k.reason
  PROVE  ScreenInv'
<1>0. ScreenTypes /\ Existing /\ Reasons /\ \A d \in DOMAIN calls : calls[d] \in Call
  BY CallFields DEF ScreenInv
<1>1. /\ calls' \in Seq(Call) /\ DOMAIN calls' = DOMAIN calls /\ Len(calls') = Len(calls)
      /\ calls'[c] = x /\ \A d \in DOMAIN calls : d # c => calls'[d] = calls[d]
  BY <1>0, CallTurns
<1>2. ScreenTypes'
  BY <1>0, <1>1 DEF ScreenTypes, Grows
<1>3. Existing'
  <2>1. scr'.inst \in Inst \cup {NoInst}
    BY DEF Screen
  <2>2. ASSUME NEW d \in DOMAIN calls', calls'[d].inst # NoInst
        PROVE  calls'[d].inst \in Inst /\ ((d \in DOMAIN calls /\ calls'[d].inst = calls[d].inst) \/ Exists(calls[d].inst)')
    BY <1>0, <1>1, <2>2 DEF Call
  <2>. QED BY <1>0, <2>1, <2>2, ExistingStays
<1>4. ASSUME NEW d \in DOMAIN calls' PROVE Seen(calls[d])' /\ Stays(calls[d])'
  <2>1. CASE d = c
    BY <1>1, <2>1
  <2>2. CASE d # c
    <3>. PICK l \in Call : l = calls[d] /\ l = calls'[d]
      BY <1>0, <1>1, <2>2
    <3>1. Seen(l) /\ Stays(l) /\ Same(l, l)
      BY <1>1 DEF ScreenInv, Same
    <3>2. Seen(l)'
      BY <1>0, <3>1, SeenStays
    <3>3. Stays(l)'
      BY <3>1 DEF Stays
    <3>. QED BY <3>2, <3>3
  <2>. QED BY <2>1, <2>2
<1>5. Reasons'
  <2>1. ASSUME NEW d \in DOMAIN calls
        PROVE  /\ calls'[d].kind = calls[d].kind
               /\ calls[d].kind = "reject" =>
                    /\ calls'[d].reason = calls[d].reason
                    /\ calls[d].st = "failed" => calls'[d].st = "failed"
                    /\ calls'[d].live # calls[d].live => scr'.reason # calls[d].reason
                    /\ calls[d].st \in Waits /\ calls'[d].st \notin Waits \cup {"failed"} => scr'.reason # calls[d].reason
    <3>1. CASE d = c
      BY <1>1, <3>1
    <3>2. CASE d # c
      BY <1>1, <3>2
    <3>. QED BY <3>1, <3>2
  <2>. QED BY <1>0, <1>1, <2>1, ReasonsStay
<1>. QED BY <1>2, <1>3, <1>4, <1>5 DEF ScreenInv

\* The server decides, or not.
LEMMA ServedKeeps ==
  ASSUME ScreenInv, NEW c \in DOMAIN calls, Served(c)
  PROVE  ScreenInv'
<1>0. ScreenTypes /\ scr \in Screen /\ fetch \in [Inst -> Fetch]
  BY DEF ScreenInv, ScreenTypes
<1>. PICK k \in Call : k = calls[c]
  BY <1>0, CallFields
<1>1. /\ k.st = "sent" /\ k.kind # "execute" /\ UNCHANGED <<scr, cache, fetch, broken, left>>
      /\ \/ Take(k.inst, k.kind, k.node) /\ (Outcome(c, "ok", rows'[k.inst].ver) \/ Outcome(c, "bad", 0))
         \/ Outcome(c, "bad", 0) /\ UNCHANGED rows
  BY DEF Served
<1>2. Seen(k) /\ Stays(k) /\ k.inst \in Inst
  BY <1>1 DEF ScreenInv, Seen
<1>3. Grows
  BY <1>0, <1>1, <1>2, TakeGrows, RowsStay DEF ScreenTypes
<1>4. rows'[k.inst].ver \in Nat
  BY <1>2, <1>3 DEF Grows, Row
<1>. PICK st \in {"ok", "bad"}, v \in Nat : v <= rows'[k.inst].ver /\ Outcome(c, st, v)
  BY <1>1, <1>4
<1>. PICK x : x = [k EXCEPT !.st = st, !.ver = v]
  OBVIOUS
<1>5. calls' = [calls EXCEPT ![c] = x]
  BY <1>0, CallFields DEF Outcome
<1>6. /\ x \in Call /\ x.kind = k.kind /\ x.reason = k.reason /\ x.live = k.live /\ x.inst = k.inst /\ x.st = st
      /\ x.ver = v /\ x.stayed = k.stayed /\ x.key = k.key
  BY DEF Call
<1>7. Seen(x)'
  BY <1>1, <1>2, <1>6 DEF Seen, Cached
<1>8. Stays(x)'
  BY <1>1, <1>2, <1>6 DEF Stays, Waits
<1>. QED BY <1>0, <1>1, <1>3, <1>5, <1>6, <1>7, <1>8, CallGoesOn DEF Waits

\* An execution makes a transaction of its own.
LEMMA ExecutedKeeps ==
  ASSUME ScreenInv, NEW c \in DOMAIN calls, Executed(c)
  PROVE  ScreenInv'
<1>0. ScreenTypes /\ scr \in Screen /\ fetch \in [Inst -> Fetch] /\ rows \in [Inst -> Row]
  BY DEF ScreenInv, ScreenTypes
<1>. PICK k \in Call : k = calls[c]
  BY <1>0, CallFields
<1>1. /\ k.st = "sent" /\ k.kind = "execute" /\ UNCHANGED <<scr, cache, fetch, broken, left>>
  BY DEF Executed
<1>2. ASSUME NEW x \in Call, calls' = [calls EXCEPT ![c] = x], x.kind = "execute", x.reason = k.reason, x.live = k.live,
             x.inst = k.inst \/ Exists(x.inst)', Grows
      PROVE  ScreenInv'
  <2>1. Seen(x)' /\ Stays(x)'
    BY <1>2 DEF Seen, Stays
  <2>. QED BY <1>0, <1>1, <1>2, <2>1, CallGoesOn
<1>3. ASSUME NEW st \in {"ok", "bad"}, Outcome(c, st, 0), Grows
      PROVE  ScreenInv'
  <2>. PICK x : x = [k EXCEPT !.st = st, !.ver = 0]
    OBVIOUS
  <2>1. calls' = [calls EXCEPT ![c] = x]
    BY <1>0, <1>3, CallFields DEF Outcome
  <2>2. x \in Call /\ x.kind = "execute" /\ x.reason = k.reason /\ x.live = k.live /\ x.inst = k.inst
    BY <1>1 DEF Call
  <2>. QED BY <1>2, <1>3, <2>1, <2>2
<1>4. ASSUME NEW j \in Inst, Execute(j), calls' = [calls EXCEPT ![c].st = "ok", ![c].inst = j]
      PROVE  ScreenInv'
  <2>. PICK x : x = [k EXCEPT !.st = "ok", !.inst = j]
    OBVIOUS
  <2>1. calls' = [calls EXCEPT ![c] = x]
    BY <1>0, <1>4, CallFields
  <2>2. x \in Call /\ x.kind = "execute" /\ x.reason = k.reason /\ x.live = k.live /\ x.inst = j
    BY <1>1 DEF Call
  <2>3. Grows /\ Exists(j)'
    BY <1>0, <1>4, ExecuteGrows
  <2>4. Exists(x.inst)'
    BY <2>2, <2>3 DEF Exists
  <2>. QED BY <1>2, <2>1, <2>2, <2>3, <2>4
<1>5. ASSUME NEW j \in Inst, Execute(j), Outcome(c, "bad", 0)
      PROVE  ScreenInv'
  BY <1>0, <1>3, <1>5, ExecuteGrows
<1>6. ASSUME NEW st \in {"ok", "bad"}, Outcome(c, st, 0), UNCHANGED rows
      PROVE  ScreenInv'
  BY <1>0, <1>3, <1>6, RowsStay
<1>. QED BY <1>4, <1>5, <1>6 DEF Executed

\* A decision is done: its transaction, if it is still on the screen, is asked for anew.
LEMMA SucceededKeeps ==
  ASSUME ScreenInv, NEW c \in DOMAIN calls, Succeeded(c)
  PROVE  ScreenInv'
<1>0. ScreenTypes /\ Existing /\ Reasons /\ scr \in Screen /\ fetch \in [Inst -> Fetch] /\ Grows
      /\ scr.inst \in Inst \cup {NoInst}
  BY RowsStay DEF ScreenInv, ScreenTypes, Succeeded, Screen
<1>. PICK k \in Call : k = calls[c]
  BY <1>0, CallFields
<1>. PICK x : x = [k EXCEPT !.st = "done"]
  OBVIOUS
<1>1. /\ k.st = "ok" /\ k.kind # "execute" /\ UNCHANGED <<rows, cache, broken, left>> /\ fetch' = Refetched(k.key)
      /\ scr' = IF k.live = "sender" THEN AnsweredScreen(k.kind) ELSE scr
  BY DEF Succeeded
<1>2. calls' = [calls EXCEPT ![c] = x]
  BY <1>0, CallFields DEF Succeeded
<1>3. /\ x \in Call /\ x.kind = k.kind /\ x.reason = k.reason /\ x.live = k.live /\ x.inst = k.inst /\ x.st = "done"
      /\ x.ver = k.ver /\ x.stayed = k.stayed
  BY DEF Call
<1>4. Seen(k) /\ Stays(k) /\ k.inst \in Inst /\ Cached(k.inst)
  BY <1>1 DEF ScreenInv, Seen
<1>5. fetch' \in [Inst -> Fetch] /\ \A j \in Inst : fetch'[j] = fetch[j] \/ (fetch'[j].st = "asked" /\ Exists(j))
  <2>1. CASE fetch' = fetch
    BY <1>0, <2>1
  <2>2. CASE fetch' # fetch
    <3>. PICK f \in Fetch : f = [st |-> "asked", row |-> Unread]
      BY BlankTypes DEF Fetch
    <3>1. fetch' = [fetch EXCEPT ![k.key] = f] /\ k.key = scr.inst /\ scr.inst # NoInst /\ f.st = "asked"
      BY <1>1, <2>2 DEF Refetched
    <3>2. Exists(k.key) /\ k.key \in Inst
      BY <1>0, <3>1 DEF Existing
    <3>. QED BY <1>0, <3>1, <3>2
  <2>. QED BY <2>1, <2>2
<1>6. x.stayed => fetch'[x.inst].st = "asked"
  <2>. SUFFICES ASSUME x.stayed PROVE fetch'[x.inst].st = "asked"
    OBVIOUS
  <2>1. k.key = k.inst /\ scr.inst = k.inst
    BY <1>1, <1>3, <1>4 DEF Stays, Waits
  <2>2. k.inst # NoInst
    BY <1>4, ScreenAssumption
  <2>. QED BY <1>0, <1>1, <1>3, <1>4, <2>1, <2>2 DEF Refetched
<1>7. Seen(x)'
  <2>1. Same(x, k)
    BY <1>3 DEF Same
  <2>2. broken \subseteq broken' /\ UNCHANGED cache
    BY <1>1
  <2>3. \A j \in Inst : fetch'[j] = fetch[j] \/ fetch'[j].st = "asked" \/ (fetch'[j].st = "idle" /\ j \in broken')
    BY <1>5
  <2>. QED BY <1>0, <1>4, <1>6, <2>1, <2>2, <2>3, SeenStays
<1>8. Stays(x)'
  BY <1>3 DEF Stays, Waits
<1>9. /\ scr' \in Screen /\ scr'.inst = scr.inst /\ scr'.reason \in {0, scr.reason}
      /\ k.kind = "reject" => scr'.reason # k.reason
  <2>1. CASE k.live = "sender"
    <3>. PICK a \in BOOLEAN : a = (scr.rejecting /\ k.kind # "reject")
      OBVIOUS
    <3>. PICK b \in Nat : b = IF k.kind = "reject" THEN 0 ELSE scr.reason
      BY <1>0 DEF Screen
    <3>. PICK d \in 0 .. NNodes : d = IF k.kind = "reverse" THEN 0 ELSE scr.reversal
      BY <1>0, ServerAssumption DEF Screen
    <3>1. scr' = [scr EXCEPT !.rejecting = a, !.reason = b, !.reversal = d]
      BY <1>1, <2>1 DEF AnsweredScreen
    <3>2. scr' \in Screen /\ scr'.inst = scr.inst /\ scr'.reason = b
      BY <1>0, <3>1 DEF Screen
    <3>3. k.kind = "reject" => k.reason # 0
      BY <1>0, CallFields DEF Reasons
    <3>. QED BY <3>2, <3>3
  <2>2. CASE k.live # "sender"
    BY <1>0, <1>1, <2>2 DEF Reasons
  <2>. QED BY <2>1, <2>2
<1>. QED BY <1>0, <1>1, <1>2, <1>3, <1>5, <1>7, <1>8, <1>9, CallGoesOn

\* A decision or an execution failed.
LEMMA FailedKeeps ==
  ASSUME ScreenInv, NEW c \in DOMAIN calls, Failed(c)
  PROVE  ScreenInv'
<1>0. ScreenTypes /\ scr \in Screen /\ fetch \in [Inst -> Fetch] /\ Grows
  BY RowsStay DEF ScreenInv, ScreenTypes, Failed
<1>. PICK k \in Call : k = calls[c]
  BY <1>0, CallFields
<1>. PICK x : x = [k EXCEPT !.st = "failed"]
  OBVIOUS
<1>1. k.st = "bad" /\ UNCHANGED <<rows, cache, fetch, broken, left>> /\ scr' \in {scr, [scr EXCEPT !.step = "error"]}
  BY DEF Failed
<1>2. calls' = [calls EXCEPT ![c] = x]
  BY <1>0, CallFields DEF Failed
<1>3. /\ x \in Call /\ x.kind = k.kind /\ x.reason = k.reason /\ x.live = k.live /\ x.inst = k.inst /\ x.st = "failed"
      /\ x.ver = k.ver /\ x.stayed = k.stayed
  BY DEF Call
<1>4. scr' \in Screen /\ scr'.inst = scr.inst /\ scr'.reason = scr.reason
  BY <1>0, <1>1 DEF Screen
<1>5. Seen(k)
  BY DEF ScreenInv
<1>6. Seen(x)'
  BY <1>1, <1>3, <1>5 DEF Seen, Cached
<1>7. Stays(x)'
  BY <1>3 DEF Stays, Waits
<1>. QED BY <1>0, <1>1, <1>2, <1>3, <1>4, <1>6, <1>7, CallGoesOn

\* The screen goes to the new transaction, wherever the operator is by then.
LEMMA CreatedKeeps ==
  ASSUME ScreenInv, NEW c \in DOMAIN calls, Created(c)
  PROVE  ScreenInv'
<1>0. ScreenTypes /\ Existing /\ scr \in Screen /\ fetch \in [Inst -> Fetch] /\ broken \subseteq Inst
  BY DEF ScreenInv, ScreenTypes
<1>. PICK k \in Call : k = calls[c]
  BY <1>0, CallFields
<1>1. k.kind = "execute" /\ k.st = "ok" /\ UNCHANGED <<rows, cache, broken, left>>
  BY DEF Created
<1>2. CASE k.live = "none"
  <2>. PICK x : x = [k EXCEPT !.st = "done", !.ver = 0]
    OBVIOUS
  <2>1. calls' = [calls EXCEPT ![c] = x] /\ UNCHANGED <<scr, fetch>>
    BY <1>0, <1>2, CallFields DEF Created, Outcome
  <2>2. x \in Call /\ x.kind = "execute" /\ x.reason = k.reason /\ x.live = k.live /\ x.inst = k.inst
    BY <1>1 DEF Call
  <2>3. Seen(x)' /\ Stays(x)'
    BY <2>2 DEF Seen, Stays
  <2>4. Grows
    BY <1>0, <1>1, RowsStay DEF ScreenTypes
  <2>. QED BY <1>0, <1>1, <2>1, <2>2, <2>3, <2>4, CallGoesOn
<1>3. CASE k.live # "none"
  <2>. PICK i \in Inst \cup {NoInst} : i = k.inst
    BY DEF Call
  <2>1. /\ scr' = [scr EXCEPT !.run = FALSE, !.inst = i, !.step = "choosing", !.station = IF i = scr.inst THEN @ ELSE 0]
        /\ fetch' = IF i \notin {NoInst, scr.inst} /\ fetch[i].st = "idle" THEN [fetch EXCEPT ![i].st = "asked"] ELSE fetch
        /\ calls' = [Rekeyed(i, "choosing") EXCEPT ![c].st = "done"]
    BY <1>3 DEF Created
  <2>2. i # NoInst => Exists(i)
    BY <1>0 DEF Existing
  <2>3. scr' \in Screen /\ scr'.inst = i /\ scr'.reason = scr.reason
    <3>. PICK st \in 0 .. NNodes : st = IF i = scr.inst THEN scr.station ELSE 0
      BY <1>0, ServerAssumption DEF Screen
    <3>1. scr' = [scr EXCEPT !.run = FALSE, !.inst = i, !.step = "choosing", !.station = st]
      BY <2>1
    <3>. QED BY <1>0, <3>1 DEF Screen
  <2>4. fetch' \in [Inst -> Fetch] /\ \A j \in Inst : fetch'[j] = fetch[j] \/ (fetch'[j].st = "asked" /\ Exists(j))
    <3>1. CASE i \notin {NoInst, scr.inst} /\ fetch[i].st = "idle"
      <4>1. fetch' = [fetch EXCEPT ![i] = [fetch[i] EXCEPT !.st = "asked"]] /\ i \in Inst /\ fetch[i] \in Fetch
        BY <1>0, <2>1, <3>1
      <4>2. [fetch[i] EXCEPT !.st = "asked"] \in Fetch /\ [fetch[i] EXCEPT !.st = "asked"].st = "asked"
        BY <4>1 DEF Fetch
      <4>. QED BY <1>0, <2>2, <3>1, <4>1, <4>2
    <3>2. CASE ~(i \notin {NoInst, scr.inst} /\ fetch[i].st = "idle")
      BY <1>0, <2>1, <3>2
    <3>. QED BY <3>1, <3>2
  <2>. PICK r : r = Rekeyed(i, "choosing")
    OBVIOUS
  <2>5. /\ r \in Seq(Call) /\ DOMAIN r = DOMAIN calls /\ Len(r) = Len(calls)
        /\ \A d \in DOMAIN calls :
             /\ Same(r[d], calls[d]) /\ r[d].st = calls[d].st
             /\ calls[d].st \in Waits /\ r[d].stayed => i = calls[d].inst
             /\ r[d].key \in {i, calls[d].key}
    BY <1>0, CallsRekeyed
  <2>. PICK x : x = [r[c] EXCEPT !.st = "done"]
    OBVIOUS
  <2>6. r[c] \in Call
    BY <2>5
  <2>7. x \in Call /\ Same(x, calls[c])
    <3>1. /\ x \in Call /\ x.kind = r[c].kind /\ x.inst = r[c].inst /\ x.ver = r[c].ver /\ x.reason = r[c].reason
          /\ x.stayed = r[c].stayed /\ x.live = r[c].live
      BY <2>6 DEF Call
    <3>. QED BY <2>5, <3>1 DEF Same
  <2>8. calls' = [r EXCEPT ![c] = x]
    BY <2>1
  <2>9. /\ calls' \in Seq(Call) /\ DOMAIN calls' = DOMAIN calls /\ Len(calls') = Len(calls)
        /\ calls'[c] = x /\ \A d \in DOMAIN calls : d # c => calls'[d] = r[d]
    <3>. PICK q : q = calls'
      OBVIOUS
    <3>1. q = [r EXCEPT ![c] = x] /\ c \in DOMAIN r /\ r \in [1 .. Len(r) -> Call] /\ Len(r) \in Nat
      BY <2>5, <2>8
    <3>2. q \in [1 .. Len(r) -> Call] /\ DOMAIN q = DOMAIN r /\ q[c] = x /\ \A d \in DOMAIN r : d # c => q[d] = r[d]
      BY <2>7, <3>1
    <3>3. q \in Seq(Call)
      BY <3>1, <3>2
    <3>4. Len(q) = Len(r)
      BY <3>1, <3>2, <3>3
    <3>. QED BY <2>5, <3>2, <3>3, <3>4
  <2>10. ASSUME NEW d \in DOMAIN calls
         PROVE  /\ Same(calls'[d], calls[d])
                /\ calls[d].kind # "execute" =>
                     /\ calls'[d].st = calls[d].st /\ calls'[d].key \in {i, calls[d].key}
                     /\ calls[d].st \in Waits /\ calls'[d].stayed => i = calls[d].inst
    <3>1. CASE d = c
      BY <1>1, <2>7, <2>9, <3>1
    <3>2. CASE d # c
      BY <2>5, <2>9, <3>2
    <3>. QED BY <3>1, <3>2
  <2>11. left' \in Sitting
    BY <1>0, <1>1 DEF ScreenTypes
  <2>. QED BY <1>0, <1>1, <2>2, <2>3, <2>4, <2>9, <2>10, <2>11, MovesKeep
<1>. QED BY <1>2, <1>3

(***************************************************************************)
(* Every step                                                              *)
(***************************************************************************)
\* Every action keeps what is known of the screen.
LEMMA ScreenInvNext == ScreenInv /\ BulkInv /\ [Next]_vars => ScreenInv'
<1>. SUFFICES ASSUME ScreenInv, BulkInv, [Next]_vars PROVE ScreenInv'
  OBVIOUS
<1>1. CASE Navigate
  <2>1. CASE \/ \E i \in Inst : OpenFromWorklist(i) \/ OpenFromPicker(i) \/ OpenFromSearch(i)
             \/ BackToWorklist
    BY <2>1, NavigationKeeps
  <2>2. CASE (\E n \in 0 .. NNodes : ViewStation(n)) \/ OpenBulk \/ CloseBulk
    BY <2>2, ShowsKeep
  <2>3. CASE Return
    BY <2>3, ReturnKeeps
  <2>. QED BY <1>1, <2>1, <2>2, <2>3 DEF Navigate
<1>2. CASE Decide
  BY <1>2, ShowsKeep, DecisionsKeep DEF Decide
<1>3. CASE Initiate
  BY <1>3, ShowsKeep, SubmitCaptureKeeps, CloseRunKeeps DEF Initiate
<1>4. CASE Others \/ OnPanel \/ Loops
  BY <1>4, OthersKeep
<1>5. CASE Poll
  BY <1>5, PollKeeps
<1>6. CASE Network
  BY <1>6, FetchReadKeeps, FetchArrivesKeeps, FetchFailsKeeps, ServedKeeps, ExecutedKeeps, SucceededKeeps,
     FailedKeeps, CreatedKeeps DEF Network
<1>7. CASE UNCHANGED vars
  <2>1. UNCHANGED <<rows, scr, cache, fetch, broken, calls, left>>
    BY <1>7 DEF vars
  <2>2. Grows /\ scr \in Screen /\ left' \in Sitting
    BY <2>1, RowsStay DEF ScreenInv, ScreenTypes
  <2>. QED BY <2>1, <2>2, QuietKeeps
<1>. QED BY <1>1, <1>2, <1>3, <1>4, <1>5, <1>6, <1>7 DEF Next

\* Every action leaves the bulk panel and its runs alone, follows the screen with
\* them, or is a step of theirs.
LEMMA BulkInvNext == BulkInv /\ [Next]_vars => BulkInv'
<1>. SUFFICES ASSUME BulkInv, [Next]_vars PROVE BulkInv'
  OBVIOUS
<1>1. CASE Follow
  BY <1>1, FollowKeeps
<1>2. CASE UNCHANGED bulkVars
  BY <1>2 DEF bulkVars, BulkInv
<1>3. CASE OnPanel
  BY <1>3, PanelStepKeeps DEF OnPanel
<1>4. CASE Loops
  BY <1>4, LoopStepKeeps DEF Loops
<1>5. Navigate => Follow
  BY DEF Navigate, OpenFromWorklist, OpenFromPicker, OpenFromSearch, BackToWorklist, Return, ViewStation, OpenBulk,
         CloseBulk, Show
<1>6. Decide => Follow
  BY DEF Decide, Approve, StartReject, TypeReason, DropReject, ConfirmReject, SubmitForm, Retry, SendToRepair,
         SkipStep, CancelTransaction, OpenReversal, CloseReversal, SubmitReversal, Show, Mutate
<1>7. Initiate => Follow
  BY DEF Initiate, OpenRun, ChooseWorkflow, ChooseProduct, SubmitCapture, CloseRun, Show
<1>8. Poll \/ Others \/ UNCHANGED vars => UNCHANGED bulkVars
  <2>1. Poll \/ UNCHANGED vars => UNCHANGED bulkVars
    BY DEF Poll, vars
  <2>2. Others => UNCHANGED bulkVars
    BY DEF Others, Elsewhere
  <2>. QED BY <2>1, <2>2
<1>9. Network => Follow \/ UNCHANGED bulkVars
  BY DEF Network, FetchRead, FetchArrives, FetchFails, Served, Executed, Succeeded, Failed, Created
<1>. QED BY <1>1, <1>2, <1>3, <1>4, <1>5, <1>6, <1>7, <1>8, <1>9 DEF Next

\* What is known of the screen and of its bulk panel holds of every state.
LEMMA ScreenInvHolds == Spec => [](ScreenInv /\ BulkInv)
<1>1. Init => ScreenInv /\ BulkInv
  BY ScreenInvInit, BulkInvInit DEF Init
<1>2. ScreenInv /\ BulkInv /\ [Next]_vars => ScreenInv' /\ BulkInv'
  BY ScreenInvNext, BulkInvNext
<1>. QED BY <1>1, <1>2, PTL DEF Spec

\* Everything has its type, no copy of a transaction is ahead of its row, and the
\* panel selects what it lists.
THEOREM ScreenTyped == Spec => []TypeOK
<1>1. ScreenInv /\ BulkInv => TypeOK
  BY BulkInvSuffices DEF ScreenInv, ScreenTypes, Existing, Reasons, Fetch, TypeOK
<1>. QED BY <1>1, ScreenInvHolds, PTL

\* A decision answered while its transaction stayed on the screen is seen there, through
\* polls, late answers, failed fetches and what other operators decide.
THEOREM OwnWritesAreRead == Spec => []ReadsOwnWrite
<1>1. ScreenInv => ReadsOwnWrite
  BY ScreenInvSuffices
<1>. QED BY <1>1, ScreenInvHolds, PTL

\* A reason typed once rejects once, on whatever transaction its panel is left open.
THEOREM ReasonsAreUsedOnce == Spec => []ReasonUsedOnce
<1>1. ScreenInv => ReasonUsedOnce
  BY ScreenInvSuffices
<1>. QED BY <1>1, ScreenInvHolds, PTL

=============================================================================
