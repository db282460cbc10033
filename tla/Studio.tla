------------------------------- MODULE Studio -------------------------------
(***************************************************************************)
(* What the studios of the front end share.  App mounts one studio at a    *)
(* time inside an error boundary; the state of a studio is lost when it is *)
(* left or when an error of rendering replaces it, while its requests go   *)
(* on.  A sitting is one user's work in one studio, within bounds.         *)
(***************************************************************************)
EXTENDS Integers, FiniteSets, Sequences

CONSTANTS
  Desk,      \* the studios
  Sittings   \* bounds: the sittings looked at

\* visits: openings of the studio; clicks: what the user does in it; sends:
\* requests that change the server; others: what other users do; breaks:
\* requests whose connection breaks.
Bounded == {"visits", "clicks", "sends", "others", "breaks"}

ASSUME SittingsAreBounds ==
  \A s \in Sittings : s.desk \in Desk /\ s.left \in [Bounded -> Nat]

VARIABLES
  studio,    \* the studio of this sitting, and whether it is on the screen
  left       \* what is left of the sitting's bounds

studioVars == <<studio, left>>

\* view: shown, replaced by the card of the boundary, or left.
StudioTypeOK ==
  /\ studio \in [desk : Desk, view : {"shown", "crashed", "left"}]
  /\ left \in [Bounded -> Nat]

StudioInit ==
  \E s \in Sittings : studio = [desk |-> s.desk, view |-> "left"] /\ left = s.left

Use(what) ==
  /\ \A w \in what : left[w] > 0
  /\ left' = [w \in Bounded |-> IF w \in what THEN left[w] - 1 ELSE left[w]]

\* The user does something in studio s.
Here(s) == studio = [desk |-> s, view |-> "shown"]
At(s, what) == Here(s) /\ Use({"clicks"} \cup what) /\ UNCHANGED studio

\* A menu leads to the studio: React mounts it anew, also after an error.
Enter(s) ==
  /\ studio.desk = s /\ studio.view # "shown" /\ Use({"visits"})
  /\ studio' = [studio EXCEPT !.view = "shown"]

\* A menu leads elsewhere.
Exit(s) == Here(s) /\ studio' = [studio EXCEPT !.view = "left"] /\ UNCHANGED left

\* An error of rendering: the boundary shows its card instead.
Crash(s) == Here(s) /\ studio' = [studio EXCEPT !.view = "crashed"]
\* "Retry this studio" renders the children anew.
RetryStudio(s) ==
  studio = [desk |-> s, view |-> "crashed"] /\ studio' = [studio EXCEPT !.view = "shown"] /\ Use({"clicks"})

\* The studio that sent request x is gone; the request goes on.
Deserted(x) == IF x.st = "sent" THEN [x EXCEPT !.mine = FALSE] ELSE x

(***************************************************************************)
(* A query of react-query.  The server may read for a request any moment   *)
(* between the asking and the answer: old is what it had when asked.  gap: *)
(* the server changed meanwhile with no word to the query.                 *)
(***************************************************************************)
Unasked(v) == [data |-> v, asked |-> FALSE, old |-> v, gap |-> FALSE]
\* An invalidation drops the request that is on its way; now is the server's state.
Refreshed(q, now) == [q EXCEPT !.asked = TRUE, !.old = now, !.gap = FALSE]
\* A query mounts: it keeps what it had, and a request that is on its way will do.
Asked(q, now) == IF q.asked THEN q ELSE Refreshed(q, now)
\* An invalidation finds the query off the screen.
Missed(q) == [q EXCEPT !.gap = q.asked]
Answers(q, now) == {[Unasked(v) EXCEPT !.gap = q.gap] : v \in {q.old, now}}

(***************************************************************************)
(* The form made of a designed screen (RuntimeScreenRenderer.tsx).  Of its *)
(* values is kept whether every mandatory field has one; the screens come  *)
(* with their list of components only, so that the two default buttons are *)
(* all there are.                                                          *)
(***************************************************************************)
\* filled: no mandatory field is empty; complains: one was empty at a submit.
Sheet == [filled : BOOLEAN, complains : BOOLEAN]
NewSheet(filled) == [filled |-> filled, complains |-> FALSE]

\* Other initial values replace what was typed; a complaint stays.
Reloaded(s, filled) == [s EXCEPT !.filled = filled]
\* The last empty mandatory field is filled, or one is emptied.
FieldTyped(s) == [filled |-> ~s.filled, complains |-> FALSE]

FormAction == {"SUBMIT", "CANCEL_SESSION"}
\* Whether the action comes through, and the form after it.
Passes(s, a) == a = "CANCEL_SESSION" \/ s.filled
Acted(s, a) == IF a = "CANCEL_SESSION" THEN s ELSE [s EXCEPT !.complains = ~s.filled]
=============================================================================
