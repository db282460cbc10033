-------------------------- MODULE MCWorkflowDesigner --------------------------
\* One package, a product with a saved workflow and one without, a template of
\* two linked steps and a diagram of two linked steps.  The sittings: drawing
\* on the canvas, the way to a studio and back, requests that answer late, and
\* the wiring audit.
EXTENDS WorkflowDesigner, TLC

CONSTANTS pkg, seeded, plain, sub, h1, h2, t1, t2

Seed == [nodes |-> {11, 12}, links |-> {<<11, 12>>}, saved |-> {}]
Seeds == (seeded :> Seed)
Cloned == [nodes |-> {13, 14}, links |-> {<<13, 14>>}, saved |-> {}]
Parsed == [nodes |-> {21, 22}, links |-> {<<21, 22>>}, saved |-> {}]

Of(f) == [k \in Bounded |-> IF k \in DOMAIN f THEN f[k] ELSE 0]

Sittings == {
  Of([visits |-> 3, edits |-> 3, clicks |-> 1]),
  Of([visits |-> 2, edits |-> 3, clicks |-> 2]),
  Of([visits |-> 6, edits |-> 1, clicks |-> 1]),
  Of([visits |-> 5, edits |-> 1, clicks |-> 1, others |-> 2]),
  Of([visits |-> 5, calls |-> 1, clicks |-> 2, others |-> 1]),
  Of([visits |-> 3, calls |-> 2, edits |-> 1]),
  Of([visits |-> 2, picks |-> 6, others |-> 1])}

Tour == {"dashboard", "domain-dashboard", "workflow-designer", "business-rules", "document-master"}
=============================================================================
