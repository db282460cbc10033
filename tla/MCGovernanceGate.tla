-------------------------- MODULE MCGovernanceGate --------------------------
(* Instances of GovernanceGate for TLC.                                    *)
EXTENDS GovernanceGate, TLC

CONSTANTS r1, r2, r3, t1, t2

Alike == Permutations({r1, r2, r3}) \cup Permutations({t1, t2})

=============================================================================
