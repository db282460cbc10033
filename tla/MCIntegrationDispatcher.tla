---------------------- MODULE MCIntegrationDispatcher ----------------------
(* Instances of IntegrationDispatcher for TLC.                             *)
EXTENDS IntegrationDispatcher, TLC

CONSTANTS w1, w2

Workers == Permutations({w1, w2})

=============================================================================
