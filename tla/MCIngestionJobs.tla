-------------------------- MODULE MCIngestionJobs --------------------------
(* Instances of IngestionJobs for TLC.                                     *)
EXTENDS IngestionJobs

\* A job, workers, clerks, archive runs and a stuck-job detector.
CONSTANTS j1, w1, w2, c1, c2, a1, a2, f1

=============================================================================
