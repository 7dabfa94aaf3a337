------------------------------- MODULE MCEvents -------------------------------
(* Instance of Events for TLC.  No symmetry: the run checks liveness.       *)
EXTENDS Events
=============================================================================
