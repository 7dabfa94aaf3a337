--------------------------- MODULE MCReachability ---------------------------
(* Instance of Reachability for TLC.  No symmetry: the run checks liveness. *)
EXTENDS Reachability, TLC
=============================================================================
