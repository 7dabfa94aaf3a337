----------------------------- MODULE MCListener -----------------------------
(* Instance of Listener for TLC.                                            *)
EXTENDS Listener, TLC
=============================================================================
