------------------------------ MODULE MCAccounts ------------------------------
(* Instance of Accounts for TLC.  No symmetry: the run checks liveness.     *)
EXTENDS Accounts
=============================================================================
