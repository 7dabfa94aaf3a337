---------------------------- MODULE MCConfigSync ----------------------------
(* Instances of ConfigSync for TLC.                                         *)
EXTENDS ConfigSync, TLC

(* Groups of one kind are interchangeable.                                  *)
Symmetry == Permutations(AdminGroups) \cup Permutations(ClientGroups)
=============================================================================
