------------------------------ MODULE MCBackup ------------------------------
EXTENDS Backup, TLC

(* Hubs are interchangeable, and so are the ids of one kind.                *)
Symmetry == Permutations(Hubs) \cup Permutations(Owners)
            \cup Permutations(Rooms) \cup Permutations(Groups)
            \cup Permutations(Devices) \cup Permutations(Logs)
=============================================================================
