----------------------------- MODULE MCSessions -----------------------------
(* Instances of Sessions for TLC.                                           *)
EXTENDS Sessions, TLC

(* Devices are interchangeable, and so are connections and requests.        *)
Symmetry ==
    Permutations(Devices) \cup Permutations(Conns) \cup Permutations(Callers)
=============================================================================
