--------------------------- MODULE DeviceLifecycle ---------------------------
(***************************************************************************)
(* What the hub promises about one column of its database: the life of a   *)
(* row of the table `devices`, seen through its `status`.  A row is        *)
(* created 'pending' by a first Hello, moves between 'online' and          *)
(* 'offline' while clients come and go, is 'kicked' for good once an       *)
(* administrator says so, and is never seen again once deleted.            *)
(*                                                                         *)
(* This is the abstract specification that module Sessions implements.     *)
(* backup imports (db.rs, import_backup), which rewrite whole tables, are  *)
(* outside both.                                                           *)
(***************************************************************************)

CONSTANT Devices            \* the device ids the hub ever hands out

VARIABLE status             \* status[d]: the column, or "none" / "gone"

NoRow    == {"none", "gone"}
Present  == {"pending", "online", "offline", "kicked"}
Statuses == NoRow \cup Present

Init == status = [d \in Devices |-> "none"]

-----------------------------------------------------------------------------
Enrol(d) ==
    /\ status[d] = "none"
    /\ status' = [status EXCEPT ![d] = "pending"]

(* 'pending' and 'offline' are left for 'online', and anything but 'kicked' *)
(* for 'offline'; a row never becomes 'pending' again.                      *)
Connect(d) ==
    /\ status[d] \in {"pending", "offline"}
    /\ status' = [status EXCEPT ![d] = "online"]

Disconnect(d) ==
    /\ status[d] \in {"pending", "online"}
    /\ status' = [status EXCEPT ![d] = "offline"]

Kick(d) ==
    /\ status[d] \in Present
    /\ status' = [status EXCEPT ![d] = "kicked"]

(* One device is deleted, or a room and with it every device it has.        *)
Remove(D) ==
    /\ \A d \in D : status[d] \in Present
    /\ status' = [d \in Devices |-> IF d \in D THEN "gone" ELSE status[d]]

Next ==
    \/ \E d \in Devices : Enrol(d) \/ Connect(d) \/ Disconnect(d) \/ Kick(d)
    \/ \E D \in SUBSET Devices : Remove(D)

Spec == Init /\ [][Next]_status
=============================================================================
