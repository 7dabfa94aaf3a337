---------------------------- MODULE Reachability ----------------------------
(***************************************************************************)
(* Sessions of one device that overlap may take each other out of the      *)
(* registry (run sessions_overlap), and of two requests on one device the  *)
(* late one may remove a session that logged in with the other's token.    *)
(* This module adds to Sessions the memory of which devices that can       *)
(* concern, and states that no other device is ever out of reach.          *)
(***************************************************************************)
EXTENDS Sessions

VARIABLES
    contended,  \* history: devices that two requests were busy with at once,
                \* and that have had one ever since
    shared      \* history: devices of which two sessions were alive at once,
                \* or one while contended, and that have had one ever since

reachVars == <<vars, contended, shared>>

ReachInit == Init /\ contended = {} /\ shared = {}

ReachNext ==
    /\ Next
    /\ contended' = {d \in Devices :
                       \E a \in Callers :
                         /\ adev'[a] = d
                         /\ \/ d \in contended
                            \/ \E b \in Callers \ {a} : adev'[b] = d}
    /\ shared' = {d \in Devices :
                    \E c \in Conns :
                      /\ dev'[c] = d
                      /\ \/ d \in shared \cup contended'
                         \/ \E k \in Conns \ {c} : dev'[k] = d}

ReachSpec == ReachInit /\ [][ReachNext]_reachVars

ReachFairSpec == ReachSpec /\ Fairness

(* A client whose connection is up, that has not said goodbye and whose     *)
(* credentials stand, is found in the registry by a push or a kick, however *)
(* the sessions of its device and the requests on it followed each other,   *)
(* unless one began before another had ended.                               *)
AloneReachable ==
    \A c \in Conns :
        (/\ pc[c] \in Established /\ open[c]
         /\ grant[c] = "valid"
         /\ status[dev[c]] \in Present
         /\ dev[c] \notin shared) => clients[dev[c]] = c

-----------------------------------------------------------------------------
(* The parts of the inductive invariant that are not properties themselves. *)

(* A session's device has had a row; a Hello carries a token it was issued; *)
(* a connection without a session has no device.                            *)
KnownRows ==
    \A c \in Conns :
        /\ dev[c] \in Devices => status[dev[c]] # "none"
        /\ dev[c] \in Devices /\ pc[c] \in {"room_exists", "select"}
             => tok[c] <= token[dev[c]]
        /\ pc[c] \in {"idle", "ending"} => dev[c] = NoDevice

(* A session of a contended device is remembered as such.                   *)
Overlaps == \A c \in Conns : dev[c] \in contended => dev[c] \in shared

(* A request about to remove its device from the registry.                  *)
Dropping(a) == apc[a] \in {"drop", "kick_drop"} /\ adev[a] \notin contended

(* The device such a request kicked is kicked, the token it set is current. *)
WriteStands ==
    \A a \in Callers : Dropping(a) /\ status[adev[a]] \in Present =>
        \/ status[adev[a]] = "kicked"
        \/ apc[a] = "drop" /\ atok[a] = token[adev[a]]

(* Between its write and its removal nobody is, or gets, logged in to the   *)
(* device on credentials that stand: the removal meets no such session.     *)
NoHeirs ==
    \A a \in Callers, c \in Conns :
        (/\ Dropping(a)
         /\ dev[c] = adev[a] /\ status[dev[c]] \in Present
         /\ grant[c] = "valid") =>
            /\ pc[c] \notin {"register"} \cup Established
            /\ pc[c] = "update" => seen[c] = "kicked"
            /\ \/ status[dev[c]] = "kicked"
               \/ pc[c] \in {"room_exists", "select"} => tok[c] # token[dev[c]]

ReachInv ==
    /\ SessionsInv
    /\ KnownRows
    /\ Overlaps
    /\ WriteStands
    /\ NoHeirs
    /\ AloneReachable
=============================================================================
