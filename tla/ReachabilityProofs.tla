------------------------- MODULE ReachabilityProofs -------------------------
(***************************************************************************)
(* Proofs about Reachability, for any number of devices, connections and   *)
(* concurrent requests.  The session of a device that has had no rival is  *)
(* in the registry because nothing that runs at the same time can remove   *)
(* it: not another session, for there is none, and not a request, for one  *)
(* that is about to remove the entry has first taken away the credentials  *)
(* of every session that could have put it there (NoHeirs).                *)
(***************************************************************************)
EXTENDS Reachability, SessionsProofs

USE DEF reachVars, vars, store, session, channel, request, history,
        Goto, Finish, Accept, Receive, Answer, Proceed

(* What the histories say of a device after a step: one not remembered was  *)
(* not remembered before, and has one request, or one session, at most.     *)
LEMMA Remembered ==
    ASSUME ReachNext
    PROVE  /\ \A a \in Callers : adev'[a] \in Devices \ contended' =>
                 /\ adev'[a] \notin contended
                 /\ \A b \in Callers : adev'[b] = adev'[a] => b = a
           /\ \A c \in Conns : dev'[c] \in Devices \ shared' =>
                 /\ dev'[c] \notin shared
                 /\ \A k \in Conns : dev'[k] = dev'[c] => k = c
           /\ Overlaps'
<1>1. contended' \subseteq Devices
  BY DEF ReachNext
<1>2. \A a \in Callers, b \in Callers :
        adev'[a] \in Devices \ contended' /\ adev'[b] = adev'[a] => b = a
  BY DEF ReachNext
<1>3. \A a \in Callers : adev'[a] \in Devices \ contended'
                            => adev'[a] \notin contended
  BY DEF ReachNext
<1>4. \A c \in Conns, k \in Conns :
        dev'[c] \in Devices \ shared' /\ dev'[k] = dev'[c] => k = c
  BY DEF ReachNext
<1>5. \A c \in Conns : dev'[c] \in Devices \ shared' => dev'[c] \notin shared
  BY DEF ReachNext
<1>6. Overlaps'
  BY <1>1 DEF ReachNext, Overlaps
<1> QED BY <1>2, <1>3, <1>4, <1>5, <1>6

-----------------------------------------------------------------------------
(* Every step keeps KnownRows: a row, once there, is 'gone' at worst, and   *)
(* tokens are only ever replaced by later ones.                             *)
LEMMA KnownStep ==
    ASSUME TypeOK, Named, KnownRows, Next PROVE KnownRows'
<1> USE DevicesAssumption
<1>1. ASSUME NEW j \in Conns, HelloNew(j) PROVE KnownRows'
  BY <1>1 DEF HelloNew, TypeOK, Named, KnownRows, Points, Hellos, Attached,
     Established, Present
<1>2. ASSUME NEW j \in Conns, NEW d \in Devices, NEW t \in 1 .. MaxToken,
             HelloAgain(j, d, t)
      PROVE  KnownRows'
  BY <1>2 DEF HelloAgain, Unpublished, TypeOK, Named, KnownRows, Points,
     Hellos, Attached, Established, Present
<1>3. ASSUME NEW j \in Conns, NEW r \in {<< >>, <<"Reject">>},
             HelloRefused(j, r)
      PROVE  KnownRows'
  BY <1>3 DEF HelloRefused, TypeOK, Named, KnownRows, Points, Hellos,
     Attached, Established, Present
<1>4. ASSUME NEW j \in Conns, RoomExists(j) PROVE KnownRows'
  BY <1>4 DEF RoomExists, TypeOK, Named, KnownRows, Points, Hellos, Attached,
     Established, Present
<1>5. ASSUME NEW j \in Conns, NEW d \in Devices, InsertDevice(j, d)
      PROVE  KnownRows'
  BY <1>5 DEF InsertDevice, Enqueue, TypeOK, Named, KnownRows, Points, Hellos,
     Attached, Established, Present
<1>6. ASSUME NEW j \in Conns, SelectDevice(j) PROVE KnownRows'
  BY <1>6 DEF SelectDevice, Authentic, TypeOK, Named, KnownRows, Points,
     Hellos, Attached, Established, Present
<1>7. ASSUME NEW j \in Conns, UpdateDevice(j) PROVE KnownRows'
  BY <1>7 DEF UpdateDevice, Enqueue, MarkDevice, TypeOK, Named, KnownRows,
     Points, Hellos, Attached, Established, Present
<1>8. ASSUME NEW j \in Conns, TurnAway(j) PROVE KnownRows'
  BY <1>8 DEF TurnAway, Enqueue, MarkDevice, TypeOK, Named, KnownRows, Points,
     Hellos, Attached, Established, Present
<1>9. ASSUME NEW j \in Conns, HelloFails(j) PROVE KnownRows'
  BY <1>9 DEF HelloFails, TypeOK, Named, KnownRows, Points, Hellos, Attached,
     Established, Present
<1>10. ASSUME NEW j \in Conns, RegisterClient(j) PROVE KnownRows'
  BY <1>10 DEF RegisterClient, TypeOK, Named, KnownRows, Points, Hellos,
     Attached, Established, Present
<1>11. ASSUME NEW j \in Conns, NEW p \in {"recv", "record"}, SyncConfig(j, p)
      PROVE  KnownRows'
  BY <1>11 DEF SyncConfig, TypeOK, Named, KnownRows, Points, Hellos, Attached,
     Established, Present
<1>12. ASSUME NEW j \in Conns, RecordPush(j) PROVE KnownRows'
  BY <1>12 DEF RecordPush, TypeOK, Named, KnownRows, Points, Hellos, Attached,
     Established, Present
<1>13. ASSUME NEW j \in Conns, SendPush(j) PROVE KnownRows'
  BY <1>13 DEF SendPush, Enqueue, TypeOK, Named, KnownRows, Points, Hellos,
     Attached, Established, Present
<1>14. ASSUME NEW j \in Conns, NEW p \in {"recv", "sync"}, ReceiveConfig(j, p)
      PROVE  KnownRows'
  BY <1>14 DEF ReceiveConfig, MarkDevice, TypeOK, Named, KnownRows, Points,
     Hellos, Attached, Established, Present
<1>15. ASSUME NEW j \in Conns, ReceiveStopped(j) PROVE KnownRows'
  BY <1>15 DEF ReceiveStopped, TypeOK, Named, KnownRows, Points, Hellos,
     Attached, Established, Present
<1>16. ASSUME NEW j \in Conns, ReceiveDisconnect(j) PROVE KnownRows'
  BY <1>16 DEF ReceiveDisconnect, TypeOK, Named, KnownRows, Points, Hellos,
     Attached, Established, Present
<1>17. ASSUME NEW j \in Conns, DisconnectOffline(j) PROVE KnownRows'
  BY <1>17 DEF DisconnectOffline, MarkDevice, TypeOK, Named, KnownRows,
     Points, Hellos, Attached, Established, Present
<1>18. ASSUME NEW j \in Conns, Unregister(j) PROVE KnownRows'
  BY <1>18 DEF Unregister, TypeOK, Named, KnownRows, Points, Hellos, Attached,
     Established, Present
<1>19. ASSUME NEW j \in Conns, MarkDeviceOffline(j) PROVE KnownRows'
  BY <1>19 DEF MarkDeviceOffline, MarkDevice, TypeOK, Named, KnownRows,
     Points, Hellos, Attached, Established, Present
<1>20. ASSUME NEW j \in Conns, EndSession(j) PROVE KnownRows'
  BY <1>20 DEF EndSession, TypeOK, Named, KnownRows, Points, Hellos, Attached,
     Established, Present
<1>21. ASSUME NEW j \in Conns, StatementFails(j) PROVE KnownRows'
  BY <1>21 DEF StatementFails, TypeOK, Named, KnownRows, Points, Hellos,
     Attached, Established, Present
<1>22. ASSUME NEW j \in Conns, OfflineFails(j) PROVE KnownRows'
  BY <1>22 DEF OfflineFails, TypeOK, Named, KnownRows, Points, Hellos,
     Attached, Established, Present
<1>23. ASSUME NEW b \in Callers, KickWrite(b) PROVE KnownRows'
  BY <1>23 DEF KickWrite, Revoke, TypeOK, Named, KnownRows, Points, Hellos,
     Attached, Established, Present
<1>24. ASSUME NEW b \in Callers, DeleteWrite(b) PROVE KnownRows'
  BY <1>24 DEF DeleteWrite, Revoke, TypeOK, Named, KnownRows, Points, Hellos,
     Attached, Established, Present
<1>25. ASSUME NEW b \in Callers, RegenWrite(b) PROVE KnownRows'
  BY <1>25 DEF RegenWrite, Revoke, TypeOK, Named, KnownRows, Points, Hellos,
     Attached, Established, Present
<1>26. CASE DeleteRoom
  BY <1>26 DEF DeleteRoom, TypeOK, Named, KnownRows, Points, Hellos, Attached,
     Established, Present
<1>27. CASE HubRestart
  BY <1>27 DEF HubRestart, TypeOK, Named, KnownRows, Points, Hellos, Attached,
     Established, Present
<1>28. CASE UNCHANGED <<pc, dev, tok, status, token>>
  BY <1>28 DEF TypeOK, Named, KnownRows, Points, Hellos, Attached,
     Established, Present
<1> QED
  BY <1>1, <1>2, <1>3, <1>4, <1>5, <1>6, <1>7, <1>8, <1>9, <1>10, <1>11,
     <1>12, <1>13, <1>14, <1>15, <1>16, <1>17, <1>18, <1>19, <1>20, <1>21,
     <1>22, <1>23, <1>24, <1>25, <1>26, <1>27, <1>28 DEF Next, SessionStep,
     RequestStep, ReaderEnds, Deliver, StartRequest, KickDrop, RegenMissing,
     DropClient, RequestRecord, RequestSend, RequestFails, Enqueue

(* Every step keeps WriteStands: no statement lifts a kick, and only one    *)
(* more request on the same device could issue one more token.              *)
LEMMA StandsStep ==
    ASSUME TypeOK, Named, Named', WriteStands, ReachNext PROVE WriteStands'
<1> SUFFICES ASSUME NEW a \in Callers, Dropping(a)',
                    status'[adev'[a]] \in Present
             PROVE  \/ status'[adev'[a]] = "kicked"
                    \/ apc'[a] = "drop" /\ atok'[a] = token'[adev'[a]]
  BY DEF WriteStands
<1> DEFINE Stands == \/ status'[adev'[a]] = "kicked"
                     \/ apc'[a] = "drop" /\ atok'[a] = token'[adev'[a]]
<1> SUFFICES Stands
  OBVIOUS
<1>a. /\ apc'[a] \in {"drop", "kick_drop"}
      /\ adev'[a] \in Devices /\ adev'[a] \notin contended'
  BY DEF Dropping, Named
<1>b. /\ adev'[a] \notin contended
      /\ \A b \in Callers : adev'[b] = adev'[a] => b = a
  BY <1>a, Remembered
<1>c. /\ apc[a] \in {"drop", "kick_drop"} /\ adev'[a] = adev[a]
      /\ status[adev[a]] \in Present
      => \/ status[adev[a]] = "kicked"
         \/ apc[a] = "drop" /\ atok[a] = token[adev[a]]
  BY <1>b DEF WriteStands, Dropping
<1>d. Next
  BY DEF ReachNext
<1>1. ASSUME NEW j \in Conns, NEW d \in Devices, InsertDevice(j, d)
      PROVE  Stands
  BY <1>1, <1>a, <1>b, <1>c DEF InsertDevice, Enqueue, TypeOK, Named, Present
<1>2. ASSUME NEW j \in Conns, UpdateDevice(j) PROVE Stands
  BY <1>2, <1>a, <1>b, <1>c DEF UpdateDevice, Enqueue, MarkDevice, TypeOK,
     Named, Present
<1>3. ASSUME NEW j \in Conns, TurnAway(j) PROVE Stands
  BY <1>3, <1>a, <1>b, <1>c DEF TurnAway, Enqueue, MarkDevice, TypeOK, Named,
     Present
<1>4. ASSUME NEW j \in Conns, NEW p \in {"recv", "sync"}, ReceiveConfig(j, p)
      PROVE  Stands
  BY <1>4, <1>a, <1>b, <1>c DEF ReceiveConfig, MarkDevice, TypeOK, Named,
     Present
<1>5. ASSUME NEW j \in Conns, DisconnectOffline(j) PROVE Stands
  BY <1>5, <1>a, <1>b, <1>c DEF DisconnectOffline, MarkDevice, TypeOK, Named,
     Present
<1>6. ASSUME NEW j \in Conns, MarkDeviceOffline(j) PROVE Stands
  BY <1>6, <1>a, <1>b, <1>c DEF MarkDeviceOffline, MarkDevice, TypeOK, Named,
     Present
<1>7. ASSUME NEW b \in Callers, NEW d \in Devices,
             NEW op \in {"kick", "delete", "regen", "record"},
             StartRequest(b, d, op)
      PROVE  Stands
  BY <1>7, <1>a, <1>b, <1>c DEF StartRequest, TypeOK, Named, Present
<1>8. ASSUME NEW b \in Callers, KickWrite(b) PROVE Stands
  BY <1>8, <1>a, <1>b, <1>c DEF KickWrite, Revoke, TypeOK, Named, Present
<1>9. ASSUME NEW b \in Callers, KickDrop(b) PROVE Stands
  BY <1>9, <1>a, <1>b, <1>c DEF KickDrop, Enqueue, TypeOK, Named, Present
<1>10. ASSUME NEW b \in Callers, DeleteWrite(b) PROVE Stands
  BY <1>10, <1>a, <1>b, <1>c DEF DeleteWrite, Revoke, TypeOK, Named, Present
<1>11. ASSUME NEW b \in Callers, RegenWrite(b) PROVE Stands
  BY <1>11, <1>a, <1>b, <1>c DEF RegenWrite, Revoke, TypeOK, Named, Present
<1>12. ASSUME NEW b \in Callers, RegenMissing(b) PROVE Stands
  BY <1>12, <1>a, <1>b, <1>c DEF RegenMissing, TypeOK, Named, Present
<1>13. ASSUME NEW b \in Callers, DropClient(b) PROVE Stands
  BY <1>13, <1>a, <1>b, <1>c DEF DropClient, TypeOK, Named, Present
<1>14. ASSUME NEW b \in Callers, RequestRecord(b) PROVE Stands
  BY <1>14, <1>a, <1>b, <1>c DEF RequestRecord, TypeOK, Named, Present
<1>15. ASSUME NEW b \in Callers, RequestSend(b) PROVE Stands
  BY <1>15, <1>a, <1>b, <1>c DEF RequestSend, Enqueue, TypeOK, Named, Present
<1>16. ASSUME NEW b \in Callers, RequestFails(b) PROVE Stands
  BY <1>16, <1>a, <1>b, <1>c DEF RequestFails, TypeOK, Named, Present
<1>17. CASE DeleteRoom
  BY <1>17, <1>a, <1>b, <1>c DEF DeleteRoom, TypeOK, Named, Present
<1>18. CASE HubRestart
  BY <1>18, <1>a, <1>b, <1>c DEF HubRestart, TypeOK, Named, Present
<1>19. CASE UNCHANGED <<apc, adev, atok, status, token>>
  BY <1>19, <1>a, <1>b, <1>c DEF TypeOK, Named, Present
<1> QED
  BY <1>d, <1>1, <1>2, <1>3, <1>4, <1>5, <1>6, <1>7, <1>8, <1>9, <1>10, <1>11,
     <1>12, <1>13, <1>14, <1>15, <1>16, <1>17, <1>18, <1>19 DEF Next,
     SessionStep, RequestStep, HelloNew, HelloAgain, HelloRefused, RoomExists,
     SelectDevice, HelloFails, RegisterClient, SyncConfig, RecordPush,
     SendPush, ReceiveStopped, ReceiveDisconnect, Unregister, EndSession,
     StatementFails, OfflineFails, ReaderEnds, Deliver, Enqueue

(* Every step keeps NoHeirs: whoever is logged in loses the credentials     *)
(* with the write, whoever is on the way shows a token that is no longer    *)
(* the row's, or finds the row kicked, and the new token is not out yet.    *)
LEMMA HeirsStep ==
    ASSUME TypeOK, Named, Named', KnownRows, WriteStands, NoHeirs, ReachNext
    PROVE  NoHeirs'
<1> DEFINE Barred(k) ==
      /\ pc[k] \notin {"register"} \cup Established
      /\ pc[k] = "update" => seen[k] = "kicked"
      /\ \/ status[dev[k]] = "kicked"
         \/ pc[k] \in {"room_exists", "select"} => tok[k] # token[dev[k]]
<1> SUFFICES ASSUME NEW a \in Callers, NEW k \in Conns, Dropping(a)',
                    dev'[k] = adev'[a], status'[dev'[k]] \in Present,
                    grant'[k] = "valid"
             PROVE  Barred(k)'
  BY DEF NoHeirs
<1>a. /\ apc'[a] \in {"drop", "kick_drop"}
      /\ adev'[a] \in Devices /\ adev'[a] \notin contended'
  BY DEF Dropping, Named
<1>b. /\ adev'[a] \notin contended
      /\ \A b \in Callers : adev'[b] = adev'[a] => b = a
  BY <1>a, Remembered
<1>c. /\ apc[a] \in {"drop", "kick_drop"} /\ adev'[a] = adev[a]
      /\ dev[k] = adev[a] /\ status[dev[k]] \in Present
      /\ grant[k] = "valid"
      => Barred(k)
  BY <1>b DEF NoHeirs, Dropping
<1>d. /\ apc[a] \in {"drop", "kick_drop"} /\ adev'[a] = adev[a]
      /\ status[adev[a]] \in Present
      => \/ status[adev[a]] = "kicked"
         \/ apc[a] = "drop" /\ atok[a] = token[adev[a]]
  BY <1>b DEF WriteStands, Dropping
<1>e. Next
  BY DEF ReachNext
<1>1. ASSUME NEW j \in Conns, HelloNew(j) PROVE Barred(k)'
  <2>1. CASE k = j
    <3>1. dev[j] = NoDevice /\ dev' = dev
      BY <1>1 DEF HelloNew, KnownRows
    <3> QED BY <3>1, <2>1, <1>a, DevicesAssumption
  <2>2. CASE k # j
    <3>1. pc'[k] = pc[k]
      BY <1>1, <2>2 DEF HelloNew, TypeOK
    <3> QED BY <1>1, <3>1, <1>a, <1>c DEF HelloNew
  <2> QED BY <2>1, <2>2
<1>2. ASSUME NEW j \in Conns, NEW d \in Devices, NEW t \in 1 .. MaxToken,
             HelloAgain(j, d, t)
      PROVE  Barred(k)'
  BY <1>2, <1>a, <1>b, <1>c, <1>d DEF HelloAgain, Unpublished, TypeOK, Named,
     KnownRows, Present, Established
<1>3. ASSUME NEW j \in Conns, NEW r \in {<< >>, <<"Reject">>},
             HelloRefused(j, r)
      PROVE  Barred(k)'
  BY <1>3, <1>a, <1>b, <1>c, <1>d DEF HelloRefused, TypeOK, Named, KnownRows,
     Present, Established
<1>4. ASSUME NEW j \in Conns, RoomExists(j) PROVE Barred(k)'
  BY <1>4, <1>a, <1>b, <1>c, <1>d DEF RoomExists, TypeOK, Named, KnownRows,
     Present, Established
<1>5. ASSUME NEW j \in Conns, NEW d \in Devices, InsertDevice(j, d)
      PROVE  Barred(k)'
  BY <1>5, <1>a, <1>b, <1>c, <1>d DEF InsertDevice, Enqueue, TypeOK, Named,
     KnownRows, Present, Established
<1>6. ASSUME NEW j \in Conns, SelectDevice(j) PROVE Barred(k)'
  BY <1>6, <1>a, <1>b, <1>c, <1>d DEF SelectDevice, Authentic, TypeOK, Named,
     KnownRows, Present, Established
<1>7. ASSUME NEW j \in Conns, UpdateDevice(j) PROVE Barred(k)'
  BY <1>7, <1>a, <1>b, <1>c, <1>d DEF UpdateDevice, Enqueue, MarkDevice,
     TypeOK, Named, KnownRows, Present, Established
<1>8. ASSUME NEW j \in Conns, TurnAway(j) PROVE Barred(k)'
  BY <1>8, <1>a, <1>b, <1>c, <1>d DEF TurnAway, Enqueue, MarkDevice, TypeOK,
     Named, KnownRows, Present, Established
<1>9. ASSUME NEW j \in Conns, HelloFails(j) PROVE Barred(k)'
  BY <1>9, <1>a, <1>b, <1>c, <1>d DEF HelloFails, TypeOK, Named, KnownRows,
     Present, Established
<1>10. ASSUME NEW j \in Conns, RegisterClient(j) PROVE Barred(k)'
  BY <1>10, <1>a, <1>b, <1>c, <1>d DEF RegisterClient, TypeOK, Named,
     KnownRows, Present, Established
<1>11. ASSUME NEW j \in Conns, NEW p \in {"recv", "record"}, SyncConfig(j, p)
      PROVE  Barred(k)'
  BY <1>11, <1>a, <1>b, <1>c, <1>d DEF SyncConfig, TypeOK, Named, KnownRows,
     Present, Established
<1>12. ASSUME NEW j \in Conns, RecordPush(j) PROVE Barred(k)'
  BY <1>12, <1>a, <1>b, <1>c, <1>d DEF RecordPush, TypeOK, Named, KnownRows,
     Present, Established
<1>13. ASSUME NEW j \in Conns, SendPush(j) PROVE Barred(k)'
  BY <1>13, <1>a, <1>b, <1>c, <1>d DEF SendPush, Enqueue, TypeOK, Named,
     KnownRows, Present, Established
<1>14. ASSUME NEW j \in Conns, NEW p \in {"recv", "sync"}, ReceiveConfig(j, p)
      PROVE  Barred(k)'
  BY <1>14, <1>a, <1>b, <1>c, <1>d DEF ReceiveConfig, MarkDevice, TypeOK,
     Named, KnownRows, Present, Established
<1>15. ASSUME NEW j \in Conns, ReceiveStopped(j) PROVE Barred(k)'
  BY <1>15, <1>a, <1>b, <1>c, <1>d DEF ReceiveStopped, TypeOK, Named,
     KnownRows, Present, Established
<1>16. ASSUME NEW j \in Conns, ReceiveDisconnect(j) PROVE Barred(k)'
  BY <1>16, <1>a, <1>b, <1>c, <1>d DEF ReceiveDisconnect, TypeOK, Named,
     KnownRows, Present, Established
<1>17. ASSUME NEW j \in Conns, DisconnectOffline(j) PROVE Barred(k)'
  BY <1>17, <1>a, <1>b, <1>c, <1>d DEF DisconnectOffline, MarkDevice, TypeOK,
     Named, KnownRows, Present, Established
<1>18. ASSUME NEW j \in Conns, Unregister(j) PROVE Barred(k)'
  BY <1>18, <1>a, <1>b, <1>c, <1>d DEF Unregister, TypeOK, Named, KnownRows,
     Present, Established
<1>19. ASSUME NEW j \in Conns, MarkDeviceOffline(j) PROVE Barred(k)'
  BY <1>19, <1>a, <1>b, <1>c, <1>d DEF MarkDeviceOffline, MarkDevice, TypeOK,
     Named, KnownRows, Present, Established
<1>20. ASSUME NEW j \in Conns, EndSession(j) PROVE Barred(k)'
  BY <1>20, <1>a, <1>b, <1>c, <1>d DEF EndSession, TypeOK, Named, KnownRows,
     Present, Established
<1>21. ASSUME NEW j \in Conns, StatementFails(j) PROVE Barred(k)'
  BY <1>21, <1>a, <1>b, <1>c, <1>d DEF StatementFails, TypeOK, Named,
     KnownRows, Present, Established
<1>22. ASSUME NEW j \in Conns, OfflineFails(j) PROVE Barred(k)'
  BY <1>22, <1>a, <1>b, <1>c, <1>d DEF OfflineFails, TypeOK, Named, KnownRows,
     Present, Established
<1>23. ASSUME NEW b \in Callers, NEW d \in Devices,
             NEW op \in {"kick", "delete", "regen", "record"},
             StartRequest(b, d, op)
      PROVE  Barred(k)'
  BY <1>23, <1>a, <1>b, <1>c, <1>d DEF StartRequest, TypeOK, Named, KnownRows,
     Present, Established
<1>24. ASSUME NEW b \in Callers, KickWrite(b) PROVE Barred(k)'
  BY <1>24, <1>a, <1>b, <1>c, <1>d DEF KickWrite, Revoke, TypeOK, Named,
     KnownRows, Present, Established
<1>25. ASSUME NEW b \in Callers, KickDrop(b) PROVE Barred(k)'
  BY <1>25, <1>a, <1>b, <1>c, <1>d DEF KickDrop, Enqueue, TypeOK, Named,
     KnownRows, Present, Established
<1>26. ASSUME NEW b \in Callers, DeleteWrite(b) PROVE Barred(k)'
  BY <1>26, <1>a, <1>b, <1>c, <1>d DEF DeleteWrite, Revoke, TypeOK, Named,
     KnownRows, Present, Established
<1>27. ASSUME NEW b \in Callers, RegenWrite(b) PROVE Barred(k)'
  BY <1>27, <1>a, <1>b, <1>c, <1>d DEF RegenWrite, Revoke, TypeOK, Named,
     KnownRows, Present, Established
<1>28. ASSUME NEW b \in Callers, RegenMissing(b) PROVE Barred(k)'
  BY <1>28, <1>a, <1>b, <1>c, <1>d DEF RegenMissing, TypeOK, Named, KnownRows,
     Present, Established
<1>29. ASSUME NEW b \in Callers, DropClient(b) PROVE Barred(k)'
  BY <1>29, <1>a, <1>b, <1>c, <1>d DEF DropClient, TypeOK, Named, KnownRows,
     Present, Established
<1>30. ASSUME NEW b \in Callers, RequestRecord(b) PROVE Barred(k)'
  BY <1>30, <1>a, <1>b, <1>c, <1>d DEF RequestRecord, TypeOK, Named,
     KnownRows, Present, Established
<1>31. ASSUME NEW b \in Callers, RequestSend(b) PROVE Barred(k)'
  BY <1>31, <1>a, <1>b, <1>c, <1>d DEF RequestSend, Enqueue, TypeOK, Named,
     KnownRows, Present, Established
<1>32. ASSUME NEW b \in Callers, RequestFails(b) PROVE Barred(k)'
  BY <1>32, <1>a, <1>b, <1>c, <1>d DEF RequestFails, TypeOK, Named, KnownRows,
     Present, Established
<1>33. CASE DeleteRoom
  BY <1>33, <1>a, <1>b, <1>c, <1>d DEF DeleteRoom, TypeOK, Named, KnownRows,
     Present, Established
<1>34. CASE HubRestart
  BY <1>34, <1>a, <1>b, <1>c, <1>d DEF HubRestart, TypeOK, Named, KnownRows,
     Present, Established
<1>35. CASE UNCHANGED <<pc, dev, tok, seen, apc, adev, status, token, grant>>
  BY <1>35, <1>a, <1>b, <1>c, <1>d DEF TypeOK, Named, KnownRows, Present,
     Established
<1> QED
  BY <1>e, <1>1, <1>2, <1>3, <1>4, <1>5, <1>6, <1>7, <1>8, <1>9, <1>10, <1>11,
     <1>12, <1>13, <1>14, <1>15, <1>16, <1>17, <1>18, <1>19, <1>20, <1>21,
     <1>22, <1>23, <1>24, <1>25, <1>26, <1>27, <1>28, <1>29, <1>30, <1>31,
     <1>32, <1>33, <1>34, <1>35 DEF Next, SessionStep, RequestStep,
     ReaderEnds, Deliver

(* Every step keeps AloneReachable: another session of the device would be  *)
(* remembered in `shared`, and the removal of a request meets no session    *)
(* that NoHeirs has not barred.                                             *)
LEMMA AloneStep ==
    ASSUME TypeOK, Named, Named', KnownRows, Overlaps, NoHeirs,
           AloneReachable, ReachNext
    PROVE  AloneReachable'
<1> SUFFICES ASSUME NEW k \in Conns, pc'[k] \in Established, open'[k],
                    grant'[k] = "valid", status'[dev'[k]] \in Present,
                    dev'[k] \notin shared'
             PROVE  clients'[dev'[k]] = k
  BY DEF AloneReachable
<1> DEFINE Found == clients'[dev'[k]] = k
<1> SUFFICES Found
  OBVIOUS
<1>a. dev'[k] \in Devices
  BY DEF Named, Attached
<1>b. /\ dev'[k] \notin shared
      /\ \A j \in Conns : dev'[j] = dev'[k] => j = k
  BY <1>a, Remembered
<1>c. /\ pc[k] \in Established /\ open[k] /\ grant[k] = "valid"
      /\ dev[k] = dev'[k] /\ status[dev[k]] \in Present
      => clients[dev[k]] = k
  BY <1>b DEF AloneReachable
<1>d. ASSUME NEW b \in Callers, apc[b] \in {"drop", "kick_drop"},
             dev[k] = dev'[k], pc[k] \in Established, grant[k] = "valid",
             status[dev[k]] \in Present
      PROVE  adev[b] # dev[k]
  <2> SUFFICES ASSUME adev[b] = dev[k] PROVE FALSE
    OBVIOUS
  <2>1. adev[b] \notin contended
    BY <1>b, <1>d DEF Overlaps
  <2> QED BY <2>1, <1>d DEF NoHeirs, Dropping
<1>e. Next
  BY DEF ReachNext
<1>1. ASSUME NEW j \in Conns, HelloNew(j) PROVE Found
  BY <1>1, <1>a, <1>b, <1>c DEF HelloNew, TypeOK, Named, KnownRows, Attached,
     Present, Established
<1>2. ASSUME NEW j \in Conns, NEW d \in Devices, NEW t \in 1 .. MaxToken,
             HelloAgain(j, d, t)
      PROVE  Found
  BY <1>2, <1>a, <1>b, <1>c DEF HelloAgain, Unpublished, TypeOK, Named,
     KnownRows, Attached, Present, Established
<1>3. ASSUME NEW j \in Conns, NEW r \in {<< >>, <<"Reject">>},
             HelloRefused(j, r)
      PROVE  Found
  BY <1>3, <1>a, <1>b, <1>c DEF HelloRefused, TypeOK, Named, KnownRows,
     Attached, Present, Established
<1>4. ASSUME NEW j \in Conns, RoomExists(j) PROVE Found
  BY <1>4, <1>a, <1>b, <1>c DEF RoomExists, TypeOK, Named, KnownRows,
     Attached, Present, Established
<1>5. ASSUME NEW j \in Conns, NEW d \in Devices, InsertDevice(j, d)
      PROVE  Found
  BY <1>5, <1>a, <1>b, <1>c DEF InsertDevice, Enqueue, TypeOK, Named,
     KnownRows, Attached, Present, Established
<1>6. ASSUME NEW j \in Conns, SelectDevice(j) PROVE Found
  BY <1>6, <1>a, <1>b, <1>c DEF SelectDevice, Authentic, TypeOK, Named,
     KnownRows, Attached, Present, Established
<1>7. ASSUME NEW j \in Conns, UpdateDevice(j) PROVE Found
  BY <1>7, <1>a, <1>b, <1>c DEF UpdateDevice, Enqueue, MarkDevice, TypeOK,
     Named, KnownRows, Attached, Present, Established
<1>8. ASSUME NEW j \in Conns, TurnAway(j) PROVE Found
  BY <1>8, <1>a, <1>b, <1>c DEF TurnAway, Enqueue, MarkDevice, TypeOK, Named,
     KnownRows, Attached, Present, Established
<1>9. ASSUME NEW j \in Conns, HelloFails(j) PROVE Found
  BY <1>9, <1>a, <1>b, <1>c DEF HelloFails, TypeOK, Named, KnownRows,
     Attached, Present, Established
<1>10. ASSUME NEW j \in Conns, RegisterClient(j) PROVE Found
  BY <1>10, <1>a, <1>b, <1>c DEF RegisterClient, TypeOK, Named, KnownRows,
     Attached, Present, Established
<1>11. ASSUME NEW j \in Conns, NEW p \in {"recv", "record"}, SyncConfig(j, p)
      PROVE  Found
  BY <1>11, <1>a, <1>b, <1>c DEF SyncConfig, TypeOK, Named, KnownRows,
     Attached, Present, Established
<1>12. ASSUME NEW j \in Conns, RecordPush(j) PROVE Found
  BY <1>12, <1>a, <1>b, <1>c DEF RecordPush, TypeOK, Named, KnownRows,
     Attached, Present, Established
<1>13. ASSUME NEW j \in Conns, SendPush(j) PROVE Found
  BY <1>13, <1>a, <1>b, <1>c DEF SendPush, Enqueue, TypeOK, Named, KnownRows,
     Attached, Present, Established
<1>14. ASSUME NEW j \in Conns, NEW p \in {"recv", "sync"}, ReceiveConfig(j, p)
      PROVE  Found
  BY <1>14, <1>a, <1>b, <1>c DEF ReceiveConfig, MarkDevice, TypeOK, Named,
     KnownRows, Attached, Present, Established
<1>15. ASSUME NEW j \in Conns, ReceiveStopped(j) PROVE Found
  BY <1>15, <1>a, <1>b, <1>c DEF ReceiveStopped, TypeOK, Named, KnownRows,
     Attached, Present, Established
<1>16. ASSUME NEW j \in Conns, ReceiveDisconnect(j) PROVE Found
  BY <1>16, <1>a, <1>b, <1>c DEF ReceiveDisconnect, TypeOK, Named, KnownRows,
     Attached, Present, Established
<1>17. ASSUME NEW j \in Conns, DisconnectOffline(j) PROVE Found
  BY <1>17, <1>a, <1>b, <1>c DEF DisconnectOffline, MarkDevice, TypeOK, Named,
     KnownRows, Attached, Present, Established
<1>18. ASSUME NEW j \in Conns, Unregister(j) PROVE Found
  BY <1>18, <1>a, <1>b, <1>c DEF Unregister, TypeOK, Named, KnownRows,
     Attached, Present, Established
<1>19. ASSUME NEW j \in Conns, MarkDeviceOffline(j) PROVE Found
  BY <1>19, <1>a, <1>b, <1>c DEF MarkDeviceOffline, MarkDevice, TypeOK, Named,
     KnownRows, Attached, Present, Established
<1>20. ASSUME NEW j \in Conns, EndSession(j) PROVE Found
  BY <1>20, <1>a, <1>b, <1>c DEF EndSession, TypeOK, Named, KnownRows,
     Attached, Present, Established
<1>21. ASSUME NEW j \in Conns, StatementFails(j) PROVE Found
  BY <1>21, <1>a, <1>b, <1>c DEF StatementFails, TypeOK, Named, KnownRows,
     Attached, Present, Established
<1>22. ASSUME NEW j \in Conns, OfflineFails(j) PROVE Found
  BY <1>22, <1>a, <1>b, <1>c DEF OfflineFails, TypeOK, Named, KnownRows,
     Attached, Present, Established
<1>23. ASSUME NEW j \in Conns, ReaderEnds(j) PROVE Found
  BY <1>23, <1>a, <1>b, <1>c DEF ReaderEnds, TypeOK, Named, KnownRows,
     Attached, Present, Established
<1>24. ASSUME NEW b \in Callers, NEW d \in Devices,
             NEW op \in {"kick", "delete", "regen", "record"},
             StartRequest(b, d, op)
      PROVE  Found
  BY <1>24, <1>a, <1>b, <1>c DEF StartRequest, TypeOK, Named, KnownRows,
     Attached, Present, Established
<1>25. ASSUME NEW b \in Callers, KickWrite(b) PROVE Found
  BY <1>25, <1>a, <1>b, <1>c DEF KickWrite, Revoke, TypeOK, Named, KnownRows,
     Attached, Present, Established
<1>26. ASSUME NEW b \in Callers, KickDrop(b) PROVE Found
  BY <1>26, <1>a, <1>b, <1>c, <1>d DEF KickDrop, Enqueue, TypeOK, Named,
     KnownRows, Attached, Present, Established
<1>27. ASSUME NEW b \in Callers, DeleteWrite(b) PROVE Found
  BY <1>27, <1>a, <1>b, <1>c DEF DeleteWrite, Revoke, TypeOK, Named,
     KnownRows, Attached, Present, Established
<1>28. ASSUME NEW b \in Callers, RegenWrite(b) PROVE Found
  BY <1>28, <1>a, <1>b, <1>c DEF RegenWrite, Revoke, TypeOK, Named, KnownRows,
     Attached, Present, Established
<1>29. ASSUME NEW b \in Callers, RegenMissing(b) PROVE Found
  BY <1>29, <1>a, <1>b, <1>c DEF RegenMissing, TypeOK, Named, KnownRows,
     Attached, Present, Established
<1>30. ASSUME NEW b \in Callers, DropClient(b) PROVE Found
  BY <1>30, <1>a, <1>b, <1>c, <1>d DEF DropClient, TypeOK, Named, KnownRows,
     Attached, Present, Established
<1>31. ASSUME NEW b \in Callers, RequestRecord(b) PROVE Found
  BY <1>31, <1>a, <1>b, <1>c DEF RequestRecord, TypeOK, Named, KnownRows,
     Attached, Present, Established
<1>32. ASSUME NEW b \in Callers, RequestSend(b) PROVE Found
  BY <1>32, <1>a, <1>b, <1>c DEF RequestSend, Enqueue, TypeOK, Named,
     KnownRows, Attached, Present, Established
<1>33. ASSUME NEW b \in Callers, RequestFails(b) PROVE Found
  BY <1>33, <1>a, <1>b, <1>c DEF RequestFails, TypeOK, Named, KnownRows,
     Attached, Present, Established
<1>34. CASE DeleteRoom
  BY <1>34, <1>a, <1>b, <1>c DEF DeleteRoom, TypeOK, Named, KnownRows,
     Attached, Present, Established
<1>35. CASE HubRestart
  BY <1>35, <1>a, <1>b, <1>c DEF HubRestart, TypeOK, Named, KnownRows,
     Attached, Present, Established
<1>36. CASE UNCHANGED <<pc, dev, open, status, grant, clients>>
  BY <1>36, <1>a, <1>b, <1>c DEF TypeOK, Named, KnownRows, Attached, Present,
     Established
<1> QED
  BY <1>e, <1>1, <1>2, <1>3, <1>4, <1>5, <1>6, <1>7, <1>8, <1>9, <1>10, <1>11,
     <1>12, <1>13, <1>14, <1>15, <1>16, <1>17, <1>18, <1>19, <1>20, <1>21,
     <1>22, <1>23, <1>24, <1>25, <1>26, <1>27, <1>28, <1>29, <1>30, <1>31,
     <1>32, <1>33, <1>34, <1>35, <1>36 DEF Next, SessionStep, RequestStep,
     Deliver

-----------------------------------------------------------------------------
(* The initial states satisfy the inductive invariant ...                   *)
LEMMA ReachInvInit == ReachInit => ReachInv
<1> SUFFICES ASSUME ReachInit PROVE ReachInv
  OBVIOUS
<1>1. SessionsInv
  BY InvInit DEF ReachInit
<1>2. KnownRows /\ Overlaps
  BY DevicesAssumption DEF ReachInit, Init, KnownRows, Overlaps
<1>3. WriteStands /\ NoHeirs
  BY DEF ReachInit, Init, WriteStands, NoHeirs, Dropping
<1>4. AloneReachable
  BY DEF ReachInit, Init, AloneReachable, Established
<1> QED BY <1>1, <1>2, <1>3, <1>4 DEF ReachInv

(* ... and every step keeps it.                                             *)
LEMMA ReachInvStep == ReachInv /\ [ReachNext]_reachVars => ReachInv'
<1> SUFFICES ASSUME ReachInv, [ReachNext]_reachVars PROVE ReachInv'
  OBVIOUS
<1>1. CASE ReachNext
  <2>1. SessionsInv'
    BY <1>1, InvStep DEF ReachNext, ReachInv
  <2>2. Next /\ TypeOK /\ Named /\ Named'
    BY <1>1, <2>1 DEF ReachNext, ReachInv, SessionsInv
  <2>3. KnownRows'
    BY <2>2, KnownStep DEF ReachInv
  <2>4. Overlaps'
    BY <1>1, Remembered
  <2>5. WriteStands'
    BY <1>1, <2>2, StandsStep DEF ReachInv
  <2>6. NoHeirs'
    BY <1>1, <2>2, HeirsStep DEF ReachInv
  <2>7. AloneReachable'
    BY <1>1, <2>2, AloneStep DEF ReachInv
  <2> QED BY <2>1, <2>3, <2>4, <2>5, <2>6, <2>7 DEF ReachInv
<1>2. CASE UNCHANGED reachVars
  <2>1. SessionsInv'
    BY <1>2, InvStep DEF ReachInv
  <2>2. KnownRows' /\ Overlaps'
    BY <1>2 DEF ReachInv, KnownRows, Overlaps
  <2>3. WriteStands' /\ NoHeirs'
    BY <1>2 DEF ReachInv, WriteStands, NoHeirs, Dropping
  <2>4. AloneReachable'
    BY <1>2 DEF ReachInv, AloneReachable
  <2> QED BY <2>1, <2>2, <2>3, <2>4 DEF ReachInv
<1> QED BY <1>1, <1>2

(* A client that is connected and logged in on credentials that stand is in *)
(* AppState.clients, whatever its own earlier sessions, other devices and   *)
(* any number of kicks, deletions and new tokens did, as long as neither    *)
(* two sessions of its device nor two requests on it overlapped.            *)
THEOREM AloneIsReachable == ReachSpec => []AloneReachable
<1>1. ReachInv => AloneReachable
  BY DEF ReachInv
<1> QED BY <1>1, ReachInvInit, ReachInvStep, PTL DEF ReachSpec

===============================================================================
