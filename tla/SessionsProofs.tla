--------------------------- MODULE SessionsProofs ---------------------------
(***************************************************************************)
(* Proofs about Sessions, for any number of devices, connections and       *)
(* concurrent requests, any bounds and any combination of its switches.    *)
(*                                                                         *)
(* One lemma per conjunct of SessionsInv says that every step keeps it,    *)
(* with one step per action that touches the variables it speaks of; the   *)
(* theorems at the end put them together.                                  *)
(***************************************************************************)
EXTENDS Sessions, TLAPS

USE DEF vars, store, session, channel, request, history,
        Goto, Finish, Accept, Receive, Answer, Proceed

(* Every step keeps the types.                                              *)
LEMMA TypeStep ==
    ASSUME TypeOK, Named, [Next]_vars PROVE TypeOK'
<1> USE ConnsAssumption, DevicesAssumption, BoundsAssumption
<1>1. ASSUME NEW c \in Conns, HelloNew(c) PROVE TypeOK'
  BY <1>1 DEF HelloNew, TypeOK, Named, Points, Hellos, Attached, Established,
         Present, Requests, Messages
<1>2. ASSUME NEW c \in Conns, NEW d \in Devices, NEW t \in 1 .. MaxToken,
             HelloAgain(c, d, t)
      PROVE  TypeOK'
  BY <1>2 DEF HelloAgain, TypeOK, Named, Points, Hellos, Attached,
         Established, Present, Requests, Messages
<1>3. ASSUME NEW c \in Conns, NEW r \in {<< >>, <<"Reject">>},
             HelloRefused(c, r)
      PROVE  TypeOK'
  <2>1. << >> \in Seq(Messages) /\ <<"Reject">> \in Seq(Messages)
    BY DEF Messages
  <2> QED BY <1>3, <2>1 DEF HelloRefused, TypeOK, Points
<1>4. ASSUME NEW c \in Conns, RoomExists(c) PROVE TypeOK'
  BY <1>4 DEF RoomExists, TypeOK, Named, Points, Hellos, Attached,
         Established, Present, Requests, Messages
<1>5. ASSUME NEW c \in Conns, NEW d \in Devices, InsertDevice(c, d)
      PROVE  TypeOK'
  BY <1>5 DEF InsertDevice, Enqueue, TypeOK, Named, Points, Hellos, Attached,
         Established, Present, Requests, Messages
<1>6. ASSUME NEW c \in Conns, SelectDevice(c) PROVE TypeOK'
  BY <1>6 DEF SelectDevice, Authentic, TypeOK, Named, Points, Hellos,
         Attached, Established, Present, Requests, Messages
<1>7. ASSUME NEW c \in Conns, UpdateDevice(c) PROVE TypeOK'
  BY <1>7 DEF UpdateDevice, Enqueue, MarkDevice, TypeOK, Named, Points,
         Hellos, Attached, Established, Present, Requests, Messages
<1>8. ASSUME NEW c \in Conns, TurnAway(c) PROVE TypeOK'
  BY <1>8 DEF TurnAway, Enqueue, MarkDevice, TypeOK, Named, Points, Hellos,
         Attached, Established, Present, Requests, Messages
<1>9. ASSUME NEW c \in Conns, HelloFails(c) PROVE TypeOK'
  BY <1>9 DEF HelloFails, TypeOK, Named, Points, Hellos, Attached,
         Established, Present, Requests, Messages
<1>10. ASSUME NEW c \in Conns, RegisterClient(c) PROVE TypeOK'
  BY <1>10 DEF RegisterClient, TypeOK, Named, Points, Hellos, Attached,
         Established, Present, Requests, Messages
<1>11. ASSUME NEW c \in Conns, NEW p \in {"recv", "record"}, SyncConfig(c, p)
      PROVE  TypeOK'
  BY <1>11 DEF SyncConfig, TypeOK, Named, Points, Hellos, Attached,
         Established, Present, Requests, Messages
<1>12. ASSUME NEW c \in Conns, RecordPush(c) PROVE TypeOK'
  BY <1>12 DEF RecordPush, TypeOK, Named, Points, Hellos, Attached,
         Established, Present, Requests, Messages
<1>13. ASSUME NEW c \in Conns, SendPush(c) PROVE TypeOK'
  BY <1>13 DEF SendPush, Enqueue, TypeOK, Named, Points, Hellos, Attached,
         Established, Present, Requests, Messages
<1>14. ASSUME NEW c \in Conns, NEW p \in {"recv", "sync"}, ReceiveConfig(c, p)
      PROVE  TypeOK'
  BY <1>14 DEF ReceiveConfig, MarkDevice, TypeOK, Named, Points, Hellos,
         Attached, Established, Present, Requests, Messages
<1>15. ASSUME NEW c \in Conns, ReceiveStopped(c) PROVE TypeOK'
  BY <1>15 DEF ReceiveStopped, TypeOK, Named, Points, Hellos, Attached,
         Established, Present, Requests, Messages
<1>16. ASSUME NEW c \in Conns, ReceiveDisconnect(c) PROVE TypeOK'
  BY <1>16 DEF ReceiveDisconnect, TypeOK, Named, Points, Hellos, Attached,
         Established, Present, Requests, Messages
<1>17. ASSUME NEW c \in Conns, DisconnectOffline(c) PROVE TypeOK'
  BY <1>17 DEF DisconnectOffline, MarkDevice, TypeOK, Named, Points, Hellos,
         Attached, Established, Present, Requests, Messages
<1>18. ASSUME NEW c \in Conns, Unregister(c) PROVE TypeOK'
  BY <1>18 DEF Unregister, TypeOK, Named, Points, Hellos, Attached,
         Established, Present, Requests, Messages
<1>19. ASSUME NEW c \in Conns, MarkDeviceOffline(c) PROVE TypeOK'
  BY <1>19 DEF MarkDeviceOffline, MarkDevice, TypeOK, Named, Points, Hellos,
         Attached, Established, Present, Requests, Messages
<1>20. ASSUME NEW c \in Conns, EndSession(c) PROVE TypeOK'
  BY <1>20 DEF EndSession, TypeOK, Named, Points, Hellos, Attached,
         Established, Present, Requests, Messages
<1>21. ASSUME NEW c \in Conns, StatementFails(c) PROVE TypeOK'
  BY <1>21 DEF StatementFails, TypeOK, Named, Points, Hellos, Attached,
         Established, Present, Requests, Messages
<1>22. ASSUME NEW c \in Conns, OfflineFails(c) PROVE TypeOK'
  BY <1>22 DEF OfflineFails, TypeOK, Named, Points, Hellos, Attached,
         Established, Present, Requests, Messages
<1>23. ASSUME NEW c \in Conns, ReaderEnds(c) PROVE TypeOK'
  BY <1>23 DEF ReaderEnds, TypeOK, Named, Points, Hellos, Attached,
         Established, Present, Requests, Messages
<1>24. ASSUME NEW c \in Conns, Deliver(c) PROVE TypeOK'
  BY <1>24 DEF Deliver, TypeOK, Named, Points, Hellos, Attached, Established,
         Present, Requests, Messages
<1>25. ASSUME NEW a \in Callers, NEW d \in Devices, NEW op \in {"kick", "delete", "regen", "record"},
             StartRequest(a, d, op)
      PROVE  TypeOK'
  BY <1>25 DEF StartRequest, TypeOK, Named, Points, Hellos, Attached,
         Established, Present, Requests, Messages
<1>26. ASSUME NEW a \in Callers, KickWrite(a) PROVE TypeOK'
  BY <1>26 DEF KickWrite, Revoke, TypeOK, Named, Points, Hellos, Attached,
         Established, Present, Requests, Messages
<1>27. ASSUME NEW a \in Callers, KickDrop(a) PROVE TypeOK'
  BY <1>27 DEF KickDrop, Enqueue, TypeOK, Named, Points, Hellos, Attached,
         Established, Present, Requests, Messages
<1>28. ASSUME NEW a \in Callers, DeleteWrite(a) PROVE TypeOK'
  BY <1>28 DEF DeleteWrite, Revoke, TypeOK, Named, Points, Hellos, Attached,
         Established, Present, Requests, Messages
<1>29. ASSUME NEW a \in Callers, RegenWrite(a) PROVE TypeOK'
  BY <1>29 DEF RegenWrite, Revoke, TypeOK, Named, Points, Hellos, Attached,
         Established, Present, Requests, Messages
<1>30. ASSUME NEW a \in Callers, RegenMissing(a) PROVE TypeOK'
  BY <1>30 DEF RegenMissing, TypeOK, Named, Points, Hellos, Attached,
         Established, Present, Requests, Messages
<1>31. ASSUME NEW a \in Callers, DropClient(a) PROVE TypeOK'
  BY <1>31 DEF DropClient, TypeOK, Named, Points, Hellos, Attached,
         Established, Present, Requests, Messages
<1>32. ASSUME NEW a \in Callers, RequestRecord(a) PROVE TypeOK'
  BY <1>32 DEF RequestRecord, TypeOK, Named, Points, Hellos, Attached,
         Established, Present, Requests, Messages
<1>33. ASSUME NEW a \in Callers, RequestSend(a) PROVE TypeOK'
  BY <1>33 DEF RequestSend, Enqueue, TypeOK, Named, Points, Hellos, Attached,
         Established, Present, Requests, Messages
<1>34. ASSUME NEW a \in Callers, RequestFails(a) PROVE TypeOK'
  BY <1>34 DEF RequestFails, TypeOK, Named, Points, Hellos, Attached,
         Established, Present, Requests, Messages
<1>35. CASE DeleteRoom
  BY <1>35 DEF DeleteRoom, TypeOK, Named, Points, Hellos, Attached,
         Established, Present, Requests, Messages
<1>36. CASE HubRestart
  BY <1>36 DEF HubRestart, TypeOK, Named, Points, Hellos, Attached,
         Established, Present, Requests, Messages
<1>37. CASE UNCHANGED vars
  BY <1>37 DEF TypeOK, Named, Points, Hellos, Attached, Established, Present,
         Requests, Messages
<1> QED
  BY <1>1, <1>2, <1>3, <1>4, <1>5, <1>6, <1>7, <1>8, <1>9, <1>10, <1>11,
     <1>12, <1>13, <1>14, <1>15, <1>16, <1>17, <1>18, <1>19, <1>20, <1>21,
     <1>22, <1>23, <1>24, <1>25, <1>26, <1>27, <1>28, <1>29, <1>30, <1>31,
     <1>32, <1>33, <1>34, <1>35, <1>36, <1>37
  DEF Next, SessionStep, RequestStep

(* A session in its loop, and a request, keep naming a device.              *)
LEMMA NamedStep ==
    ASSUME TypeOK, Named, [Next]_vars PROVE Named'
<1> USE DevicesAssumption
<1>1. ASSUME NEW c \in Conns, HelloNew(c) PROVE Named'
  BY <1>1 DEF HelloNew, TypeOK, Named, Hellos, Attached, Established, Present
<1>2. ASSUME NEW c \in Conns, NEW d \in Devices, NEW t \in 1 .. MaxToken,
             HelloAgain(c, d, t)
      PROVE  Named'
  BY <1>2 DEF HelloAgain, TypeOK, Named, Hellos, Attached, Established,
         Present
<1>3. ASSUME NEW c \in Conns, NEW r \in {<< >>, <<"Reject">>},
             HelloRefused(c, r)
      PROVE  Named'
  BY <1>3 DEF HelloRefused, TypeOK, Named, Hellos, Attached, Established,
         Present
<1>4. ASSUME NEW c \in Conns, RoomExists(c) PROVE Named'
  BY <1>4 DEF RoomExists, TypeOK, Named, Hellos, Attached, Established,
         Present
<1>5. ASSUME NEW c \in Conns, NEW d \in Devices, InsertDevice(c, d)
      PROVE  Named'
  BY <1>5 DEF InsertDevice, Enqueue, TypeOK, Named, Hellos, Attached,
         Established, Present
<1>6. ASSUME NEW c \in Conns, SelectDevice(c) PROVE Named'
  BY <1>6 DEF SelectDevice, Authentic, TypeOK, Named, Hellos, Attached,
         Established, Present
<1>7. ASSUME NEW c \in Conns, UpdateDevice(c) PROVE Named'
  BY <1>7 DEF UpdateDevice, Enqueue, MarkDevice, TypeOK, Named, Hellos,
         Attached, Established, Present
<1>8. ASSUME NEW c \in Conns, TurnAway(c) PROVE Named'
  BY <1>8 DEF TurnAway, Enqueue, MarkDevice, TypeOK, Named, Hellos, Attached,
         Established, Present
<1>9. ASSUME NEW c \in Conns, HelloFails(c) PROVE Named'
  BY <1>9 DEF HelloFails, TypeOK, Named, Hellos, Attached, Established,
         Present
<1>10. ASSUME NEW c \in Conns, RegisterClient(c) PROVE Named'
  BY <1>10 DEF RegisterClient, TypeOK, Named, Hellos, Attached, Established,
         Present
<1>11. ASSUME NEW c \in Conns, NEW p \in {"recv", "record"}, SyncConfig(c, p)
      PROVE  Named'
  BY <1>11 DEF SyncConfig, TypeOK, Named, Hellos, Attached, Established,
         Present
<1>12. ASSUME NEW c \in Conns, RecordPush(c) PROVE Named'
  BY <1>12 DEF RecordPush, TypeOK, Named, Hellos, Attached, Established,
         Present
<1>13. ASSUME NEW c \in Conns, SendPush(c) PROVE Named'
  BY <1>13 DEF SendPush, Enqueue, TypeOK, Named, Hellos, Attached,
         Established, Present
<1>14. ASSUME NEW c \in Conns, NEW p \in {"recv", "sync"}, ReceiveConfig(c, p)
      PROVE  Named'
  BY <1>14 DEF ReceiveConfig, MarkDevice, TypeOK, Named, Hellos, Attached,
         Established, Present
<1>15. ASSUME NEW c \in Conns, ReceiveStopped(c) PROVE Named'
  BY <1>15 DEF ReceiveStopped, TypeOK, Named, Hellos, Attached, Established,
         Present
<1>16. ASSUME NEW c \in Conns, ReceiveDisconnect(c) PROVE Named'
  BY <1>16 DEF ReceiveDisconnect, TypeOK, Named, Hellos, Attached,
         Established, Present
<1>17. ASSUME NEW c \in Conns, DisconnectOffline(c) PROVE Named'
  BY <1>17 DEF DisconnectOffline, MarkDevice, TypeOK, Named, Hellos, Attached,
         Established, Present
<1>18. ASSUME NEW c \in Conns, Unregister(c) PROVE Named'
  BY <1>18 DEF Unregister, TypeOK, Named, Hellos, Attached, Established,
         Present
<1>19. ASSUME NEW c \in Conns, MarkDeviceOffline(c) PROVE Named'
  BY <1>19 DEF MarkDeviceOffline, MarkDevice, TypeOK, Named, Hellos, Attached,
         Established, Present
<1>20. ASSUME NEW c \in Conns, EndSession(c) PROVE Named'
  BY <1>20 DEF EndSession, TypeOK, Named, Hellos, Attached, Established,
         Present
<1>21. ASSUME NEW c \in Conns, StatementFails(c) PROVE Named'
  BY <1>21 DEF StatementFails, TypeOK, Named, Hellos, Attached, Established,
         Present
<1>22. ASSUME NEW c \in Conns, OfflineFails(c) PROVE Named'
  BY <1>22 DEF OfflineFails, TypeOK, Named, Hellos, Attached, Established,
         Present
<1>23. ASSUME NEW a \in Callers, NEW d \in Devices, NEW op \in {"kick", "delete", "regen", "record"},
             StartRequest(a, d, op)
      PROVE  Named'
  BY <1>23 DEF StartRequest, TypeOK, Named, Hellos, Attached, Established,
         Present
<1>24. ASSUME NEW a \in Callers, KickWrite(a) PROVE Named'
  BY <1>24 DEF KickWrite, Revoke, TypeOK, Named, Hellos, Attached,
         Established, Present
<1>25. ASSUME NEW a \in Callers, KickDrop(a) PROVE Named'
  BY <1>25 DEF KickDrop, Enqueue, TypeOK, Named, Hellos, Attached,
         Established, Present
<1>26. ASSUME NEW a \in Callers, DeleteWrite(a) PROVE Named'
  BY <1>26 DEF DeleteWrite, Revoke, TypeOK, Named, Hellos, Attached,
         Established, Present
<1>27. ASSUME NEW a \in Callers, RegenWrite(a) PROVE Named'
  BY <1>27 DEF RegenWrite, Revoke, TypeOK, Named, Hellos, Attached,
         Established, Present
<1>28. ASSUME NEW a \in Callers, RegenMissing(a) PROVE Named'
  BY <1>28 DEF RegenMissing, TypeOK, Named, Hellos, Attached, Established,
         Present
<1>29. ASSUME NEW a \in Callers, DropClient(a) PROVE Named'
  BY <1>29 DEF DropClient, TypeOK, Named, Hellos, Attached, Established,
         Present
<1>30. ASSUME NEW a \in Callers, RequestRecord(a) PROVE Named'
  BY <1>30 DEF RequestRecord, TypeOK, Named, Hellos, Attached, Established,
         Present
<1>31. ASSUME NEW a \in Callers, RequestSend(a) PROVE Named'
  BY <1>31 DEF RequestSend, Enqueue, TypeOK, Named, Hellos, Attached,
         Established, Present
<1>32. ASSUME NEW a \in Callers, RequestFails(a) PROVE Named'
  BY <1>32 DEF RequestFails, TypeOK, Named, Hellos, Attached, Established,
         Present
<1>33. CASE DeleteRoom
  BY <1>33 DEF DeleteRoom, TypeOK, Named, Hellos, Attached, Established,
         Present
<1>34. CASE HubRestart
  BY <1>34 DEF HubRestart, TypeOK, Named, Hellos, Attached, Established,
         Present
<1>35. CASE UNCHANGED <<pc, dev, apc, adev, status>>
  BY <1>35 DEF Named
<1> QED
  BY <1>1, <1>2, <1>3, <1>4, <1>5, <1>6, <1>7, <1>8, <1>9, <1>10, <1>11,
     <1>12, <1>13, <1>14, <1>15, <1>16, <1>17, <1>18, <1>19, <1>20, <1>21,
     <1>22, <1>23, <1>24, <1>25, <1>26, <1>27, <1>28, <1>29, <1>30, <1>31,
     <1>32, <1>33, <1>34, <1>35
  DEF Next, SessionStep, RequestStep, ReaderEnds, Deliver

(* No step takes a device out of 'kicked' while a Hello still relies on it. *)
LEMMA SeenStep ==
    ASSUME TypeOK, Named, SeenKicked, [Next]_vars PROVE SeenKicked'
<1>1. ASSUME NEW c \in Conns, HelloNew(c) PROVE SeenKicked'
  BY <1>1 DEF HelloNew, TypeOK, Named, SeenKicked, Present
<1>2. ASSUME NEW c \in Conns, NEW d \in Devices, NEW t \in 1 .. MaxToken,
             HelloAgain(c, d, t)
      PROVE  SeenKicked'
  BY <1>2 DEF HelloAgain, TypeOK, Named, SeenKicked, Present
<1>3. ASSUME NEW c \in Conns, NEW r \in {<< >>, <<"Reject">>},
             HelloRefused(c, r)
      PROVE  SeenKicked'
  BY <1>3 DEF HelloRefused, TypeOK, Named, SeenKicked, Present
<1>4. ASSUME NEW c \in Conns, RoomExists(c) PROVE SeenKicked'
  BY <1>4 DEF RoomExists, TypeOK, Named, SeenKicked, Present
<1>5. ASSUME NEW c \in Conns, NEW d \in Devices, InsertDevice(c, d)
      PROVE  SeenKicked'
  BY <1>5 DEF InsertDevice, Enqueue, TypeOK, Named, SeenKicked, Present
<1>6. ASSUME NEW c \in Conns, SelectDevice(c) PROVE SeenKicked'
  BY <1>6 DEF SelectDevice, Authentic, TypeOK, Named, SeenKicked, Present
<1>7. ASSUME NEW c \in Conns, UpdateDevice(c) PROVE SeenKicked'
  BY <1>7 DEF UpdateDevice, Enqueue, MarkDevice, TypeOK, Named, SeenKicked,
         Present
<1>8. ASSUME NEW c \in Conns, TurnAway(c) PROVE SeenKicked'
  BY <1>8 DEF TurnAway, Enqueue, MarkDevice, TypeOK, Named, SeenKicked,
         Present
<1>9. ASSUME NEW c \in Conns, HelloFails(c) PROVE SeenKicked'
  BY <1>9 DEF HelloFails, TypeOK, Named, SeenKicked, Present
<1>10. ASSUME NEW c \in Conns, RegisterClient(c) PROVE SeenKicked'
  BY <1>10 DEF RegisterClient, TypeOK, Named, SeenKicked, Present
<1>11. ASSUME NEW c \in Conns, NEW p \in {"recv", "record"}, SyncConfig(c, p)
      PROVE  SeenKicked'
  BY <1>11 DEF SyncConfig, TypeOK, Named, SeenKicked, Present
<1>12. ASSUME NEW c \in Conns, RecordPush(c) PROVE SeenKicked'
  BY <1>12 DEF RecordPush, TypeOK, Named, SeenKicked, Present
<1>13. ASSUME NEW c \in Conns, SendPush(c) PROVE SeenKicked'
  BY <1>13 DEF SendPush, Enqueue, TypeOK, Named, SeenKicked, Present
<1>14. ASSUME NEW c \in Conns, NEW p \in {"recv", "sync"}, ReceiveConfig(c, p)
      PROVE  SeenKicked'
  BY <1>14 DEF ReceiveConfig, MarkDevice, TypeOK, Named, SeenKicked, Present
<1>15. ASSUME NEW c \in Conns, ReceiveStopped(c) PROVE SeenKicked'
  BY <1>15 DEF ReceiveStopped, TypeOK, Named, SeenKicked, Present
<1>16. ASSUME NEW c \in Conns, ReceiveDisconnect(c) PROVE SeenKicked'
  BY <1>16 DEF ReceiveDisconnect, TypeOK, Named, SeenKicked, Present
<1>17. ASSUME NEW c \in Conns, DisconnectOffline(c) PROVE SeenKicked'
  BY <1>17 DEF DisconnectOffline, MarkDevice, TypeOK, Named, SeenKicked,
         Present
<1>18. ASSUME NEW c \in Conns, Unregister(c) PROVE SeenKicked'
  BY <1>18 DEF Unregister, TypeOK, Named, SeenKicked, Present
<1>19. ASSUME NEW c \in Conns, MarkDeviceOffline(c) PROVE SeenKicked'
  BY <1>19 DEF MarkDeviceOffline, MarkDevice, TypeOK, Named, SeenKicked,
         Present
<1>20. ASSUME NEW c \in Conns, EndSession(c) PROVE SeenKicked'
  BY <1>20 DEF EndSession, TypeOK, Named, SeenKicked, Present
<1>21. ASSUME NEW c \in Conns, StatementFails(c) PROVE SeenKicked'
  BY <1>21 DEF StatementFails, TypeOK, Named, SeenKicked, Present
<1>22. ASSUME NEW c \in Conns, OfflineFails(c) PROVE SeenKicked'
  BY <1>22 DEF OfflineFails, TypeOK, Named, SeenKicked, Present
<1>23. ASSUME NEW a \in Callers, KickWrite(a) PROVE SeenKicked'
  BY <1>23 DEF KickWrite, Revoke, TypeOK, Named, SeenKicked, Present
<1>24. ASSUME NEW a \in Callers, DeleteWrite(a) PROVE SeenKicked'
  BY <1>24 DEF DeleteWrite, Revoke, TypeOK, Named, SeenKicked, Present
<1>25. CASE DeleteRoom
  BY <1>25 DEF DeleteRoom, TypeOK, Named, SeenKicked, Present
<1>26. CASE HubRestart
  BY <1>26 DEF HubRestart, TypeOK, Named, SeenKicked, Present
<1>27. CASE UNCHANGED <<pc, seen, dev, status>>
  BY <1>27 DEF SeenKicked
<1> QED
  BY <1>1, <1>2, <1>3, <1>4, <1>5, <1>6, <1>7, <1>8, <1>9, <1>10, <1>11,
     <1>12, <1>13, <1>14, <1>15, <1>16, <1>17, <1>18, <1>19, <1>20, <1>21,
     <1>22, <1>23, <1>24, <1>25, <1>26, <1>27
  DEF Next, SessionStep, RequestStep, ReaderEnds, Deliver, StartRequest,
      KickDrop, RegenWrite, RegenMissing, DropClient, RequestRecord,
      RequestSend, RequestFails

(* Every step that writes 'online' belongs to an attached session, and no   *)
(* session stops being attached without writing 'offline' (or recording     *)
(* that it could not).                                                      *)
LEMMA OnlineStep ==
    ASSUME TypeOK, Named, SeenKicked, OnlineBacked, [Next]_vars PROVE OnlineBacked'
<1>1. ASSUME NEW c \in Conns, HelloNew(c) PROVE OnlineBacked'
  BY <1>1 DEF HelloNew, TypeOK, Named, SeenKicked, OnlineBacked, Hellos,
         Attached, Established, Present
<1>2. ASSUME NEW c \in Conns, NEW d \in Devices, NEW t \in 1 .. MaxToken,
             HelloAgain(c, d, t)
      PROVE  OnlineBacked'
  BY <1>2 DEF HelloAgain, TypeOK, Named, SeenKicked, OnlineBacked, Hellos,
         Attached, Established, Present
<1>3. ASSUME NEW c \in Conns, NEW r \in {<< >>, <<"Reject">>},
             HelloRefused(c, r)
      PROVE  OnlineBacked'
  BY <1>3 DEF HelloRefused, TypeOK, Named, SeenKicked, OnlineBacked, Hellos,
         Attached, Established, Present
<1>4. ASSUME NEW c \in Conns, RoomExists(c) PROVE OnlineBacked'
  BY <1>4 DEF RoomExists, TypeOK, Named, SeenKicked, OnlineBacked, Hellos,
         Attached, Established, Present
<1>5. ASSUME NEW c \in Conns, NEW d \in Devices, InsertDevice(c, d)
      PROVE  OnlineBacked'
  <2> SUFFICES ASSUME NEW e \in Devices, status'[e] = "online", e \notin carried'
               PROVE  \E k \in Conns : dev'[k] = e /\ pc'[k] \in Attached
    BY DEF OnlineBacked
  <2>1. status[e] = "online" /\ e \notin carried
    BY <1>5 DEF InsertDevice, TypeOK
  <2>2. PICK k \in Conns : dev[k] = e /\ pc[k] \in Attached
    BY <2>1 DEF OnlineBacked
  <2>3. k # c
    BY <1>5, <2>2 DEF InsertDevice, Attached, Established
  <2> QED BY <1>5, <2>2, <2>3 DEF InsertDevice, TypeOK
<1>6. ASSUME NEW c \in Conns, SelectDevice(c) PROVE OnlineBacked'
  BY <1>6 DEF SelectDevice, Authentic, TypeOK, Named, SeenKicked,
         OnlineBacked, Hellos, Attached, Established, Present
<1>7. ASSUME NEW c \in Conns, UpdateDevice(c) PROVE OnlineBacked'
  BY <1>7 DEF UpdateDevice, Enqueue, MarkDevice, TypeOK, Named, SeenKicked,
         OnlineBacked, Hellos, Attached, Established, Present
<1>8. ASSUME NEW c \in Conns, TurnAway(c) PROVE OnlineBacked'
  BY <1>8 DEF TurnAway, Enqueue, MarkDevice, TypeOK, Named, SeenKicked,
         OnlineBacked, Hellos, Attached, Established, Present
<1>9. ASSUME NEW c \in Conns, HelloFails(c) PROVE OnlineBacked'
  BY <1>9 DEF HelloFails, TypeOK, Named, SeenKicked, OnlineBacked, Hellos,
         Attached, Established, Present
<1>10. ASSUME NEW c \in Conns, RegisterClient(c) PROVE OnlineBacked'
  BY <1>10 DEF RegisterClient, TypeOK, Named, SeenKicked, OnlineBacked,
         Hellos, Attached, Established, Present
<1>11. ASSUME NEW c \in Conns, NEW p \in {"recv", "record"}, SyncConfig(c, p)
      PROVE  OnlineBacked'
  BY <1>11 DEF SyncConfig, TypeOK, Named, SeenKicked, OnlineBacked, Hellos,
         Attached, Established, Present
<1>12. ASSUME NEW c \in Conns, RecordPush(c) PROVE OnlineBacked'
  BY <1>12 DEF RecordPush, TypeOK, Named, SeenKicked, OnlineBacked, Hellos,
         Attached, Established, Present
<1>13. ASSUME NEW c \in Conns, SendPush(c) PROVE OnlineBacked'
  BY <1>13 DEF SendPush, Enqueue, TypeOK, Named, SeenKicked, OnlineBacked,
         Hellos, Attached, Established, Present
<1>14. ASSUME NEW c \in Conns, NEW p \in {"recv", "sync"}, ReceiveConfig(c, p)
      PROVE  OnlineBacked'
  BY <1>14 DEF ReceiveConfig, MarkDevice, TypeOK, Named, SeenKicked,
         OnlineBacked, Hellos, Attached, Established, Present
<1>15. ASSUME NEW c \in Conns, ReceiveStopped(c) PROVE OnlineBacked'
  BY <1>15 DEF ReceiveStopped, TypeOK, Named, SeenKicked, OnlineBacked,
         Hellos, Attached, Established, Present
<1>16. ASSUME NEW c \in Conns, ReceiveDisconnect(c) PROVE OnlineBacked'
  BY <1>16 DEF ReceiveDisconnect, TypeOK, Named, SeenKicked, OnlineBacked,
         Hellos, Attached, Established, Present
<1>17. ASSUME NEW c \in Conns, DisconnectOffline(c) PROVE OnlineBacked'
  BY <1>17 DEF DisconnectOffline, MarkDevice, TypeOK, Named, SeenKicked,
         OnlineBacked, Hellos, Attached, Established, Present
<1>18. ASSUME NEW c \in Conns, Unregister(c) PROVE OnlineBacked'
  BY <1>18 DEF Unregister, TypeOK, Named, SeenKicked, OnlineBacked, Hellos,
         Attached, Established, Present
<1>19. ASSUME NEW c \in Conns, MarkDeviceOffline(c) PROVE OnlineBacked'
  BY <1>19 DEF MarkDeviceOffline, MarkDevice, TypeOK, Named, SeenKicked,
         OnlineBacked, Hellos, Attached, Established, Present
<1>20. ASSUME NEW c \in Conns, EndSession(c) PROVE OnlineBacked'
  BY <1>20 DEF EndSession, TypeOK, Named, SeenKicked, OnlineBacked, Hellos,
         Attached, Established, Present
<1>21. ASSUME NEW c \in Conns, StatementFails(c) PROVE OnlineBacked'
  BY <1>21 DEF StatementFails, TypeOK, Named, SeenKicked, OnlineBacked,
         Hellos, Attached, Established, Present
<1>22. ASSUME NEW c \in Conns, OfflineFails(c) PROVE OnlineBacked'
  BY <1>22 DEF OfflineFails, TypeOK, Named, SeenKicked, OnlineBacked, Hellos,
         Attached, Established, Present
<1>23. ASSUME NEW a \in Callers, KickWrite(a) PROVE OnlineBacked'
  BY <1>23 DEF KickWrite, Revoke, TypeOK, Named, SeenKicked, OnlineBacked,
         Hellos, Attached, Established, Present
<1>24. ASSUME NEW a \in Callers, DeleteWrite(a) PROVE OnlineBacked'
  BY <1>24 DEF DeleteWrite, Revoke, TypeOK, Named, SeenKicked, OnlineBacked,
         Hellos, Attached, Established, Present
<1>25. CASE DeleteRoom
  BY <1>25 DEF DeleteRoom, TypeOK, Named, SeenKicked, OnlineBacked, Hellos,
         Attached, Established, Present
<1>26. CASE HubRestart
  BY <1>26 DEF HubRestart, TypeOK, Named, SeenKicked, OnlineBacked, Hellos,
         Attached, Established, Present
<1>27. CASE UNCHANGED <<pc, dev, status, carried>>
  BY <1>27 DEF OnlineBacked
<1> QED
  BY <1>1, <1>2, <1>3, <1>4, <1>5, <1>6, <1>7, <1>8, <1>9, <1>10, <1>11,
     <1>12, <1>13, <1>14, <1>15, <1>16, <1>17, <1>18, <1>19, <1>20, <1>21,
     <1>22, <1>23, <1>24, <1>25, <1>26, <1>27
  DEF Next, SessionStep, RequestStep, ReaderEnds, Deliver, StartRequest,
      KickDrop, RegenWrite, RegenMissing, DropClient, RequestRecord,
      RequestSend, RequestFails

(* Whoever leaves the loop takes the entry away, its own or a newer one.    *)
LEMMA RegistryStep ==
    ASSUME TypeOK, Named, RegistryLive, [Next]_vars PROVE RegistryLive'
<1> USE ConnsAssumption
<1>1. ASSUME NEW c \in Conns, HelloNew(c) PROVE RegistryLive'
  BY <1>1 DEF HelloNew, TypeOK, Named, RegistryLive, Hellos, Attached,
         Established
<1>2. ASSUME NEW c \in Conns, NEW d \in Devices, NEW t \in 1 .. MaxToken,
             HelloAgain(c, d, t)
      PROVE  RegistryLive'
  BY <1>2 DEF HelloAgain, TypeOK, Named, RegistryLive, Hellos, Attached,
         Established
<1>3. ASSUME NEW c \in Conns, NEW r \in {<< >>, <<"Reject">>},
             HelloRefused(c, r)
      PROVE  RegistryLive'
  BY <1>3 DEF HelloRefused, TypeOK, Named, RegistryLive, Hellos, Attached,
         Established
<1>4. ASSUME NEW c \in Conns, RoomExists(c) PROVE RegistryLive'
  BY <1>4 DEF RoomExists, TypeOK, Named, RegistryLive, Hellos, Attached,
         Established
<1>5. ASSUME NEW c \in Conns, NEW d \in Devices, InsertDevice(c, d)
      PROVE  RegistryLive'
  BY <1>5 DEF InsertDevice, Enqueue, TypeOK, Named, RegistryLive, Hellos,
         Attached, Established
<1>6. ASSUME NEW c \in Conns, SelectDevice(c) PROVE RegistryLive'
  BY <1>6 DEF SelectDevice, Authentic, TypeOK, Named, RegistryLive, Hellos,
         Attached, Established
<1>7. ASSUME NEW c \in Conns, UpdateDevice(c) PROVE RegistryLive'
  BY <1>7 DEF UpdateDevice, Enqueue, MarkDevice, TypeOK, Named, RegistryLive,
         Hellos, Attached, Established
<1>8. ASSUME NEW c \in Conns, TurnAway(c) PROVE RegistryLive'
  BY <1>8 DEF TurnAway, Enqueue, MarkDevice, TypeOK, Named, RegistryLive,
         Hellos, Attached, Established
<1>9. ASSUME NEW c \in Conns, HelloFails(c) PROVE RegistryLive'
  BY <1>9 DEF HelloFails, TypeOK, Named, RegistryLive, Hellos, Attached,
         Established
<1>10. ASSUME NEW c \in Conns, RegisterClient(c) PROVE RegistryLive'
  BY <1>10 DEF RegisterClient, TypeOK, Named, RegistryLive, Hellos, Attached,
         Established
<1>11. ASSUME NEW c \in Conns, NEW p \in {"recv", "record"}, SyncConfig(c, p)
      PROVE  RegistryLive'
  BY <1>11 DEF SyncConfig, TypeOK, Named, RegistryLive, Hellos, Attached,
         Established
<1>12. ASSUME NEW c \in Conns, RecordPush(c) PROVE RegistryLive'
  BY <1>12 DEF RecordPush, TypeOK, Named, RegistryLive, Hellos, Attached,
         Established
<1>13. ASSUME NEW c \in Conns, SendPush(c) PROVE RegistryLive'
  BY <1>13 DEF SendPush, Enqueue, TypeOK, Named, RegistryLive, Hellos,
         Attached, Established
<1>14. ASSUME NEW c \in Conns, NEW p \in {"recv", "sync"}, ReceiveConfig(c, p)
      PROVE  RegistryLive'
  BY <1>14 DEF ReceiveConfig, MarkDevice, TypeOK, Named, RegistryLive, Hellos,
         Attached, Established
<1>15. ASSUME NEW c \in Conns, ReceiveStopped(c) PROVE RegistryLive'
  BY <1>15 DEF ReceiveStopped, TypeOK, Named, RegistryLive, Hellos, Attached,
         Established
<1>16. ASSUME NEW c \in Conns, ReceiveDisconnect(c) PROVE RegistryLive'
  BY <1>16 DEF ReceiveDisconnect, TypeOK, Named, RegistryLive, Hellos,
         Attached, Established
<1>17. ASSUME NEW c \in Conns, DisconnectOffline(c) PROVE RegistryLive'
  BY <1>17 DEF DisconnectOffline, MarkDevice, TypeOK, Named, RegistryLive,
         Hellos, Attached, Established
<1>18. ASSUME NEW c \in Conns, Unregister(c) PROVE RegistryLive'
  BY <1>18 DEF Unregister, TypeOK, Named, RegistryLive, Hellos, Attached,
         Established
<1>19. ASSUME NEW c \in Conns, MarkDeviceOffline(c) PROVE RegistryLive'
  BY <1>19 DEF MarkDeviceOffline, MarkDevice, TypeOK, Named, RegistryLive,
         Hellos, Attached, Established
<1>20. ASSUME NEW c \in Conns, EndSession(c) PROVE RegistryLive'
  BY <1>20 DEF EndSession, TypeOK, Named, RegistryLive, Hellos, Attached,
         Established
<1>21. ASSUME NEW c \in Conns, StatementFails(c) PROVE RegistryLive'
  BY <1>21 DEF StatementFails, TypeOK, Named, RegistryLive, Hellos, Attached,
         Established
<1>22. ASSUME NEW c \in Conns, OfflineFails(c) PROVE RegistryLive'
  BY <1>22 DEF OfflineFails, TypeOK, Named, RegistryLive, Hellos, Attached,
         Established
<1>23. ASSUME NEW a \in Callers, KickDrop(a) PROVE RegistryLive'
  BY <1>23 DEF KickDrop, Enqueue, TypeOK, Named, RegistryLive, Hellos,
         Attached, Established
<1>24. ASSUME NEW a \in Callers, DropClient(a) PROVE RegistryLive'
  BY <1>24 DEF DropClient, TypeOK, Named, RegistryLive, Hellos, Attached,
         Established
<1>25. CASE HubRestart
  BY <1>25 DEF HubRestart, TypeOK, Named, RegistryLive, Hellos, Attached,
         Established
<1>26. CASE UNCHANGED <<clients, pc, dev>>
  BY <1>26 DEF RegistryLive
<1> QED
  BY <1>1, <1>2, <1>3, <1>4, <1>5, <1>6, <1>7, <1>8, <1>9, <1>10, <1>11,
     <1>12, <1>13, <1>14, <1>15, <1>16, <1>17, <1>18, <1>19, <1>20, <1>21,
     <1>22, <1>23, <1>24, <1>25, <1>26
  DEF Next, SessionStep, RequestStep, ReaderEnds, Deliver, StartRequest,
      KickWrite, DeleteWrite, RegenWrite, RegenMissing, RequestRecord,
      RequestSend, RequestFails, DeleteRoom

(* Only an established session can be revoked.                              *)
LEMMA EstablishedStep ==
    ASSUME TypeOK, RevokedEstablished, [Next]_vars PROVE RevokedEstablished'
<1>1. ASSUME NEW c \in Conns, HelloNew(c) PROVE RevokedEstablished'
  BY <1>1 DEF HelloNew, TypeOK, RevokedEstablished, Hellos, Established
<1>2. ASSUME NEW c \in Conns, NEW d \in Devices, NEW t \in 1 .. MaxToken,
             HelloAgain(c, d, t)
      PROVE  RevokedEstablished'
  BY <1>2 DEF HelloAgain, TypeOK, RevokedEstablished, Hellos, Established
<1>3. ASSUME NEW c \in Conns, NEW r \in {<< >>, <<"Reject">>},
             HelloRefused(c, r)
      PROVE  RevokedEstablished'
  BY <1>3 DEF HelloRefused, TypeOK, RevokedEstablished, Hellos, Established
<1>4. ASSUME NEW c \in Conns, RoomExists(c) PROVE RevokedEstablished'
  BY <1>4 DEF RoomExists, TypeOK, RevokedEstablished, Hellos, Established
<1>5. ASSUME NEW c \in Conns, NEW d \in Devices, InsertDevice(c, d)
      PROVE  RevokedEstablished'
  BY <1>5 DEF InsertDevice, Enqueue, TypeOK, RevokedEstablished, Hellos,
         Established
<1>6. ASSUME NEW c \in Conns, SelectDevice(c) PROVE RevokedEstablished'
  BY <1>6 DEF SelectDevice, Authentic, TypeOK, RevokedEstablished, Hellos,
         Established
<1>7. ASSUME NEW c \in Conns, UpdateDevice(c) PROVE RevokedEstablished'
  BY <1>7 DEF UpdateDevice, Enqueue, MarkDevice, TypeOK, RevokedEstablished,
         Hellos, Established
<1>8. ASSUME NEW c \in Conns, TurnAway(c) PROVE RevokedEstablished'
  BY <1>8 DEF TurnAway, Enqueue, MarkDevice, TypeOK, RevokedEstablished,
         Hellos, Established
<1>9. ASSUME NEW c \in Conns, HelloFails(c) PROVE RevokedEstablished'
  BY <1>9 DEF HelloFails, TypeOK, RevokedEstablished, Hellos, Established
<1>10. ASSUME NEW c \in Conns, RegisterClient(c) PROVE RevokedEstablished'
  BY <1>10 DEF RegisterClient, TypeOK, RevokedEstablished, Hellos, Established
<1>11. ASSUME NEW c \in Conns, NEW p \in {"recv", "record"}, SyncConfig(c, p)
      PROVE  RevokedEstablished'
  BY <1>11 DEF SyncConfig, TypeOK, RevokedEstablished, Hellos, Established
<1>12. ASSUME NEW c \in Conns, RecordPush(c) PROVE RevokedEstablished'
  BY <1>12 DEF RecordPush, TypeOK, RevokedEstablished, Hellos, Established
<1>13. ASSUME NEW c \in Conns, SendPush(c) PROVE RevokedEstablished'
  BY <1>13 DEF SendPush, Enqueue, TypeOK, RevokedEstablished, Hellos,
         Established
<1>14. ASSUME NEW c \in Conns, NEW p \in {"recv", "sync"}, ReceiveConfig(c, p)
      PROVE  RevokedEstablished'
  BY <1>14 DEF ReceiveConfig, MarkDevice, TypeOK, RevokedEstablished, Hellos,
         Established
<1>15. ASSUME NEW c \in Conns, ReceiveStopped(c) PROVE RevokedEstablished'
  BY <1>15 DEF ReceiveStopped, TypeOK, RevokedEstablished, Hellos, Established
<1>16. ASSUME NEW c \in Conns, ReceiveDisconnect(c) PROVE RevokedEstablished'
  BY <1>16 DEF ReceiveDisconnect, TypeOK, RevokedEstablished, Hellos,
         Established
<1>17. ASSUME NEW c \in Conns, DisconnectOffline(c) PROVE RevokedEstablished'
  BY <1>17 DEF DisconnectOffline, MarkDevice, TypeOK, RevokedEstablished,
         Hellos, Established
<1>18. ASSUME NEW c \in Conns, Unregister(c) PROVE RevokedEstablished'
  BY <1>18 DEF Unregister, TypeOK, RevokedEstablished, Hellos, Established
<1>19. ASSUME NEW c \in Conns, MarkDeviceOffline(c) PROVE RevokedEstablished'
  BY <1>19 DEF MarkDeviceOffline, MarkDevice, TypeOK, RevokedEstablished,
         Hellos, Established
<1>20. ASSUME NEW c \in Conns, EndSession(c) PROVE RevokedEstablished'
  BY <1>20 DEF EndSession, TypeOK, RevokedEstablished, Hellos, Established
<1>21. ASSUME NEW c \in Conns, StatementFails(c) PROVE RevokedEstablished'
  BY <1>21 DEF StatementFails, TypeOK, RevokedEstablished, Hellos, Established
<1>22. ASSUME NEW c \in Conns, OfflineFails(c) PROVE RevokedEstablished'
  BY <1>22 DEF OfflineFails, TypeOK, RevokedEstablished, Hellos, Established
<1>23. ASSUME NEW a \in Callers, KickWrite(a) PROVE RevokedEstablished'
  BY <1>23 DEF KickWrite, Revoke, TypeOK, RevokedEstablished, Hellos,
         Established
<1>24. ASSUME NEW a \in Callers, DeleteWrite(a) PROVE RevokedEstablished'
  BY <1>24 DEF DeleteWrite, Revoke, TypeOK, RevokedEstablished, Hellos,
         Established
<1>25. ASSUME NEW a \in Callers, RegenWrite(a) PROVE RevokedEstablished'
  BY <1>25 DEF RegenWrite, Revoke, TypeOK, RevokedEstablished, Hellos,
         Established
<1>26. ASSUME NEW a \in Callers, RequestFails(a) PROVE RevokedEstablished'
  BY <1>26 DEF RequestFails, TypeOK, RevokedEstablished, Hellos, Established
<1>27. CASE HubRestart
  BY <1>27 DEF HubRestart, TypeOK, RevokedEstablished, Hellos, Established
<1>28. CASE UNCHANGED <<grant, pc>>
  BY <1>28 DEF RevokedEstablished
<1> QED
  BY <1>1, <1>2, <1>3, <1>4, <1>5, <1>6, <1>7, <1>8, <1>9, <1>10, <1>11,
     <1>12, <1>13, <1>14, <1>15, <1>16, <1>17, <1>18, <1>19, <1>20, <1>21,
     <1>22, <1>23, <1>24, <1>25, <1>26, <1>27, <1>28
  DEF Next, SessionStep, RequestStep, ReaderEnds, Deliver, StartRequest,
      KickDrop, RegenMissing, DropClient, RequestRecord, RequestSend,
      DeleteRoom

(* A revoked session leaves the registry before the request that revoked it *)
(* is answered.                                                             *)
LEMMA RevokedStep ==
    ASSUME TypeOK, Named, RegistryLive, RevokedEstablished,
           RevokedUnregistered, [Next]_vars PROVE RevokedUnregistered'
<1>1. ASSUME NEW c \in Conns, TurnAway(c) PROVE RevokedUnregistered'
  BY <1>1 DEF TurnAway, Enqueue, MarkDevice, TypeOK, Named, RegistryLive,
         RevokedEstablished, RevokedUnregistered, Hellos, Attached,
         Established, Present
<1>2. ASSUME NEW c \in Conns, HelloFails(c) PROVE RevokedUnregistered'
  BY <1>2 DEF HelloFails, TypeOK, Named, RegistryLive, RevokedEstablished,
         RevokedUnregistered, Hellos, Attached, Established, Present
<1>3. ASSUME NEW c \in Conns, RegisterClient(c) PROVE RevokedUnregistered'
  <2> SUFFICES ASSUME NEW e \in Devices, clients'[e] # NoConn,
                      grant'[clients'[e]] = "revoked"
               PROVE  \E b \in Callers : /\ adev'[b] = e
                                         /\ apc'[b] \in {"kick_drop", "drop"}
    BY DEF RevokedUnregistered
  <2>1. grant[c] # "revoked"
    BY <1>3 DEF RegisterClient, RevokedEstablished, Established
  <2>2. clients'[e] = clients[e]
    BY <1>3, <2>1 DEF RegisterClient, TypeOK
  <2> QED BY <1>3, <2>2 DEF RegisterClient, RevokedUnregistered
<1>4. ASSUME NEW c \in Conns, ReceiveDisconnect(c) PROVE RevokedUnregistered'
  BY <1>4 DEF ReceiveDisconnect, TypeOK, Named, RegistryLive,
         RevokedEstablished, RevokedUnregistered, Hellos, Attached,
         Established, Present
<1>5. ASSUME NEW c \in Conns, Unregister(c) PROVE RevokedUnregistered'
  BY <1>5 DEF Unregister, TypeOK, Named, RegistryLive, RevokedEstablished,
         RevokedUnregistered, Hellos, Attached, Established, Present
<1>6. ASSUME NEW c \in Conns, MarkDeviceOffline(c) PROVE RevokedUnregistered'
  BY <1>6 DEF MarkDeviceOffline, MarkDevice, TypeOK, Named, RegistryLive,
         RevokedEstablished, RevokedUnregistered, Hellos, Attached,
         Established, Present
<1>7. ASSUME NEW c \in Conns, OfflineFails(c) PROVE RevokedUnregistered'
  BY <1>7 DEF OfflineFails, TypeOK, Named, RegistryLive, RevokedEstablished,
         RevokedUnregistered, Hellos, Attached, Established, Present
<1>8. ASSUME NEW a \in Callers, NEW d \in Devices, NEW op \in {"kick", "delete", "regen", "record"},
             StartRequest(a, d, op)
      PROVE  RevokedUnregistered'
  <2> SUFFICES ASSUME NEW e \in Devices, clients'[e] # NoConn,
                      grant'[clients'[e]] = "revoked"
               PROVE  \E b \in Callers : /\ adev'[b] = e
                                         /\ apc'[b] \in {"kick_drop", "drop"}
    BY DEF RevokedUnregistered
  <2>1. PICK b \in Callers : adev[b] = e /\ apc[b] \in {"kick_drop", "drop"}
    BY <1>8 DEF StartRequest, RevokedUnregistered
  <2>2. b # a
    BY <1>8, <2>1 DEF StartRequest
  <2> QED BY <1>8, <2>1, <2>2 DEF StartRequest, TypeOK
<1>9. ASSUME NEW a \in Callers, KickWrite(a) PROVE RevokedUnregistered'
  BY <1>9 DEF KickWrite, Revoke, TypeOK, Named, RegistryLive,
         RevokedEstablished, RevokedUnregistered, Hellos, Attached,
         Established, Present
<1>10. ASSUME NEW a \in Callers, KickDrop(a) PROVE RevokedUnregistered'
  BY <1>10 DEF KickDrop, Enqueue, TypeOK, Named, RegistryLive,
         RevokedEstablished, RevokedUnregistered, Hellos, Attached,
         Established, Present
<1>11. ASSUME NEW a \in Callers, DeleteWrite(a) PROVE RevokedUnregistered'
  BY <1>11 DEF DeleteWrite, Revoke, TypeOK, Named, RegistryLive,
         RevokedEstablished, RevokedUnregistered, Hellos, Attached,
         Established, Present
<1>12. ASSUME NEW a \in Callers, RegenWrite(a) PROVE RevokedUnregistered'
  BY <1>12 DEF RegenWrite, Revoke, TypeOK, Named, RegistryLive,
         RevokedEstablished, RevokedUnregistered, Hellos, Attached,
         Established, Present
<1>13. ASSUME NEW a \in Callers, RegenMissing(a) PROVE RevokedUnregistered'
  BY <1>13 DEF RegenMissing, TypeOK, Named, RegistryLive, RevokedEstablished,
         RevokedUnregistered, Hellos, Attached, Established, Present
<1>14. ASSUME NEW a \in Callers, DropClient(a) PROVE RevokedUnregistered'
  BY <1>14 DEF DropClient, TypeOK, Named, RegistryLive, RevokedEstablished,
         RevokedUnregistered, Hellos, Attached, Established, Present
<1>15. ASSUME NEW a \in Callers, RequestRecord(a) PROVE RevokedUnregistered'
  <2> SUFFICES ASSUME NEW e \in Devices, clients'[e] # NoConn,
                      grant'[clients'[e]] = "revoked"
               PROVE  \E b \in Callers : /\ adev'[b] = e
                                         /\ apc'[b] \in {"kick_drop", "drop"}
    BY DEF RevokedUnregistered
  <2>1. PICK b \in Callers : adev[b] = e /\ apc[b] \in {"kick_drop", "drop"}
    BY <1>15 DEF RequestRecord, RevokedUnregistered
  <2>2. b # a
    BY <1>15, <2>1 DEF RequestRecord
  <2> QED BY <1>15, <2>1, <2>2 DEF RequestRecord, TypeOK
<1>16. ASSUME NEW a \in Callers, RequestSend(a) PROVE RevokedUnregistered'
  <2> SUFFICES ASSUME NEW e \in Devices, clients'[e] # NoConn,
                      grant'[clients'[e]] = "revoked"
               PROVE  \E b \in Callers : /\ adev'[b] = e
                                         /\ apc'[b] \in {"kick_drop", "drop"}
    BY DEF RevokedUnregistered
  <2>1. PICK b \in Callers : adev[b] = e /\ apc[b] \in {"kick_drop", "drop"}
    BY <1>16 DEF RequestSend, RevokedUnregistered
  <2>2. b # a
    BY <1>16, <2>1 DEF RequestSend
  <2> QED BY <1>16, <2>1, <2>2 DEF RequestSend, TypeOK
<1>17. ASSUME NEW a \in Callers, RequestFails(a) PROVE RevokedUnregistered'
  BY <1>17 DEF RequestFails, TypeOK, Named, RegistryLive, RevokedEstablished,
         RevokedUnregistered, Hellos, Attached, Established, Present
<1>18. CASE HubRestart
  BY <1>18 DEF HubRestart, TypeOK, Named, RegistryLive, RevokedEstablished,
         RevokedUnregistered, Hellos, Attached, Established, Present
<1>19. CASE UNCHANGED <<clients, grant, apc, adev>>
  BY <1>19 DEF RevokedUnregistered
<1> QED
  BY <1>1, <1>2, <1>3, <1>4, <1>5, <1>6, <1>7, <1>8, <1>9, <1>10, <1>11,
     <1>12, <1>13, <1>14, <1>15, <1>16, <1>17, <1>18, <1>19
  DEF Next, SessionStep, RequestStep, HelloNew, HelloAgain, HelloRefused,
      RoomExists, InsertDevice, SelectDevice, UpdateDevice, SyncConfig,
      RecordPush, SendPush, ReceiveConfig, ReceiveStopped, DisconnectOffline,
      EndSession, StatementFails, ReaderEnds, Deliver, DeleteRoom

(* The HelloAck is the first message of a session; later ones queue behind. *)
LEMMA QueuesStep ==
    ASSUME TypeOK, Named, RegistryLive, Queues, HelloAckFirst, [Next]_vars PROVE (Queues /\ HelloAckFirst)'
<1> USE ConnsAssumption, BoundsAssumption
<1>1. ASSUME NEW c \in Conns, HelloNew(c) PROVE (Queues /\ HelloAckFirst)'
  BY <1>1 DEF HelloNew, TypeOK, Named, RegistryLive, Queues, HelloAckFirst,
         Hellos, Attached, Established, Messages
<1>2. ASSUME NEW c \in Conns, NEW d \in Devices, NEW t \in 1 .. MaxToken,
             HelloAgain(c, d, t)
      PROVE  (Queues /\ HelloAckFirst)'
  BY <1>2 DEF HelloAgain, TypeOK, Named, RegistryLive, Queues, HelloAckFirst,
         Hellos, Attached, Established, Messages
<1>3. ASSUME NEW c \in Conns, NEW r \in {<< >>, <<"Reject">>},
             HelloRefused(c, r)
      PROVE  (Queues /\ HelloAckFirst)'
  BY <1>3 DEF HelloRefused, TypeOK, Named, RegistryLive, Queues,
         HelloAckFirst, Hellos, Attached, Established, Messages
<1>4. ASSUME NEW c \in Conns, RoomExists(c) PROVE (Queues /\ HelloAckFirst)'
  BY <1>4 DEF RoomExists, TypeOK, Named, RegistryLive, Queues, HelloAckFirst,
         Hellos, Attached, Established, Messages
<1>5. ASSUME NEW c \in Conns, NEW d \in Devices, InsertDevice(c, d)
      PROVE  (Queues /\ HelloAckFirst)'
  <2>1. out[c] = << >> /\ ~acked[c]
    BY <1>5 DEF InsertDevice, Queues, Hellos
  <2>2. /\ out'[c] = <<"HelloAck">>
        /\ \A k \in Conns \ {c} : out'[k] = out[k] /\ pc'[k] = pc[k]
        /\ acked' = acked /\ open' = open /\ pc'[c] = "register"
    BY <1>5, <2>1 DEF InsertDevice, Enqueue, TypeOK
  <2>3. Queues'
    BY <1>5, <2>1 DEF InsertDevice, Enqueue, Queues, Hellos, Attached, Established,
                     TypeOK
  <2>4. HelloAckFirst'
    BY <2>1, <2>2 DEF HelloAckFirst
  <2> QED BY <2>3, <2>4
<1>6. ASSUME NEW c \in Conns, SelectDevice(c) PROVE (Queues /\ HelloAckFirst)'
  BY <1>6 DEF SelectDevice, Authentic, TypeOK, Named, RegistryLive, Queues,
         HelloAckFirst, Hellos, Attached, Established, Messages
<1>7. ASSUME NEW c \in Conns, UpdateDevice(c) PROVE (Queues /\ HelloAckFirst)'
  BY <1>7 DEF UpdateDevice, Enqueue, MarkDevice, TypeOK, Named, RegistryLive,
         Queues, HelloAckFirst, Hellos, Attached, Established, Messages
<1>8. ASSUME NEW c \in Conns, TurnAway(c) PROVE (Queues /\ HelloAckFirst)'
  BY <1>8 DEF TurnAway, Enqueue, MarkDevice, TypeOK, Named, RegistryLive,
         Queues, HelloAckFirst, Hellos, Attached, Established, Messages
<1>9. ASSUME NEW c \in Conns, HelloFails(c) PROVE (Queues /\ HelloAckFirst)'
  BY <1>9 DEF HelloFails, TypeOK, Named, RegistryLive, Queues, HelloAckFirst,
         Hellos, Attached, Established, Messages
<1>10. ASSUME NEW c \in Conns, RegisterClient(c)
      PROVE  (Queues /\ HelloAckFirst)'
  BY <1>10 DEF RegisterClient, TypeOK, Named, RegistryLive, Queues,
         HelloAckFirst, Hellos, Attached, Established, Messages
<1>11. ASSUME NEW c \in Conns, NEW p \in {"recv", "record"}, SyncConfig(c, p)
      PROVE  (Queues /\ HelloAckFirst)'
  BY <1>11 DEF SyncConfig, TypeOK, Named, RegistryLive, Queues, HelloAckFirst,
         Hellos, Attached, Established, Messages
<1>12. ASSUME NEW c \in Conns, RecordPush(c) PROVE (Queues /\ HelloAckFirst)'
  BY <1>12 DEF RecordPush, TypeOK, Named, RegistryLive, Queues, HelloAckFirst,
         Hellos, Attached, Established, Messages
<1>13. ASSUME NEW c \in Conns, SendPush(c) PROVE (Queues /\ HelloAckFirst)'
  BY <1>13 DEF SendPush, Enqueue, TypeOK, Named, RegistryLive, Queues,
         HelloAckFirst, Hellos, Attached, Established, Messages
<1>14. ASSUME NEW c \in Conns, NEW p \in {"recv", "sync"}, ReceiveConfig(c, p)
      PROVE  (Queues /\ HelloAckFirst)'
  BY <1>14 DEF ReceiveConfig, MarkDevice, TypeOK, Named, RegistryLive, Queues,
         HelloAckFirst, Hellos, Attached, Established, Messages
<1>15. ASSUME NEW c \in Conns, ReceiveStopped(c)
      PROVE  (Queues /\ HelloAckFirst)'
  BY <1>15 DEF ReceiveStopped, TypeOK, Named, RegistryLive, Queues,
         HelloAckFirst, Hellos, Attached, Established, Messages
<1>16. ASSUME NEW c \in Conns, ReceiveDisconnect(c)
      PROVE  (Queues /\ HelloAckFirst)'
  BY <1>16 DEF ReceiveDisconnect, TypeOK, Named, RegistryLive, Queues,
         HelloAckFirst, Hellos, Attached, Established, Messages
<1>17. ASSUME NEW c \in Conns, DisconnectOffline(c)
      PROVE  (Queues /\ HelloAckFirst)'
  BY <1>17 DEF DisconnectOffline, MarkDevice, TypeOK, Named, RegistryLive,
         Queues, HelloAckFirst, Hellos, Attached, Established, Messages
<1>18. ASSUME NEW c \in Conns, Unregister(c) PROVE (Queues /\ HelloAckFirst)'
  BY <1>18 DEF Unregister, TypeOK, Named, RegistryLive, Queues, HelloAckFirst,
         Hellos, Attached, Established, Messages
<1>19. ASSUME NEW c \in Conns, MarkDeviceOffline(c)
      PROVE  (Queues /\ HelloAckFirst)'
  BY <1>19 DEF MarkDeviceOffline, MarkDevice, TypeOK, Named, RegistryLive,
         Queues, HelloAckFirst, Hellos, Attached, Established, Messages
<1>20. ASSUME NEW c \in Conns, EndSession(c) PROVE (Queues /\ HelloAckFirst)'
  BY <1>20 DEF EndSession, TypeOK, Named, RegistryLive, Queues, HelloAckFirst,
         Hellos, Attached, Established, Messages
<1>21. ASSUME NEW c \in Conns, StatementFails(c)
      PROVE  (Queues /\ HelloAckFirst)'
  BY <1>21 DEF StatementFails, TypeOK, Named, RegistryLive, Queues,
         HelloAckFirst, Hellos, Attached, Established, Messages
<1>22. ASSUME NEW c \in Conns, OfflineFails(c) PROVE (Queues /\ HelloAckFirst)'
  BY <1>22 DEF OfflineFails, TypeOK, Named, RegistryLive, Queues,
         HelloAckFirst, Hellos, Attached, Established, Messages
<1>23. ASSUME NEW c \in Conns, ReaderEnds(c) PROVE (Queues /\ HelloAckFirst)'
  BY <1>23 DEF ReaderEnds, TypeOK, Named, RegistryLive, Queues,
         HelloAckFirst, Hellos, Attached, Established, Messages
<1>24. ASSUME NEW c \in Conns, Deliver(c) PROVE (Queues /\ HelloAckFirst)'
  <2>1. /\ out[c] # << >> /\ out[c] \in Seq(Messages)
        /\ out'[c] = Tail(out[c])
        /\ acked'[c] = (acked[c] \/ out[c][1] = "HelloAck")
        /\ \A k \in Conns \ {c} : out'[k] = out[k] /\ acked'[k] = acked[k]
        /\ pc' = pc /\ open' = open
    BY <1>24 DEF Deliver, TypeOK
  <2>2. \A i \in 1 .. Len(out'[c]) : i + 1 \in 1 .. Len(out[c])
                                      /\ out'[c][i] = out[c][i + 1]
    BY <2>1
  <2>3. Queues'
    BY <2>1 DEF Queues
  <2>4. HelloAckFirst'
    <3> SUFFICES ASSUME NEW k \in Conns, NEW i \in 1 .. Len(out'[k]),
                        out'[k][i] \in {"ConfigPush", "Kick"}, ~acked'[k]
                 PROVE  out'[k][1] = "HelloAck"
      BY DEF HelloAckFirst
    <3>1. CASE k # c
      BY <3>1, <2>1 DEF HelloAckFirst
    <3>2. CASE k = c
      <4>1. out[c][i + 1] \in {"ConfigPush", "Kick"} /\ ~acked[c]
            /\ out[c][1] # "HelloAck"
        BY <3>2, <2>1, <2>2 DEF TypeOK
      <4> QED BY <4>1, <3>2, <2>2 DEF HelloAckFirst
    <3> QED BY <3>1, <3>2
  <2> QED BY <2>3, <2>4
<1>25. ASSUME NEW a \in Callers, KickDrop(a) PROVE (Queues /\ HelloAckFirst)'
  BY <1>25 DEF KickDrop, Enqueue, TypeOK, Named, RegistryLive, Queues,
         HelloAckFirst, Hellos, Attached, Established, Messages
<1>26. ASSUME NEW a \in Callers, RequestSend(a)
      PROVE  (Queues /\ HelloAckFirst)'
  BY <1>26 DEF RequestSend, Enqueue, TypeOK, Named, RegistryLive, Queues,
         HelloAckFirst, Hellos, Attached, Established, Messages
<1>27. CASE HubRestart
  BY <1>27 DEF HubRestart, TypeOK, Named, RegistryLive, Queues, HelloAckFirst,
         Hellos, Attached, Established, Messages
<1>28. CASE UNCHANGED <<pc, open, out, acked>>
  BY <1>28 DEF Queues, HelloAckFirst
<1> QED
  BY <1>1, <1>2, <1>3, <1>4, <1>5, <1>6, <1>7, <1>8, <1>9, <1>10, <1>11,
     <1>12, <1>13, <1>14, <1>15, <1>16, <1>17, <1>18, <1>19, <1>20, <1>21,
     <1>22, <1>23, <1>24, <1>25, <1>26, <1>27, <1>28
  DEF Next, SessionStep, RequestStep, StartRequest, KickWrite, DeleteWrite,
      RegenWrite, RegenMissing, DropClient, RequestRecord, RequestFails,
      DeleteRoom

(* Nothing but answers of the Hello waits where the send task of a client   *)
(* that still sends is about to be aborted.                                 *)
LEMMA AbortStep ==
    ASSUME TypeOK, Named, RegistryLive, Queues, AbortHarmless, [Next]_vars
    PROVE  AbortHarmless'
<1> USE ConnsAssumption, BoundsAssumption
<1>1. ASSUME NEW c \in Conns, HelloNew(c) PROVE AbortHarmless'
  BY <1>1 DEF HelloNew, TypeOK, Queues, AbortHarmless, Hellos
<1>2. ASSUME NEW c \in Conns, NEW d \in Devices, NEW t \in 1 .. MaxToken,
             HelloAgain(c, d, t)
      PROVE  AbortHarmless'
  BY <1>2 DEF HelloAgain, TypeOK, Queues, AbortHarmless, Hellos
<1>3. ASSUME NEW c \in Conns, NEW r \in {<< >>, <<"Reject">>},
             HelloRefused(c, r)
      PROVE  AbortHarmless'
  BY <1>3 DEF HelloRefused, TypeOK, Queues, AbortHarmless, Hellos
<1>4. ASSUME NEW c \in Conns, RoomExists(c) PROVE AbortHarmless'
  BY <1>4 DEF RoomExists, TypeOK, Queues, AbortHarmless, Hellos
<1>5. ASSUME NEW c \in Conns, NEW d \in Devices, InsertDevice(c, d)
      PROVE  AbortHarmless'
  BY <1>5 DEF InsertDevice, Enqueue, TypeOK, AbortHarmless
<1>6. ASSUME NEW c \in Conns, SelectDevice(c) PROVE AbortHarmless'
  BY <1>6 DEF SelectDevice, Authentic, TypeOK, Queues, AbortHarmless, Hellos
<1>7. ASSUME NEW c \in Conns, UpdateDevice(c) PROVE AbortHarmless'
  BY <1>7 DEF UpdateDevice, Enqueue, MarkDevice, TypeOK, Queues, AbortHarmless, Hellos
<1>8. ASSUME NEW c \in Conns, TurnAway(c) PROVE AbortHarmless'
  BY <1>8 DEF TurnAway, Enqueue, MarkDevice, TypeOK, Queues, AbortHarmless, Hellos
<1>9. ASSUME NEW c \in Conns, HelloFails(c) PROVE AbortHarmless'
  BY <1>9 DEF HelloFails, TypeOK, Queues, AbortHarmless, Hellos
<1>10. ASSUME NEW c \in Conns, RegisterClient(c)
      PROVE  AbortHarmless'
  BY <1>10 DEF RegisterClient, TypeOK, Queues, AbortHarmless, Hellos
<1>11. ASSUME NEW c \in Conns, NEW p \in {"recv", "record"}, SyncConfig(c, p)
      PROVE  AbortHarmless'
  BY <1>11 DEF SyncConfig, TypeOK, Queues, AbortHarmless, Hellos
<1>12. ASSUME NEW c \in Conns, RecordPush(c) PROVE AbortHarmless'
  BY <1>12 DEF RecordPush, TypeOK, Queues, AbortHarmless, Hellos
<1>13. ASSUME NEW c \in Conns, SendPush(c) PROVE AbortHarmless'
  <2>1. dev[c] \in Devices
    BY <1>13 DEF SendPush, Named, Attached, Established
  <2>2. /\ \A k \in Conns : pc'[k] = "ending" => pc[k] = "ending"
        /\ open' = open
    BY <1>13 DEF SendPush, TypeOK
  <2>3. \A k \in Conns : pc[k] = "ending" => k # clients[dev[c]]
    BY <2>1 DEF RegistryLive, Established
  <2>4. \A k \in Conns : k # clients[dev[c]] => out'[k] = out[k]
    BY <1>13, <2>1 DEF SendPush, Enqueue, TypeOK
  <2> QED BY <2>2, <2>3, <2>4 DEF AbortHarmless
<1>14. ASSUME NEW c \in Conns, NEW p \in {"recv", "sync"}, ReceiveConfig(c, p)
      PROVE  AbortHarmless'
  BY <1>14 DEF ReceiveConfig, MarkDevice, TypeOK, Queues, AbortHarmless, Hellos
<1>15. ASSUME NEW c \in Conns, ReceiveStopped(c)
      PROVE  AbortHarmless'
  BY <1>15 DEF ReceiveStopped, TypeOK, Queues, AbortHarmless, Hellos
<1>16. ASSUME NEW c \in Conns, ReceiveDisconnect(c)
      PROVE  AbortHarmless'
  BY <1>16 DEF ReceiveDisconnect, TypeOK, Queues, AbortHarmless, Hellos
<1>17. ASSUME NEW c \in Conns, DisconnectOffline(c)
      PROVE  AbortHarmless'
  BY <1>17 DEF DisconnectOffline, MarkDevice, TypeOK, Queues, AbortHarmless, Hellos
<1>18. ASSUME NEW c \in Conns, Unregister(c) PROVE AbortHarmless'
  BY <1>18 DEF Unregister, TypeOK, Queues, AbortHarmless, Hellos
<1>19. ASSUME NEW c \in Conns, MarkDeviceOffline(c)
      PROVE  AbortHarmless'
  BY <1>19 DEF MarkDeviceOffline, MarkDevice, TypeOK, Queues, AbortHarmless, Hellos
<1>20. ASSUME NEW c \in Conns, EndSession(c) PROVE AbortHarmless'
  BY <1>20 DEF EndSession, TypeOK, Queues, AbortHarmless, Hellos
<1>21. ASSUME NEW c \in Conns, StatementFails(c)
      PROVE  AbortHarmless'
  BY <1>21 DEF StatementFails, TypeOK, Queues, AbortHarmless, Hellos
<1>22. ASSUME NEW c \in Conns, OfflineFails(c) PROVE AbortHarmless'
  BY <1>22 DEF OfflineFails, TypeOK, Queues, AbortHarmless, Hellos
<1>23. ASSUME NEW c \in Conns, ReaderEnds(c) PROVE AbortHarmless'
  BY <1>23 DEF ReaderEnds, TypeOK, Queues, AbortHarmless, Hellos
<1>24. ASSUME NEW c \in Conns, Deliver(c) PROVE AbortHarmless'
  BY <1>24 DEF Deliver, TypeOK, Queues, AbortHarmless, Hellos
<1>25. ASSUME NEW a \in Callers, KickDrop(a) PROVE AbortHarmless'
  <2>1. adev[a] \in Devices
    BY <1>25 DEF KickDrop, Named, Attached, Established
  <2>2. /\ \A k \in Conns : pc'[k] = "ending" => pc[k] = "ending"
        /\ open' = open
    BY <1>25 DEF KickDrop, TypeOK
  <2>3. \A k \in Conns : pc[k] = "ending" => k # clients[adev[a]]
    BY <2>1 DEF RegistryLive, Established
  <2>4. \A k \in Conns : k # clients[adev[a]] => out'[k] = out[k]
    BY <1>25, <2>1 DEF KickDrop, Enqueue, TypeOK
  <2> QED BY <2>2, <2>3, <2>4 DEF AbortHarmless
<1>26. ASSUME NEW a \in Callers, RequestSend(a)
      PROVE  AbortHarmless'
  <2>1. adev[a] \in Devices
    BY <1>26 DEF RequestSend, Named, Attached, Established
  <2>2. /\ \A k \in Conns : pc'[k] = "ending" => pc[k] = "ending"
        /\ open' = open
    BY <1>26 DEF RequestSend, TypeOK
  <2>3. \A k \in Conns : pc[k] = "ending" => k # clients[adev[a]]
    BY <2>1 DEF RegistryLive, Established
  <2>4. \A k \in Conns : k # clients[adev[a]] => out'[k] = out[k]
    BY <1>26, <2>1 DEF RequestSend, Enqueue, TypeOK
  <2> QED BY <2>2, <2>3, <2>4 DEF AbortHarmless
<1>27. CASE HubRestart
  BY <1>27 DEF HubRestart, TypeOK, Queues, AbortHarmless, Hellos
<1>28. CASE UNCHANGED <<pc, open, out, acked>>
  BY <1>28 DEF AbortHarmless
<1> QED
  BY <1>1, <1>2, <1>3, <1>4, <1>5, <1>6, <1>7, <1>8, <1>9, <1>10, <1>11,
     <1>12, <1>13, <1>14, <1>15, <1>16, <1>17, <1>18, <1>19, <1>20, <1>21,
     <1>22, <1>23, <1>24, <1>25, <1>26, <1>27, <1>28
  DEF Next, SessionStep, RequestStep, StartRequest, KickWrite, DeleteWrite,
      RegenWrite, RegenMissing, DropClient, RequestRecord, RequestFails,
      DeleteRoom

-----------------------------------------------------------------------------
(* The initial states satisfy the inductive invariant ...                   *)
LEMMA InvInit == Init => SessionsInv
  BY DevicesAssumption, BoundsAssumption, ConnsAssumption
     DEF Init, SessionsInv, TypeOK, Named, SeenKicked, OnlineBacked, RegistryLive,
         RevokedEstablished, RevokedUnregistered, Queues, HelloAckFirst,
         AbortHarmless, Points, Requests, Messages, Hellos, Attached, Established

(* ... and every step keeps it.                                             *)
LEMMA InvStep == SessionsInv /\ [Next]_vars => SessionsInv'
  BY TypeStep, NamedStep, SeenStep, OnlineStep, RegistryStep, EstablishedStep,
     RevokedStep, QueuesStep, AbortStep DEF SessionsInv

(* The inductive invariant holds in every reachable state of the session    *)
(* and request handlers.                                                    *)
THEOREM Invariance == Spec => []SessionsInv
  BY InvInit, InvStep, PTL DEF Spec

(* Every variable keeps its type, whatever handle_client_session and the    *)
(* web requests do.                                                         *)
THEOREM TypeCorrect == Spec => []TypeOK
<1>1. SessionsInv => TypeOK
  BY DEF SessionsInv
<1> QED BY <1>1, Invariance, PTL

(* No interleaving of sessions, kicks, deletions and failures leaves a      *)
(* device 'online' without an attached session, restarts and ignored        *)
(* failures of mark_device_offline apart.                                   *)
THEOREM OnlineIsBacked == Spec => []OnlineBacked
<1>1. SessionsInv => OnlineBacked
  BY DEF SessionsInv
<1> QED BY <1>1, Invariance, PTL

(* No entry of AppState.clients outlives the session that put it there.     *)
THEOREM RegistryIsLive == Spec => []RegistryLive
<1>1. SessionsInv => RegistryLive
  BY DEF SessionsInv
<1> QED BY <1>1, Invariance, PTL

(* A kick, a deletion or a new token takes every established session of the *)
(* device out of the registry before its request is answered.               *)
THEOREM RevokedLeaves == Spec => []RevokedUnregistered
<1>1. SessionsInv => RevokedUnregistered
  BY DEF SessionsInv
<1> QED BY <1>1, Invariance, PTL

(* On every connection the HelloAck precedes pushes and kicks.              *)
THEOREM AckComesFirst == Spec => []HelloAckFirst
<1>1. SessionsInv => HelloAckFirst
  BY DEF SessionsInv
<1> QED BY <1>1, Invariance, PTL

(* Aborting the send task of a finished session loses a push or a kick only *)
(* of a client that had stopped sending first.                              *)
THEOREM AbortIsHarmless == Spec => []AbortHarmless
<1>1. SessionsInv => AbortHarmless
  BY DEF SessionsInv
<1> QED BY <1>1, Invariance, PTL

-----------------------------------------------------------------------------
(* The UPDATE that the session tasks share is a Connect, a Disconnect or no *)
(* change at all.                                                           *)
LEMMA MarkIsStep ==
    ASSUME TypeOK, NEW d \in Devices, NEW s \in {"online", "offline"},
           MarkDevice(d, s)
    PROVE  [Lifecycle!Next]_status
<1>1. CASE status[d] \in {"pending", "offline"} /\ s = "online"
  BY <1>1 DEF MarkDevice, Present, Lifecycle!Next, Lifecycle!Connect
<1>2. CASE status[d] \in {"pending", "online"} /\ s = "offline"
  BY <1>2 DEF MarkDevice, Present, Lifecycle!Next, Lifecycle!Disconnect
<1>3. CASE status[d] = s \/ status[d] \notin Present \ {"kicked"}
  BY <1>3 DEF MarkDevice, TypeOK
<1> QED BY <1>1, <1>2, <1>3 DEF Present

(* Every step is a step of the abstract device lifecycle, or none.          *)
LEMMA LifecycleStep ==
    ASSUME SessionsInv, [Next]_vars PROVE [Lifecycle!Next]_status
<1> USE DEF SessionsInv
<1>1. ASSUME NEW c \in Conns, NEW d \in Devices, InsertDevice(c, d)
      PROVE  Lifecycle!Enrol(d)
  BY <1>1 DEF InsertDevice, Lifecycle!Enrol
<1>2. ASSUME NEW c \in Conns,
             \/ UpdateDevice(c) \/ TurnAway(c) \/ DisconnectOffline(c)
             \/ MarkDeviceOffline(c) \/ \E p \in {"recv", "sync"} : ReceiveConfig(c, p)
      PROVE  [Lifecycle!Next]_status
  <2>1. dev[c] \in Devices
    BY <1>2 DEF Named, Attached, Established, UpdateDevice, TurnAway,
                DisconnectOffline, MarkDeviceOffline, ReceiveConfig
  <2>2. MarkDevice(dev[c], "online") \/ MarkDevice(dev[c], "offline")
    BY <1>2 DEF UpdateDevice, TurnAway, DisconnectOffline, MarkDeviceOffline,
                ReceiveConfig
  <2> QED BY <2>1, <2>2, MarkIsStep
<1>3. ASSUME NEW a \in Callers, KickWrite(a) PROVE Lifecycle!Next
  BY <1>3 DEF KickWrite, Named, Present, Lifecycle!Next, Lifecycle!Kick,
              Lifecycle!Present
<1>4. ASSUME NEW a \in Callers, DeleteWrite(a) PROVE [Lifecycle!Next]_status
  <2>1. adev[a] \in Devices /\ status[adev[a]] \in Present \cup {"gone"}
    BY <1>4 DEF DeleteWrite, Named, TypeOK
  <2>2. status' = [d \in Devices |-> IF d \in {adev[a]} THEN "gone" ELSE status[d]]
    BY <1>4, <2>1 DEF DeleteWrite, TypeOK
  <2>3. CASE status[adev[a]] \in Present
    <3>1. Lifecycle!Remove({adev[a]})
      BY <2>2, <2>3 DEF Lifecycle!Remove, Lifecycle!Present, Present
    <3> QED BY <2>1, <3>1 DEF Lifecycle!Next
  <2>4. CASE status[adev[a]] = "gone"
    BY <1>4, <2>1, <2>4 DEF DeleteWrite, TypeOK
  <2> QED BY <2>1, <2>3, <2>4
<1>5. CASE DeleteRoom
  <2> DEFINE D == {d \in Devices : status[d] \in Present}
  <2>1. Lifecycle!Remove(D)
    BY <1>5 DEF DeleteRoom, Lifecycle!Remove, Lifecycle!Present, Present
  <2> QED BY <2>1 DEF Lifecycle!Next
<1>6. CASE UNCHANGED status
  BY <1>6
<1> QED
  BY <1>1, <1>2, <1>3, <1>4, <1>5, <1>6
  DEF Next, SessionStep, RequestStep, Lifecycle!Next, HelloNew, HelloAgain,
      HelloRefused, RoomExists, SelectDevice, HelloFails, RegisterClient,
      SyncConfig, RecordPush, SendPush, ReceiveStopped, ReceiveDisconnect,
      Unregister, EndSession, StatementFails, OfflineFails, ReaderEnds, Deliver,
      StartRequest, KickDrop, RegenWrite, RegenMissing, DropClient, RequestRecord,
      RequestSend, RequestFails, HubRestart

(* The concurrent session and request handlers implement the abstract life  *)
(* of a row of `devices`: 'pending' once, 'kicked' for good, gone for ever. *)
THEOREM Refinement == Spec => LifecycleSpec
<1>1. Init => Lifecycle!Init
  BY DEF Init, Lifecycle!Init
<1>2. SessionsInv /\ [Next]_vars => [Lifecycle!Next]_status
  BY LifecycleStep
<1> QED BY <1>1, <1>2, Invariance, PTL DEF Spec, LifecycleSpec, Lifecycle!Spec
=============================================================================
