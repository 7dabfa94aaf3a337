-------------------------- MODULE UdpSessionsProofs --------------------------
(***************************************************************************)
(* Proofs about UdpSessions, for any number of devices, addresses and      *)
(* concurrent requests: the datagrams may come in any order and number.    *)
(*                                                                         *)
(* One lemma per conjunct of UdpInv says that every step keeps it, with    *)
(* one step per action that touches the variables it speaks of.            *)
(***************************************************************************)
EXTENDS UdpSessions, TLAPS

USE DEF vars, store, local, request, history, Goto, Done

(* Every step keeps the types.                                              *)
LEMMA UdpTypeStep ==
    ASSUME UdpTypeOK, InHand, [Next]_vars PROVE UdpTypeOK'
<1> USE DevicesAssumption, PeersAssumption, TokenAssumption
<1>0. 0 \in 0 .. MaxToken /\ 1 \in 0 .. MaxToken
  OBVIOUS
<1>1. ASSUME NEW p \in Peers, HelloNew(p) PROVE UdpTypeOK'
  BY <1>1 DEF HelloNew, Take, UdpTypeOK, InHand, Present, Requests, Points,
      Hellos, LetIn
<1>2. ASSUME NEW p \in Peers, NEW d \in Devices, NEW t \in 1 .. MaxToken,
      HelloAgain(p, d, t) PROVE UdpTypeOK'
  BY <1>2 DEF HelloAgain, Take, UdpTypeOK, InHand, Present, Requests, Points,
      Hellos, LetIn
<1>3. ASSUME NEW p \in Peers, ReceiveConfig(p) PROVE UdpTypeOK'
  BY <1>3 DEF ReceiveConfig, Receive, Take, MarkDevice, UdpTypeOK, InHand,
      Present, Requests, Points, Hellos, LetIn
<1>4. ASSUME NEW p \in Peers, ReceiveDisconnect(p) PROVE UdpTypeOK'
  BY <1>4 DEF ReceiveDisconnect, Receive, Take, RemoveClient, UdpTypeOK,
      InHand, Present, Requests, Points, Hellos, LetIn
<1>5. CASE RoomExists
  BY <1>5 DEF RoomExists, UdpTypeOK, InHand, Present, Requests, Points,
      Hellos, LetIn
<1>6. ASSUME NEW d \in Devices, InsertDevice(d) PROVE UdpTypeOK'
  BY <1>6 DEF InsertDevice, UdpTypeOK, InHand, Present, Requests, Points,
      Hellos, LetIn
<1>7. CASE SelectDevice
  BY <1>7 DEF SelectDevice, Authentic, UdpTypeOK, InHand, Present, Requests,
      Points, Hellos, LetIn
<1>8. CASE UpdateDevice
  BY <1>8 DEF UpdateDevice, MarkDevice, UdpTypeOK, InHand, Present, Requests,
      Points, Hellos, LetIn
<1>9. CASE HelloFails
  BY <1>0, <1>9 DEF HelloFails, UdpTypeOK, InHand, Present, Requests, Points,
      Hellos, LetIn
<1>10. ASSUME NEW b \in BOOLEAN, AfterAck(b) PROVE UdpTypeOK'
  BY <1>0, <1>10 DEF AfterAck, Answered, UdpTypeOK, InHand, Present, Requests,
      Points, Hellos, LetIn
<1>11. CASE InsertPeer
  BY <1>11 DEF InsertPeer, Abandoned, UdpTypeOK, InHand, Present, Requests,
      Points, Hellos, LetIn
<1>12. CASE InsertClient
  BY <1>12 DEF InsertClient, UdpTypeOK, InHand, Present, Requests, Points,
      Hellos, LetIn
<1>13. CASE SyncConfig
  BY <1>0, <1>13 DEF SyncConfig, UdpTypeOK, InHand, Present, Requests, Points,
      Hellos, LetIn
<1>14. CASE DisconnectOffline
  BY <1>14 DEF DisconnectOffline, MarkDevice, UdpTypeOK, InHand, Present,
      Requests, Points, Hellos, LetIn
<1>15. CASE OfflineFails
  BY <1>15 DEF OfflineFails, Abandoned, UdpTypeOK, InHand, Present, Requests,
      Points, Hellos, LetIn
<1>16. CASE RemovePeer
  BY <1>0, <1>16 DEF RemovePeer, UdpTypeOK, InHand, Present, Requests, Points,
      Hellos, LetIn
<1>17. ASSUME NEW a \in Callers, NEW d \in Devices, KickWrite(a, d) PROVE UdpTypeOK'
  BY <1>17 DEF KickWrite, Begin, Revoke, UdpTypeOK, InHand, Present, Requests,
      Points, Hellos, LetIn
<1>18. ASSUME NEW a \in Callers, NEW d \in Devices, DeleteWrite(a, d) PROVE
      UdpTypeOK'
  BY <1>18 DEF DeleteWrite, Begin, Revoke, UdpTypeOK, InHand, Present,
      Requests, Points, Hellos, LetIn
<1>19. ASSUME NEW a \in Callers, NEW d \in Devices, RegenWrite(a, d) PROVE UdpTypeOK'
  BY <1>19 DEF RegenWrite, Begin, Revoke, UdpTypeOK, InHand, Present,
      Requests, Points, Hellos, LetIn
<1>20. ASSUME NEW a \in Callers, NEW d \in Devices, RegenMissing(a, d) PROVE
      UdpTypeOK'
  BY <1>20 DEF RegenMissing, Begin, UdpTypeOK, InHand, Present, Requests,
      Points, Hellos, LetIn
<1>21. ASSUME NEW a \in Callers, DropClient(a) PROVE UdpTypeOK'
  BY <1>21 DEF DropClient, RemoveClient, Answer, UdpTypeOK, InHand, Present,
      Requests, Points, Hellos, LetIn
<1>22. ASSUME NEW a \in Callers, RequestFails(a) PROVE UdpTypeOK'
  BY <1>22 DEF RequestFails, Answer, UdpTypeOK, InHand, Present, Requests,
      Points, Hellos, LetIn
<1>23. CASE DeleteRoom
  BY <1>23 DEF DeleteRoom, UdpTypeOK, InHand, Present, Requests, Points,
      Hellos, LetIn
<1>24. CASE HubRestart
  BY <1>0, <1>24 DEF HubRestart, UdpTypeOK, InHand, Present, Requests, Points,
      Hellos, LetIn
<1>25. CASE UNCHANGED vars
  BY <1>25 DEF UdpTypeOK, InHand, Present, Requests, Points, Hellos, LetIn
<1> QED
  BY <1>1, <1>2, <1>3, <1>4, <1>5, <1>6, <1>7, <1>8, <1>9, <1>10, <1>11,
     <1>12, <1>13, <1>14, <1>15, <1>16, <1>17, <1>18, <1>19, <1>20, <1>21,
     <1>22, <1>23, <1>24, <1>25
  DEF Next, LoopStep

(* What the loop holds when it comes to each of its points.                 *)
LEMMA InHandStep ==
    ASSUME UdpTypeOK, InHand, [Next]_vars PROVE InHand'
<1> USE DevicesAssumption
<1>1. ASSUME NEW p \in Peers, HelloNew(p) PROVE InHand'
  BY <1>1 DEF HelloNew, Take, UdpTypeOK, InHand, Points, Hellos, LetIn
<1>2. ASSUME NEW p \in Peers, NEW d \in Devices, NEW t \in 1 .. MaxToken,
      HelloAgain(p, d, t) PROVE InHand'
  BY <1>2 DEF HelloAgain, Take, UdpTypeOK, InHand, Points, Hellos, LetIn
<1>3. ASSUME NEW p \in Peers, ReceiveConfig(p) PROVE InHand'
  BY <1>3 DEF ReceiveConfig, Receive, Take, MarkDevice, UdpTypeOK, InHand,
      Points, Hellos, LetIn
<1>4. ASSUME NEW p \in Peers, ReceiveDisconnect(p) PROVE InHand'
  BY <1>4 DEF ReceiveDisconnect, Receive, Take, RemoveClient, UdpTypeOK,
      InHand, Points, Hellos, LetIn
<1>5. CASE RoomExists
  BY <1>5 DEF RoomExists, UdpTypeOK, InHand, Points, Hellos, LetIn
<1>6. ASSUME NEW d \in Devices, InsertDevice(d) PROVE InHand'
  BY <1>6 DEF InsertDevice, UdpTypeOK, InHand, Points, Hellos, LetIn
<1>7. CASE SelectDevice
  BY <1>7 DEF SelectDevice, Authentic, UdpTypeOK, InHand, Points, Hellos,
      LetIn
<1>8. CASE UpdateDevice
  BY <1>8 DEF UpdateDevice, MarkDevice, UdpTypeOK, InHand, Points, Hellos,
      LetIn
<1>9. CASE HelloFails
  BY <1>9 DEF HelloFails, UdpTypeOK, InHand, Points, Hellos, LetIn
<1>10. ASSUME NEW b \in BOOLEAN, AfterAck(b) PROVE InHand'
  BY <1>10 DEF AfterAck, Answered, UdpTypeOK, InHand, Points, Hellos, LetIn
<1>11. CASE InsertPeer
  BY <1>11 DEF InsertPeer, Abandoned, UdpTypeOK, InHand, Points, Hellos, LetIn
<1>12. CASE InsertClient
  BY <1>12 DEF InsertClient, UdpTypeOK, InHand, Points, Hellos, LetIn
<1>13. CASE SyncConfig
  BY <1>13 DEF SyncConfig, UdpTypeOK, InHand, Points, Hellos, LetIn
<1>14. CASE DisconnectOffline
  BY <1>14 DEF DisconnectOffline, MarkDevice, UdpTypeOK, InHand, Points,
      Hellos, LetIn
<1>15. CASE OfflineFails
  BY <1>15 DEF OfflineFails, Abandoned, UdpTypeOK, InHand, Points, Hellos,
      LetIn
<1>16. CASE RemovePeer
  BY <1>16 DEF RemovePeer, UdpTypeOK, InHand, Points, Hellos, LetIn
<1>17. CASE HubRestart
  BY <1>17 DEF HubRestart, UdpTypeOK, InHand, Points, Hellos, LetIn
<1>18. CASE UNCHANGED local
  BY <1>18 DEF UdpTypeOK, InHand, Points, Hellos, LetIn
<1> QED
  BY <1>1, <1>2, <1>3, <1>4, <1>5, <1>6, <1>7, <1>8, <1>9, <1>10, <1>11,
     <1>12, <1>13, <1>14, <1>15, <1>16, <1>17, <1>18
  DEF Next, LoopStep, KickWrite, DeleteWrite, RegenWrite, RegenMissing,
      DropClient, RequestFails, DeleteRoom, Answer, Begin, RemoveClient,
      Revoke

(* Requests that change what a Hello was checked against are noted, and the *)
(* loop alone marks devices online.                                         *)
LEMMA CheckStep ==
    ASSUME UdpTypeOK, InHand, CheckStands, [Next]_vars PROVE CheckStands'
<1>1. ASSUME NEW p \in Peers, HelloNew(p) PROVE CheckStands'
  BY <1>1 DEF HelloNew, Take, UdpTypeOK, InHand, CheckStands, Present, Points,
      Hellos, LetIn
<1>2. ASSUME NEW p \in Peers, NEW d \in Devices, NEW t \in 1 .. MaxToken,
      HelloAgain(p, d, t) PROVE CheckStands'
  BY <1>2 DEF HelloAgain, Take, UdpTypeOK, InHand, CheckStands, Present,
      Points, Hellos, LetIn
<1>3. ASSUME NEW p \in Peers, ReceiveConfig(p) PROVE CheckStands'
  BY <1>3 DEF ReceiveConfig, Receive, Take, MarkDevice, UdpTypeOK, InHand,
      CheckStands, Present, Points, Hellos, LetIn
<1>4. ASSUME NEW p \in Peers, ReceiveDisconnect(p) PROVE CheckStands'
  BY <1>4 DEF ReceiveDisconnect, Receive, Take, RemoveClient, UdpTypeOK,
      InHand, CheckStands, Present, Points, Hellos, LetIn
<1>5. CASE RoomExists
  BY <1>5 DEF RoomExists, UdpTypeOK, InHand, CheckStands, Present, Points,
      Hellos, LetIn
<1>6. ASSUME NEW d \in Devices, InsertDevice(d) PROVE CheckStands'
  BY <1>6 DEF InsertDevice, UdpTypeOK, InHand, CheckStands, Present, Points,
      Hellos, LetIn
<1>7. CASE SelectDevice
  BY <1>7 DEF SelectDevice, Authentic, UdpTypeOK, InHand, CheckStands,
      Present, Points, Hellos, LetIn
<1>8. CASE UpdateDevice
  BY <1>8 DEF UpdateDevice, MarkDevice, UdpTypeOK, InHand, CheckStands,
      Present, Points, Hellos, LetIn
<1>9. CASE HelloFails
  BY <1>9 DEF HelloFails, UdpTypeOK, InHand, CheckStands, Present, Points,
      Hellos, LetIn
<1>10. ASSUME NEW b \in BOOLEAN, AfterAck(b) PROVE CheckStands'
  BY <1>10 DEF AfterAck, Answered, UdpTypeOK, InHand, CheckStands, Present,
      Points, Hellos, LetIn
<1>11. CASE InsertPeer
  BY <1>11 DEF InsertPeer, Abandoned, UdpTypeOK, InHand, CheckStands, Present,
      Points, Hellos, LetIn
<1>12. CASE InsertClient
  BY <1>12 DEF InsertClient, UdpTypeOK, InHand, CheckStands, Present, Points,
      Hellos, LetIn
<1>13. CASE SyncConfig
  BY <1>13 DEF SyncConfig, UdpTypeOK, InHand, CheckStands, Present, Points,
      Hellos, LetIn
<1>14. CASE DisconnectOffline
  BY <1>14 DEF DisconnectOffline, MarkDevice, UdpTypeOK, InHand, CheckStands,
      Present, Points, Hellos, LetIn
<1>15. CASE OfflineFails
  BY <1>15 DEF OfflineFails, Abandoned, UdpTypeOK, InHand, CheckStands,
      Present, Points, Hellos, LetIn
<1>16. CASE RemovePeer
  BY <1>16 DEF RemovePeer, UdpTypeOK, InHand, CheckStands, Present, Points,
      Hellos, LetIn
<1>17. ASSUME NEW a \in Callers, NEW d \in Devices, KickWrite(a, d) PROVE
      CheckStands'
  BY <1>17 DEF KickWrite, Begin, Revoke, UdpTypeOK, InHand, CheckStands,
      Present, Points, Hellos, LetIn
<1>18. ASSUME NEW a \in Callers, NEW d \in Devices, DeleteWrite(a, d) PROVE
      CheckStands'
  BY <1>18 DEF DeleteWrite, Begin, Revoke, UdpTypeOK, InHand, CheckStands,
      Present, Points, Hellos, LetIn
<1>19. ASSUME NEW a \in Callers, NEW d \in Devices, RegenWrite(a, d) PROVE
      CheckStands'
  BY <1>19 DEF RegenWrite, Begin, Revoke, UdpTypeOK, InHand, CheckStands,
      Present, Points, Hellos, LetIn
<1>20. ASSUME NEW a \in Callers, NEW d \in Devices, RegenMissing(a, d) PROVE
      CheckStands'
  BY <1>20 DEF RegenMissing, Begin, UdpTypeOK, InHand, CheckStands, Present,
      Points, Hellos, LetIn
<1>21. ASSUME NEW a \in Callers, DropClient(a) PROVE CheckStands'
  BY <1>21 DEF DropClient, RemoveClient, Answer, UdpTypeOK, InHand,
      CheckStands, Present, Points, Hellos, LetIn
<1>22. ASSUME NEW a \in Callers, RequestFails(a) PROVE CheckStands'
  BY <1>22 DEF RequestFails, Answer, UdpTypeOK, InHand, CheckStands, Present,
      Points, Hellos, LetIn
<1>23. CASE DeleteRoom
  BY <1>23 DEF DeleteRoom, UdpTypeOK, InHand, CheckStands, Present, Points,
      Hellos, LetIn
<1>24. CASE HubRestart
  BY <1>24 DEF HubRestart, UdpTypeOK, InHand, CheckStands, Present, Points,
      Hellos, LetIn
<1>25. CASE UNCHANGED vars
  BY <1>25 DEF UdpTypeOK, InHand, CheckStands, Present, Points, Hellos, LetIn
<1> QED
  BY <1>1, <1>2, <1>3, <1>4, <1>5, <1>6, <1>7, <1>8, <1>9, <1>10, <1>11,
     <1>12, <1>13, <1>14, <1>15, <1>16, <1>17, <1>18, <1>19, <1>20, <1>21,
     <1>22, <1>23, <1>24, <1>25
  DEF Next, LoopStep

(* The loop alone writes `peers` and adds to the registry.                  *)
LEMMA AddressStep ==
    ASSUME UdpTypeOK, InHand, AtAddress, [Next]_vars PROVE AtAddress'
<1>1. ASSUME NEW p \in Peers, HelloNew(p) PROVE AtAddress'
  BY <1>1 DEF HelloNew, Take, UdpTypeOK, InHand, AtAddress, Present, Points,
      Hellos, LetIn
<1>2. ASSUME NEW p \in Peers, NEW d \in Devices, NEW t \in 1 .. MaxToken,
      HelloAgain(p, d, t) PROVE AtAddress'
  BY <1>2 DEF HelloAgain, Take, UdpTypeOK, InHand, AtAddress, Present, Points,
      Hellos, LetIn
<1>3. ASSUME NEW p \in Peers, ReceiveConfig(p) PROVE AtAddress'
  BY <1>3 DEF ReceiveConfig, Receive, Take, MarkDevice, UdpTypeOK, InHand,
      AtAddress, Present, Points, Hellos, LetIn
<1>4. ASSUME NEW p \in Peers, ReceiveDisconnect(p) PROVE AtAddress'
  BY <1>4 DEF ReceiveDisconnect, Receive, Take, RemoveClient, UdpTypeOK,
      InHand, AtAddress, Present, Points, Hellos, LetIn
<1>5. CASE RoomExists
  BY <1>5 DEF RoomExists, UdpTypeOK, InHand, AtAddress, Present, Points,
      Hellos, LetIn
<1>6. ASSUME NEW d \in Devices, InsertDevice(d) PROVE AtAddress'
  BY <1>6 DEF InsertDevice, UdpTypeOK, InHand, AtAddress, Present, Points,
      Hellos, LetIn
<1>7. CASE SelectDevice
  BY <1>7 DEF SelectDevice, Authentic, UdpTypeOK, InHand, AtAddress, Present,
      Points, Hellos, LetIn
<1>8. CASE UpdateDevice
  BY <1>8 DEF UpdateDevice, MarkDevice, UdpTypeOK, InHand, AtAddress, Present,
      Points, Hellos, LetIn
<1>9. CASE HelloFails
  BY <1>9 DEF HelloFails, UdpTypeOK, InHand, AtAddress, Present, Points,
      Hellos, LetIn
<1>10. ASSUME NEW b \in BOOLEAN, AfterAck(b) PROVE AtAddress'
  BY <1>10 DEF AfterAck, Answered, UdpTypeOK, InHand, AtAddress, Present,
      Points, Hellos, LetIn
<1>11. CASE InsertPeer
  BY <1>11 DEF InsertPeer, Abandoned, UdpTypeOK, InHand, AtAddress, Present,
      Points, Hellos, LetIn
<1>12. CASE InsertClient
  BY <1>12 DEF InsertClient, UdpTypeOK, InHand, AtAddress, Present, Points,
      Hellos, LetIn
<1>13. CASE SyncConfig
  BY <1>13 DEF SyncConfig, UdpTypeOK, InHand, AtAddress, Present, Points,
      Hellos, LetIn
<1>14. CASE DisconnectOffline
  BY <1>14 DEF DisconnectOffline, MarkDevice, UdpTypeOK, InHand, AtAddress,
      Present, Points, Hellos, LetIn
<1>15. CASE OfflineFails
  <2>1. /\ pc' = "d_peers" /\ dev' = dev /\ from' = from
        /\ peers' = peers /\ clients' = clients /\ status' = status
        /\ dev \in Devices /\ from \in Peers
        /\ peers[from] = dev /\ clients[dev] = NoPeer
    BY <1>15 DEF OfflineFails, InHand, AtAddress, Points, Hellos
  <2>2. CASE status[dev] # "online" \/ \E p \in Peers \ {from} : peers[p] = dev
    BY <2>1, <2>2 DEF AtAddress
  <2>3. CASE status[dev] = "online" /\ \A p \in Peers \ {from} : peers[p] # dev
    <3>1. dev \in Abandoned(from, NoDevice)
      BY DevicesAssumption, <2>1, <2>3 DEF Abandoned
    <3> QED BY <1>15, <2>1, <3>1 DEF OfflineFails, AtAddress
  <2> QED BY <2>2, <2>3
<1>16. CASE RemovePeer
  BY <1>16 DEF RemovePeer, UdpTypeOK, InHand, AtAddress, Present, Points,
      Hellos, LetIn
<1>17. ASSUME NEW a \in Callers, NEW d \in Devices, KickWrite(a, d) PROVE AtAddress'
  BY <1>17 DEF KickWrite, Begin, Revoke, UdpTypeOK, InHand, AtAddress,
      Present, Points, Hellos, LetIn
<1>18. ASSUME NEW a \in Callers, NEW d \in Devices, DeleteWrite(a, d) PROVE
      AtAddress'
  BY <1>18 DEF DeleteWrite, Begin, Revoke, UdpTypeOK, InHand, AtAddress,
      Present, Points, Hellos, LetIn
<1>19. ASSUME NEW a \in Callers, NEW d \in Devices, RegenWrite(a, d) PROVE AtAddress'
  BY <1>19 DEF RegenWrite, Begin, Revoke, UdpTypeOK, InHand, AtAddress,
      Present, Points, Hellos, LetIn
<1>20. ASSUME NEW a \in Callers, NEW d \in Devices, RegenMissing(a, d) PROVE
      AtAddress'
  BY <1>20 DEF RegenMissing, Begin, UdpTypeOK, InHand, AtAddress, Present,
      Points, Hellos, LetIn
<1>21. ASSUME NEW a \in Callers, DropClient(a) PROVE AtAddress'
  BY <1>21 DEF DropClient, RemoveClient, Answer, UdpTypeOK, InHand, AtAddress,
      Present, Points, Hellos, LetIn
<1>22. ASSUME NEW a \in Callers, RequestFails(a) PROVE AtAddress'
  BY <1>22 DEF RequestFails, Answer, UdpTypeOK, InHand, AtAddress, Present,
      Points, Hellos, LetIn
<1>23. CASE DeleteRoom
  BY <1>23 DEF DeleteRoom, UdpTypeOK, InHand, AtAddress, Present, Points,
      Hellos, LetIn
<1>24. CASE HubRestart
  BY <1>24 DEF HubRestart, UdpTypeOK, InHand, AtAddress, Present, Points,
      Hellos, LetIn
<1>25. CASE UNCHANGED vars
  BY <1>25 DEF UdpTypeOK, InHand, AtAddress, Present, Points, Hellos, LetIn
<1> QED
  BY <1>1, <1>2, <1>3, <1>4, <1>5, <1>6, <1>7, <1>8, <1>9, <1>10, <1>11,
     <1>12, <1>13, <1>14, <1>15, <1>16, <1>17, <1>18, <1>19, <1>20, <1>21,
     <1>22, <1>23, <1>24, <1>25
  DEF Next, LoopStep

(* A device is marked online when its address is in `peers`, or before it   *)
(* is put there.                                                            *)
LEMMA OnlineStep ==
    ASSUME UdpTypeOK, InHand, CheckStands, AtAddress, UdpOnlineBacked, [Next]_vars PROVE UdpOnlineBacked'
<1>1. ASSUME NEW p \in Peers, HelloNew(p) PROVE UdpOnlineBacked'
  BY <1>1 DEF HelloNew, Take, UdpTypeOK, InHand, CheckStands, AtAddress,
      UdpOnlineBacked, Present, Points, Hellos, LetIn
<1>2. ASSUME NEW p \in Peers, NEW d \in Devices, NEW t \in 1 .. MaxToken,
      HelloAgain(p, d, t) PROVE UdpOnlineBacked'
  BY <1>2 DEF HelloAgain, Take, UdpTypeOK, InHand, CheckStands, AtAddress,
      UdpOnlineBacked, Present, Points, Hellos, LetIn
<1>3. ASSUME NEW p \in Peers, ReceiveConfig(p) PROVE UdpOnlineBacked'
  BY <1>3 DEF ReceiveConfig, Receive, Take, MarkDevice, UdpTypeOK, InHand,
      CheckStands, AtAddress, UdpOnlineBacked, Present, Points, Hellos, LetIn
<1>4. ASSUME NEW p \in Peers, ReceiveDisconnect(p) PROVE UdpOnlineBacked'
  BY <1>4 DEF ReceiveDisconnect, Receive, Take, RemoveClient, UdpTypeOK,
      InHand, CheckStands, AtAddress, UdpOnlineBacked, Present, Points,
      Hellos, LetIn
<1>5. CASE RoomExists
  BY <1>5 DEF RoomExists, UdpTypeOK, InHand, CheckStands, AtAddress,
      UdpOnlineBacked, Present, Points, Hellos, LetIn
<1>6. ASSUME NEW d \in Devices, InsertDevice(d) PROVE UdpOnlineBacked'
  BY <1>6 DEF InsertDevice, UdpTypeOK, InHand, CheckStands, AtAddress,
      UdpOnlineBacked, Present, Points, Hellos, LetIn
<1>7. CASE SelectDevice
  BY <1>7 DEF SelectDevice, Authentic, UdpTypeOK, InHand, CheckStands,
      AtAddress, UdpOnlineBacked, Present, Points, Hellos, LetIn
<1>8. CASE UpdateDevice
  BY <1>8 DEF UpdateDevice, MarkDevice, UdpTypeOK, InHand, CheckStands,
      AtAddress, UdpOnlineBacked, Present, Points, Hellos, LetIn
<1>9. CASE HelloFails
  BY <1>9 DEF HelloFails, UdpTypeOK, InHand, CheckStands, AtAddress,
      UdpOnlineBacked, Present, Points, Hellos, LetIn
<1>10. ASSUME NEW b \in BOOLEAN, AfterAck(b) PROVE UdpOnlineBacked'
  BY <1>10 DEF AfterAck, Answered, UdpTypeOK, InHand, CheckStands, AtAddress,
      UdpOnlineBacked, Present, Points, Hellos, LetIn
<1>11. CASE InsertPeer
  BY <1>11 DEF InsertPeer, Abandoned, UdpTypeOK, InHand, CheckStands,
      AtAddress, UdpOnlineBacked, Present, Points, Hellos, LetIn
<1>12. CASE InsertClient
  BY <1>12 DEF InsertClient, UdpTypeOK, InHand, CheckStands, AtAddress,
      UdpOnlineBacked, Present, Points, Hellos, LetIn
<1>13. CASE SyncConfig
  BY <1>13 DEF SyncConfig, UdpTypeOK, InHand, CheckStands, AtAddress,
      UdpOnlineBacked, Present, Points, Hellos, LetIn
<1>14. CASE DisconnectOffline
  BY <1>14 DEF DisconnectOffline, MarkDevice, UdpTypeOK, InHand, CheckStands,
      AtAddress, UdpOnlineBacked, Present, Points, Hellos, LetIn
<1>15. CASE OfflineFails
  BY <1>15 DEF OfflineFails, Abandoned, UdpTypeOK, InHand, CheckStands,
      AtAddress, UdpOnlineBacked, Present, Points, Hellos, LetIn
<1>16. CASE RemovePeer
  BY <1>16 DEF RemovePeer, UdpTypeOK, InHand, CheckStands, AtAddress,
      UdpOnlineBacked, Present, Points, Hellos, LetIn
<1>17. ASSUME NEW a \in Callers, NEW d \in Devices, KickWrite(a, d) PROVE
      UdpOnlineBacked'
  BY <1>17 DEF KickWrite, Begin, Revoke, UdpTypeOK, InHand, CheckStands,
      AtAddress, UdpOnlineBacked, Present, Points, Hellos, LetIn
<1>18. ASSUME NEW a \in Callers, NEW d \in Devices, DeleteWrite(a, d) PROVE
      UdpOnlineBacked'
  BY <1>18 DEF DeleteWrite, Begin, Revoke, UdpTypeOK, InHand, CheckStands,
      AtAddress, UdpOnlineBacked, Present, Points, Hellos, LetIn
<1>19. ASSUME NEW a \in Callers, NEW d \in Devices, RegenWrite(a, d) PROVE
      UdpOnlineBacked'
  BY <1>19 DEF RegenWrite, Begin, Revoke, UdpTypeOK, InHand, CheckStands,
      AtAddress, UdpOnlineBacked, Present, Points, Hellos, LetIn
<1>20. ASSUME NEW a \in Callers, NEW d \in Devices, RegenMissing(a, d) PROVE
      UdpOnlineBacked'
  BY <1>20 DEF RegenMissing, Begin, UdpTypeOK, InHand, CheckStands, AtAddress,
      UdpOnlineBacked, Present, Points, Hellos, LetIn
<1>21. ASSUME NEW a \in Callers, DropClient(a) PROVE UdpOnlineBacked'
  BY <1>21 DEF DropClient, RemoveClient, Answer, UdpTypeOK, InHand,
      CheckStands, AtAddress, UdpOnlineBacked, Present, Points, Hellos, LetIn
<1>22. ASSUME NEW a \in Callers, RequestFails(a) PROVE UdpOnlineBacked'
  BY <1>22 DEF RequestFails, Answer, UdpTypeOK, InHand, CheckStands,
      AtAddress, UdpOnlineBacked, Present, Points, Hellos, LetIn
<1>23. CASE DeleteRoom
  BY <1>23 DEF DeleteRoom, UdpTypeOK, InHand, CheckStands, AtAddress,
      UdpOnlineBacked, Present, Points, Hellos, LetIn
<1>24. CASE HubRestart
  BY <1>24 DEF HubRestart, UdpTypeOK, InHand, CheckStands, AtAddress,
      UdpOnlineBacked, Present, Points, Hellos, LetIn
<1>25. CASE UNCHANGED vars
  BY <1>25 DEF UdpTypeOK, InHand, CheckStands, AtAddress, UdpOnlineBacked,
      Present, Points, Hellos, LetIn
<1> QED
  BY <1>1, <1>2, <1>3, <1>4, <1>5, <1>6, <1>7, <1>8, <1>9, <1>10, <1>11,
     <1>12, <1>13, <1>14, <1>15, <1>16, <1>17, <1>18, <1>19, <1>20, <1>21,
     <1>22, <1>23, <1>24, <1>25
  DEF Next, LoopStep

(* An entry is made after its address, and removed before it.               *)
LEMMA EntryStep ==
    ASSUME UdpTypeOK, InHand, AtAddress, EntryAddressed, [Next]_vars PROVE EntryAddressed'
<1>1. ASSUME NEW p \in Peers, HelloNew(p) PROVE EntryAddressed'
  BY <1>1 DEF HelloNew, Take, UdpTypeOK, InHand, AtAddress, EntryAddressed,
      Points, Hellos, LetIn
<1>2. ASSUME NEW p \in Peers, NEW d \in Devices, NEW t \in 1 .. MaxToken,
      HelloAgain(p, d, t) PROVE EntryAddressed'
  BY <1>2 DEF HelloAgain, Take, UdpTypeOK, InHand, AtAddress, EntryAddressed,
      Points, Hellos, LetIn
<1>3. ASSUME NEW p \in Peers, ReceiveConfig(p) PROVE EntryAddressed'
  BY <1>3 DEF ReceiveConfig, Receive, Take, MarkDevice, UdpTypeOK, InHand,
      AtAddress, EntryAddressed, Points, Hellos, LetIn
<1>4. ASSUME NEW p \in Peers, ReceiveDisconnect(p) PROVE EntryAddressed'
  BY <1>4 DEF ReceiveDisconnect, Receive, Take, RemoveClient, UdpTypeOK,
      InHand, AtAddress, EntryAddressed, Points, Hellos, LetIn
<1>5. CASE RoomExists
  BY <1>5 DEF RoomExists, UdpTypeOK, InHand, AtAddress, EntryAddressed,
      Points, Hellos, LetIn
<1>6. ASSUME NEW d \in Devices, InsertDevice(d) PROVE EntryAddressed'
  BY <1>6 DEF InsertDevice, UdpTypeOK, InHand, AtAddress, EntryAddressed,
      Points, Hellos, LetIn
<1>7. CASE SelectDevice
  BY <1>7 DEF SelectDevice, Authentic, UdpTypeOK, InHand, AtAddress,
      EntryAddressed, Points, Hellos, LetIn
<1>8. CASE UpdateDevice
  BY <1>8 DEF UpdateDevice, MarkDevice, UdpTypeOK, InHand, AtAddress,
      EntryAddressed, Points, Hellos, LetIn
<1>9. CASE HelloFails
  BY <1>9 DEF HelloFails, UdpTypeOK, InHand, AtAddress, EntryAddressed,
      Points, Hellos, LetIn
<1>10. ASSUME NEW b \in BOOLEAN, AfterAck(b) PROVE EntryAddressed'
  BY <1>10 DEF AfterAck, Answered, UdpTypeOK, InHand, AtAddress,
      EntryAddressed, Points, Hellos, LetIn
<1>11. CASE InsertPeer
  BY <1>11 DEF InsertPeer, Abandoned, UdpTypeOK, InHand, AtAddress,
      EntryAddressed, Points, Hellos, LetIn
<1>12. CASE InsertClient
  BY <1>12 DEF InsertClient, UdpTypeOK, InHand, AtAddress, EntryAddressed,
      Points, Hellos, LetIn
<1>13. CASE SyncConfig
  BY <1>13 DEF SyncConfig, UdpTypeOK, InHand, AtAddress, EntryAddressed,
      Points, Hellos, LetIn
<1>14. CASE DisconnectOffline
  BY <1>14 DEF DisconnectOffline, MarkDevice, UdpTypeOK, InHand, AtAddress,
      EntryAddressed, Points, Hellos, LetIn
<1>15. CASE OfflineFails
  BY <1>15 DEF OfflineFails, Abandoned, UdpTypeOK, InHand, AtAddress,
      EntryAddressed, Points, Hellos, LetIn
<1>16. CASE RemovePeer
  BY <1>16 DEF RemovePeer, UdpTypeOK, InHand, AtAddress, EntryAddressed,
      Points, Hellos, LetIn
<1>17. ASSUME NEW a \in Callers, NEW d \in Devices, KickWrite(a, d) PROVE
      EntryAddressed'
  BY <1>17 DEF KickWrite, Begin, Revoke, UdpTypeOK, InHand, AtAddress,
      EntryAddressed, Points, Hellos, LetIn
<1>18. ASSUME NEW a \in Callers, NEW d \in Devices, DeleteWrite(a, d) PROVE
      EntryAddressed'
  BY <1>18 DEF DeleteWrite, Begin, Revoke, UdpTypeOK, InHand, AtAddress,
      EntryAddressed, Points, Hellos, LetIn
<1>19. ASSUME NEW a \in Callers, NEW d \in Devices, RegenWrite(a, d) PROVE
      EntryAddressed'
  BY <1>19 DEF RegenWrite, Begin, Revoke, UdpTypeOK, InHand, AtAddress,
      EntryAddressed, Points, Hellos, LetIn
<1>20. ASSUME NEW a \in Callers, NEW d \in Devices, RegenMissing(a, d) PROVE
      EntryAddressed'
  BY <1>20 DEF RegenMissing, Begin, UdpTypeOK, InHand, AtAddress,
      EntryAddressed, Points, Hellos, LetIn
<1>21. ASSUME NEW a \in Callers, DropClient(a) PROVE EntryAddressed'
  BY <1>21 DEF DropClient, RemoveClient, Answer, UdpTypeOK, InHand, AtAddress,
      EntryAddressed, Points, Hellos, LetIn
<1>22. ASSUME NEW a \in Callers, RequestFails(a) PROVE EntryAddressed'
  BY <1>22 DEF RequestFails, Answer, UdpTypeOK, InHand, AtAddress,
      EntryAddressed, Points, Hellos, LetIn
<1>23. CASE DeleteRoom
  BY <1>23 DEF DeleteRoom, UdpTypeOK, InHand, AtAddress, EntryAddressed,
      Points, Hellos, LetIn
<1>24. CASE HubRestart
  BY <1>24 DEF HubRestart, UdpTypeOK, InHand, AtAddress, EntryAddressed,
      Points, Hellos, LetIn
<1>25. CASE UNCHANGED vars
  BY <1>25 DEF UdpTypeOK, InHand, AtAddress, EntryAddressed, Points, Hellos,
      LetIn
<1> QED
  BY <1>1, <1>2, <1>3, <1>4, <1>5, <1>6, <1>7, <1>8, <1>9, <1>10, <1>11,
     <1>12, <1>13, <1>14, <1>15, <1>16, <1>17, <1>18, <1>19, <1>20, <1>21,
     <1>22, <1>23, <1>24, <1>25
  DEF Next, LoopStep

(* Only a request that is still being served leaves a revoked entry.        *)
LEMMA RevokedStep ==
    ASSUME UdpTypeOK, InHand, CheckStands, RevokedSilent, [Next]_vars PROVE RevokedSilent'
<1>1. ASSUME NEW p \in Peers, HelloNew(p) PROVE RevokedSilent'
  BY <1>1 DEF HelloNew, Take, UdpTypeOK, InHand, CheckStands, RevokedSilent,
      Requests, Points, Hellos, LetIn
<1>2. ASSUME NEW p \in Peers, NEW d \in Devices, NEW t \in 1 .. MaxToken,
      HelloAgain(p, d, t) PROVE RevokedSilent'
  BY <1>2 DEF HelloAgain, Take, UdpTypeOK, InHand, CheckStands, RevokedSilent,
      Requests, Points, Hellos, LetIn
<1>3. ASSUME NEW p \in Peers, ReceiveConfig(p) PROVE RevokedSilent'
  BY <1>3 DEF ReceiveConfig, Receive, Take, MarkDevice, UdpTypeOK, InHand,
      CheckStands, RevokedSilent, Requests, Points, Hellos, LetIn
<1>4. ASSUME NEW p \in Peers, ReceiveDisconnect(p) PROVE RevokedSilent'
  BY <1>4 DEF ReceiveDisconnect, Receive, Take, RemoveClient, UdpTypeOK,
      InHand, CheckStands, RevokedSilent, Requests, Points, Hellos, LetIn
<1>5. CASE RoomExists
  BY <1>5 DEF RoomExists, UdpTypeOK, InHand, CheckStands, RevokedSilent,
      Requests, Points, Hellos, LetIn
<1>6. ASSUME NEW d \in Devices, InsertDevice(d) PROVE RevokedSilent'
  BY <1>6 DEF InsertDevice, UdpTypeOK, InHand, CheckStands, RevokedSilent,
      Requests, Points, Hellos, LetIn
<1>7. CASE SelectDevice
  BY <1>7 DEF SelectDevice, Authentic, UdpTypeOK, InHand, CheckStands,
      RevokedSilent, Requests, Points, Hellos, LetIn
<1>8. CASE UpdateDevice
  BY <1>8 DEF UpdateDevice, MarkDevice, UdpTypeOK, InHand, CheckStands,
      RevokedSilent, Requests, Points, Hellos, LetIn
<1>9. CASE HelloFails
  BY <1>9 DEF HelloFails, UdpTypeOK, InHand, CheckStands, RevokedSilent,
      Requests, Points, Hellos, LetIn
<1>10. ASSUME NEW b \in BOOLEAN, AfterAck(b) PROVE RevokedSilent'
  BY <1>10 DEF AfterAck, Answered, UdpTypeOK, InHand, CheckStands,
      RevokedSilent, Requests, Points, Hellos, LetIn
<1>11. CASE InsertPeer
  BY <1>11 DEF InsertPeer, Abandoned, UdpTypeOK, InHand, CheckStands,
      RevokedSilent, Requests, Points, Hellos, LetIn
<1>12. CASE InsertClient
  BY <1>12 DEF InsertClient, UdpTypeOK, InHand, CheckStands, RevokedSilent,
      Requests, Points, Hellos, LetIn
<1>13. CASE SyncConfig
  BY <1>13 DEF SyncConfig, UdpTypeOK, InHand, CheckStands, RevokedSilent,
      Requests, Points, Hellos, LetIn
<1>14. CASE DisconnectOffline
  BY <1>14 DEF DisconnectOffline, MarkDevice, UdpTypeOK, InHand, CheckStands,
      RevokedSilent, Requests, Points, Hellos, LetIn
<1>15. CASE OfflineFails
  BY <1>15 DEF OfflineFails, Abandoned, UdpTypeOK, InHand, CheckStands,
      RevokedSilent, Requests, Points, Hellos, LetIn
<1>16. CASE RemovePeer
  BY <1>16 DEF RemovePeer, UdpTypeOK, InHand, CheckStands, RevokedSilent,
      Requests, Points, Hellos, LetIn
<1>17. ASSUME NEW a \in Callers, NEW d \in Devices, KickWrite(a, d) PROVE
      RevokedSilent'
  BY <1>17 DEF KickWrite, Begin, Revoke, UdpTypeOK, InHand, CheckStands,
      RevokedSilent, Requests, Points, Hellos, LetIn
<1>18. ASSUME NEW a \in Callers, NEW d \in Devices, DeleteWrite(a, d) PROVE
      RevokedSilent'
  BY <1>18 DEF DeleteWrite, Begin, Revoke, UdpTypeOK, InHand, CheckStands,
      RevokedSilent, Requests, Points, Hellos, LetIn
<1>19. ASSUME NEW a \in Callers, NEW d \in Devices, RegenWrite(a, d) PROVE
      RevokedSilent'
  BY <1>19 DEF RegenWrite, Begin, Revoke, UdpTypeOK, InHand, CheckStands,
      RevokedSilent, Requests, Points, Hellos, LetIn
<1>20. ASSUME NEW a \in Callers, NEW d \in Devices, RegenMissing(a, d) PROVE
      RevokedSilent'
  BY <1>20 DEF RegenMissing, Begin, UdpTypeOK, InHand, CheckStands,
      RevokedSilent, Requests, Points, Hellos, LetIn
<1>21. ASSUME NEW a \in Callers, DropClient(a) PROVE RevokedSilent'
  BY <1>21 DEF DropClient, RemoveClient, Answer, UdpTypeOK, InHand,
      CheckStands, RevokedSilent, Requests, Points, Hellos, LetIn
<1>22. ASSUME NEW a \in Callers, RequestFails(a) PROVE RevokedSilent'
  BY <1>22 DEF RequestFails, Answer, UdpTypeOK, InHand, CheckStands,
      RevokedSilent, Requests, Points, Hellos, LetIn
<1>23. CASE DeleteRoom
  BY <1>23 DEF DeleteRoom, UdpTypeOK, InHand, CheckStands, RevokedSilent,
      Requests, Points, Hellos, LetIn
<1>24. CASE HubRestart
  BY <1>24 DEF HubRestart, UdpTypeOK, InHand, CheckStands, RevokedSilent,
      Requests, Points, Hellos, LetIn
<1>25. CASE UNCHANGED vars
  BY <1>25 DEF UdpTypeOK, InHand, CheckStands, RevokedSilent, Requests,
      Points, Hellos, LetIn
<1> QED
  BY <1>1, <1>2, <1>3, <1>4, <1>5, <1>6, <1>7, <1>8, <1>9, <1>10, <1>11,
     <1>12, <1>13, <1>14, <1>15, <1>16, <1>17, <1>18, <1>19, <1>20, <1>21,
     <1>22, <1>23, <1>24, <1>25
  DEF Next, LoopStep

-----------------------------------------------------------------------------
(* The initial states satisfy the inductive invariant ...                   *)
LEMMA UdpInvInit == Init => UdpInv
<1> SUFFICES ASSUME Init PROVE UdpInv
  OBVIOUS
<1>1. 0 \in 0 .. MaxToken
  BY TokenAssumption
<1>2. UdpTypeOK
  BY <1>1 DEF Init, UdpTypeOK, Points, Requests
<1>3. InHand /\ CheckStands /\ AtAddress
  BY DEF Init, InHand, CheckStands, AtAddress, LetIn
<1>4. UdpOnlineBacked /\ EntryAddressed /\ RevokedSilent
  BY DEF Init, UdpOnlineBacked, EntryAddressed, RevokedSilent
<1> QED BY <1>2, <1>3, <1>4 DEF UdpInv

(* ... and every step keeps it.                                             *)
LEMMA UdpInvStep == UdpInv /\ [Next]_vars => UdpInv'
  BY UdpTypeStep, InHandStep, CheckStep, AddressStep, OnlineStep, EntryStep,
     RevokedStep DEF UdpInv

(* The inductive invariant of serve_udp and of the requests in between.     *)
THEOREM UdpInvariance == Spec => []UdpInv
  BY UdpInvInit, UdpInvStep, PTL DEF Spec

(* Every variable keeps its type.                                           *)
THEOREM UdpTypes == Spec => []UdpTypeOK
<1>1. UdpInv => UdpTypeOK
  BY DEF UdpInv
<1> QED BY <1>1, UdpInvariance, PTL

(* However datagrams are lost, repeated and delayed, a device shown         *)
(* 'online' has an address in `peers`, or is named in `carried`.            *)
THEOREM UdpOnlineIsBacked == Spec => []UdpOnlineBacked
<1>1. UdpInv => UdpOnlineBacked
  BY DEF UdpInv
<1> QED BY <1>1, UdpInvariance, PTL

(* What is sent to a device goes to an address that stands for it.          *)
THEOREM EntriesAreAddressed == Spec => []EntryAddressed
<1>1. UdpInv => EntryAddressed
  BY DEF UdpInv
<1> QED BY <1>1, UdpInvariance, PTL

(* An answered kick, deletion or new token has silenced the device, and no  *)
(* old Hello brings it back.                                                *)
THEOREM RevokedAreSilent == Spec => []RevokedSilent
<1>1. UdpInv => RevokedSilent
  BY DEF UdpInv
<1> QED BY <1>1, UdpInvariance, PTL

-----------------------------------------------------------------------------
(* The UPDATE of devices.status that the handlers share is a Connect, a     *)
(* Disconnect or no change at all.                                          *)
LEMMA MarkIsLifecycle ==
    ASSUME UdpTypeOK, NEW d \in Devices, NEW s \in {"online", "offline"},
           MarkDevice(d, s)
    PROVE  [Lifecycle!Next]_status
<1>1. CASE status[d] \in {"pending", "offline"} /\ s = "online"
  BY <1>1 DEF MarkDevice, Present, Lifecycle!Next, Lifecycle!Connect
<1>2. CASE status[d] \in {"pending", "online"} /\ s = "offline"
  BY <1>2 DEF MarkDevice, Present, Lifecycle!Next, Lifecycle!Disconnect
<1>3. CASE status[d] = s \/ status[d] \notin Present \ {"kicked"}
  BY <1>3 DEF MarkDevice, UdpTypeOK
<1> QED BY <1>1, <1>2, <1>3 DEF Present

(* Every step is a step of the abstract device lifecycle, or none.          *)
LEMMA UdpLifecycleStep ==
    ASSUME UdpInv, [Next]_vars PROVE [Lifecycle!Next]_status
<1> USE DEF UdpInv
<1>1. ASSUME NEW d \in Devices, InsertDevice(d) PROVE Lifecycle!Enrol(d)
  BY <1>1 DEF InsertDevice, Lifecycle!Enrol
<1>2. ASSUME NEW p \in Peers, ReceiveConfig(p) PROVE [Lifecycle!Next]_status
  <2>1. peers[p] \in Devices /\ MarkDevice(peers[p], "online")
    BY <1>2 DEF ReceiveConfig, Receive, UdpTypeOK
  <2> QED BY <2>1, MarkIsLifecycle
<1>3. CASE UpdateDevice \/ DisconnectOffline
  <2>1. dev \in Devices
    BY <1>3 DEF UpdateDevice, DisconnectOffline, InHand, Points, Hellos
  <2>2. MarkDevice(dev, "online") \/ MarkDevice(dev, "offline")
    BY <1>3 DEF UpdateDevice, DisconnectOffline
  <2> QED BY <2>1, <2>2, MarkIsLifecycle
<1>4. ASSUME NEW a \in Callers, NEW d \in Devices, KickWrite(a, d)
      PROVE  Lifecycle!Next
  BY <1>4 DEF KickWrite, Present, Lifecycle!Next, Lifecycle!Kick, Lifecycle!Present
<1>5. ASSUME NEW a \in Callers, NEW d \in Devices, DeleteWrite(a, d)
      PROVE  [Lifecycle!Next]_status
  <2>1. status' = [e \in Devices |-> IF e \in {d} THEN "gone" ELSE status[e]]
    BY <1>5 DEF DeleteWrite, UdpTypeOK
  <2>2. CASE status[d] \in Present
    <3>1. Lifecycle!Remove({d})
      BY <2>1, <2>2 DEF Lifecycle!Remove, Lifecycle!Present, Present
    <3> QED BY <3>1 DEF Lifecycle!Next
  <2>3. CASE status[d] = "gone"
    BY <1>5, <2>3 DEF DeleteWrite, UdpTypeOK
  <2> QED BY <1>5, <2>2, <2>3 DEF DeleteWrite, UdpTypeOK
<1>6. CASE DeleteRoom
  <2> DEFINE D == {d \in Devices : status[d] \in Present}
  <2>1. Lifecycle!Remove(D)
    BY <1>6 DEF DeleteRoom, Lifecycle!Remove, Lifecycle!Present, Present
  <2> QED BY <2>1 DEF Lifecycle!Next
<1>7. CASE UNCHANGED status
  BY <1>7
<1> QED
  BY <1>1, <1>2, <1>3, <1>4, <1>5, <1>6, <1>7
  DEF Next, LoopStep, Lifecycle!Next, HelloNew, HelloAgain, ReceiveDisconnect,
      RoomExists, SelectDevice, HelloFails, AfterAck, InsertPeer, InsertClient,
      SyncConfig, OfflineFails, RemovePeer, RegenWrite, RegenMissing,
      DropClient, RequestFails, HubRestart

(* The UDP loop implements the abstract life of a row of `devices`, too.    *)
THEOREM UdpRefinement == Spec => LifecycleSpec
<1>1. Init => Lifecycle!Init
  BY DEF Init, Lifecycle!Init
<1>2. UdpInv /\ [Next]_vars => [Lifecycle!Next]_status
  BY UdpLifecycleStep
<1> QED BY <1>1, <1>2, UdpInvariance, PTL DEF Spec, LifecycleSpec, Lifecycle!Spec
=============================================================================
