--------------------------- MODULE ConfigSyncProofs ---------------------------
(***************************************************************************)
(* Proofs about ConfigSync, for any groups, administrators and bounds:     *)
(* every variable keeps its type, and a version names one content of its   *)
(* group, unless edits of the group overlapped.                            *)
(***************************************************************************)
EXTENDS ConfigSync, FiniteSetTheorems, TLAPS

USE DEF device, session, wire, request, history, bounds, Goto, Done, Begin, Answer, Change

(* A configuration read from the rows has the type of one, and so has what  *)
(* a push makes of it.                                                      *)
LEMMA ConfigTypes ==
    ASSUME TypeOK
    PROVE  /\ Nothing \in Config
           /\ \A g : DeviceConfig(g) \in Config
           /\ \A c \in Config : [c EXCEPT !.ver = AsU32(@)] \in Config
<1>1. \A g : Exists(g) => grp[g] \in [live : BOOLEAN, ver : Nat, cfg : Nat] /\ g \in Groups
  BY DEF TypeOK, Exists
<1>2. dver \in Nat /\ U32 \in Nat \ {0}
  BY BoundsAssumption DEF TypeOK
<1>3. \A v \in Nat : AsU32(v) \in Nat
  BY <1>2 DEF AsU32
<1> QED BY <1>1, <1>2, <1>3 DEF Nothing, Config, DeviceConfig

(* A send adds a configuration to those under way, or loses it.             *)
LEMMA SendTypes ==
    ASSUME TypeOK, NEW c \in Config, Send(c) PROVE down' \in Seq(Config)
BY ConfigTypes DEF Send, TypeOK

(* The row an edit writes has the type of one.                              *)
LEMMA EditTypes ==
    ASSUME TypeOK, NEW a \in Admins, Exists(aloc[a].grp)
    PROVE  /\ aloc[a].grp \in Groups
           /\ EditedRow(aloc[a]) \in [live : BOOLEAN, ver : Nat, cfg : Nat]
<1>1. aloc[a] \in Config /\ aloc[a].grp \in Groups
  BY DEF TypeOK, Exists
<1>2. aloc[a].ver \in Nat /\ aloc[a].cfg \in Nat
  BY <1>1 DEF Config
<1>3. grp[aloc[a].grp].cfg \in Nat
  BY <1>1 DEF TypeOK
<1> QED BY <1>1, <1>2, <1>3 DEF EditedRow

(* The initial states have the types.                                       *)
LEMMA TypeInit == Init => TypeOK
<1> SUFFICES ASSUME Init PROVE TypeOK
  OBVIOUS
<1>1. Cardinality(AdminGroups) \in Nat
  BY GroupsAssumption, FS_CardinalityType
<1>2. grp \in [Groups -> [live : BOOLEAN, ver : Nat, cfg : Nat]]
  <2>1. PICK c \in Injection(AdminGroups, 1 .. Cardinality(AdminGroups)) :
          grp = [g \in Groups |->
                  IF g \in AdminGroups THEN [live |-> TRUE, ver |-> 1, cfg |-> c[g]]
                  ELSE [live |-> FALSE, ver |-> 0, cfg |-> 0]]
    BY DEF Init
  <2>2. \A g \in AdminGroups : c[g] \in Nat
    BY <1>1, <2>1 DEF Injection
  <2> QED BY <2>1, <2>2
<1>3. Nothing \in Config
  BY DEF Nothing, Config
<1>4. /\ dgroup \in Groups \cup {NoGroup} /\ dver \in Nat /\ pc = "off"
      /\ loc = Nothing /\ has = Nothing /\ link = FALSE /\ down = << >> /\ up = << >>
      /\ apc = [a \in Admins |-> "idle"] /\ aloc = [a \in Admins |-> Nothing]
      /\ asked = FALSE /\ raced = {} /\ changes = 0 /\ breaks = 0
  BY DEF Init, Groups
<1>5. link \in BOOLEAN /\ asked \in BOOLEAN
  BY <1>4, Zenon
<1>6. /\ down \in Seq(Config) /\ up \in Seq(Report) /\ Len(up) <= MaxWire
      /\ changes \in 0 .. MaxChanges /\ breaks \in 0 .. MaxBreaks
  BY <1>4, BoundsAssumption
<1> QED BY <1>2, <1>3, <1>4, <1>5, <1>6 DEF TypeOK

(* Every step keeps the types.                                              *)
LEMMA TypeStep ==
    ASSUME TypeOK, [Next]_vars PROVE TypeOK'
<1> USE BoundsAssumption
<1>0. /\ Nothing \in Config
      /\ \A g : DeviceConfig(g) \in Config
      /\ Editors \subseteq Admins /\ Pushers \subseteq Admins
      /\ Cardinality(AdminGroups) \in Nat
      /\ \A c \in Config : c.grp \in Groups \cup {NoGroup} /\ c.ver \in Nat /\ c.cfg \in Nat
      /\ \A r \in Report : r.conf \in Config
      /\ \A a \in Admins : aloc[a] \in Config
  BY ConfigTypes, GroupsAssumption, FS_CardinalityType DEF Admins, Config, Report, TypeOK
<1>1. CASE HelloRow
  <2>1. [Nothing EXCEPT !.ver = dver] \in Config
    BY DEF TypeOK, Nothing, Config
  <2> QED BY <1>0, <1>1, <2>1 DEF HelloRow, TypeOK
<1>2. CASE HelloSync
  BY <1>0, <1>2 DEF HelloSync, TypeOK
<1>3. CASE ReadConfig
  BY <1>0, <1>3 DEF ReadConfig, TypeOK
<1>4. CASE SendConfig
  <2>1. down' \in Seq(Config)
    BY <1>0, <1>4, SendTypes DEF SendConfig, TypeOK
  <2> QED BY <1>0, <1>4, <2>1 DEF SendConfig, TypeOK
<1>5. CASE ReceiveAck
  <2>1. Head(up) \in Report /\ Tail(up) \in Seq(Report) /\ Len(Tail(up)) <= MaxWire
    BY <1>0, <1>5 DEF ReceiveAck, TypeOK
  <2>2. Head(up).conf.ver \in Nat
    BY <1>0, <2>1
  <2> QED BY <1>5, <2>1, <2>2 DEF ReceiveAck, TypeOK
<1>6. CASE ReceiveState
  <2>1. Head(up) \in Report /\ Tail(up) \in Seq(Report) /\ Len(Tail(up)) <= MaxWire
    BY <1>0, <1>6 DEF ReceiveState, TypeOK
  <2>2. Head(up).conf \in Config /\ Head(up).conf.ver \in Nat
    BY <1>0, <2>1
  <2>3. dver' \in Nat
    BY <1>6, <2>2 DEF ReceiveState, TypeOK
  <2> QED BY <1>6, <2>1, <2>2, <2>3 DEF ReceiveState, TypeOK
<1>7. CASE StateRow
  BY <1>0, <1>7 DEF StateRow, TypeOK
<1>8. CASE NamedGroup
  BY <1>0, <1>8 DEF NamedGroup, TypeOK
<1>9. CASE Compare
  BY <1>0, <1>9 DEF Compare, TypeOK
<1>10. CASE Attach
  BY <1>0, <1>10 DEF Attach, TypeOK
<1>11. CASE CreateFails
  BY <1>0, <1>11 DEF CreateFails, TypeOK
<1>12. CASE CreateVersion
  <2>1. grp' \in [Groups -> [live : BOOLEAN, ver : Nat, cfg : Nat]]
    <3>1. loc.ver \in Nat
      BY <1>0 DEF TypeOK
    <3>2. CASE grp' = grp
      BY <3>2 DEF TypeOK
    <3>3. CASE grp' = [grp EXCEPT ![loc.grp].ver = loc.ver]
      BY <3>1, <3>3 DEF TypeOK
    <3> QED BY <1>12, <3>2, <3>3 DEF CreateVersion
  <2> QED BY <1>12, <2>1 DEF CreateVersion, TypeOK
<1>13. CASE CreateAttach
  BY <1>0, <1>13 DEF CreateAttach, TypeOK
<1>14. CASE CreateDver
  <2>1. loc.ver \in Nat
    BY <1>0 DEF TypeOK
  <2> QED BY <1>0, <1>14, <2>1 DEF CreateDver, TypeOK
<1>15. CASE SessionEnds
  BY <1>0, <1>15 DEF SessionEnds, TypeOK
<1>16. ASSUME NEW g \in ClientGroups,
             CreateGroup(g)
      PROVE  TypeOK'
  <2>1. loc.cfg \in Nat /\ [loc EXCEPT !.grp = g] \in Config /\ g \in Groups
    BY <1>0, <1>16 DEF TypeOK, Groups, Config
  <2> QED BY <1>16, <2>1 DEF CreateGroup, TypeOK
<1>17. ASSUME NEW a \in Editors, NEW g \in Groups, NEW cfg \in {0, NewConfig},
             EditSelect(a, g, cfg)
      PROVE  TypeOK'
  <2>1. [grp |-> g, ver |-> grp[g].ver + 1, cfg |-> cfg] \in Config
    <3>1. NewConfig \in Nat
      BY <1>0 DEF TypeOK, NewConfig
    <3>2. cfg \in Nat /\ grp[g].ver + 1 \in Nat
      BY <3>1 DEF TypeOK
    <3> QED BY <3>2 DEF Config
  <2> QED BY <1>0, <1>17, <2>1 DEF EditSelect, BeginEdit, TypeOK
<1>18. ASSUME NEW a \in Editors, NEW g \in Groups \cup {NoGroup},
             MoveCheck(a, g)
      PROVE  TypeOK'
  <2>1. [Nothing EXCEPT !.grp = g] \in Config
    BY DEF Nothing, Config
  <2>2. changes' \in 0 .. MaxChanges
    BY <1>18 DEF MoveCheck, TypeOK
  <2> QED BY <1>0, <1>18, <2>1, <2>2 DEF MoveCheck, TypeOK
<1>19. ASSUME NEW a \in Editors, NEW g \in Groups,
             DeleteGroup(a, g)
      PROVE  TypeOK'
  <2>1. grp' \in [Groups -> [live : BOOLEAN, ver : Nat, cfg : Nat]]
    BY <1>19 DEF DeleteGroup, TypeOK
  <2>2. changes' \in 0 .. MaxChanges
    BY <1>19 DEF DeleteGroup, TypeOK
  <2>3. asked' \in BOOLEAN /\ dgroup' \in Groups \cup {NoGroup}
    BY <1>19 DEF DeleteGroup, TypeOK
  <2> QED BY <1>19, <2>1, <2>2, <2>3 DEF DeleteGroup, TypeOK
<1>20. ASSUME NEW a \in Editors,
             RemoveFromGroup(a)
      PROVE  TypeOK'
  <2>1. changes' \in 0 .. MaxChanges
    BY <1>20 DEF RemoveFromGroup, TypeOK
  <2>2. asked' \in BOOLEAN
    BY <1>20, Zenon DEF RemoveFromGroup
  <2> QED BY <1>20, <2>1, <2>2 DEF RemoveFromGroup, TypeOK
<1>21. ASSUME NEW a \in Pushers, NEW g \in Groups \cup {NoGroup},
             StartPush(a, g)
      PROVE  TypeOK'
  <2>1. [Nothing EXCEPT !.grp = g] \in Config
    BY DEF Nothing, Config
  <2> QED BY <1>0, <1>21, <2>1 DEF StartPush, TypeOK
<1>22. ASSUME NEW a \in Admins,
             EditWrite(a)
      PROVE  TypeOK'
  <2>1. CASE Exists(aloc[a].grp)
    <3>1. grp' = [grp EXCEPT ![aloc[a].grp] = EditedRow(aloc[a])]
      BY <1>22, <2>1 DEF EditWrite
    <3>2. grp' \in [Groups -> [live : BOOLEAN, ver : Nat, cfg : Nat]]
      BY <2>1, <3>1, EditTypes DEF TypeOK
    <3> QED BY <1>0, <1>22, <3>2 DEF EditWrite, TypeOK
  <2>2. CASE ~Exists(aloc[a].grp)
    BY <1>0, <1>22, <2>2 DEF EditWrite, TypeOK
  <2> QED BY <2>1, <2>2
<1>23. ASSUME NEW a \in Admins,
             MoveWrite(a)
      PROVE  TypeOK'
  <2>1. dgroup' \in Groups \cup {NoGroup}
    BY <1>0, <1>23 DEF MoveWrite, TypeOK
  <2> QED BY <1>0, <1>23, <2>1 DEF MoveWrite, TypeOK
<1>24. ASSUME NEW a \in Admins,
             PushRead(a)
      PROVE  TypeOK'
  <2>1. apc' \in [Admins -> {"idle", "write", "move", "read", "send"}]
    BY <1>24 DEF PushRead, TypeOK
  <2>2. aloc' \in [Admins -> Config]
    <3>1. aloc' = aloc \/ \E c \in Config : aloc' = [aloc EXCEPT ![a] = c]
      BY <1>0, <1>24 DEF PushRead
    <3> QED BY <3>1 DEF TypeOK
  <2> QED BY <1>24, <2>1, <2>2 DEF PushRead, TypeOK
<1>25. ASSUME NEW a \in Admins,
             PushSend(a)
      PROVE  TypeOK'
  <2>1. down' \in Seq(Config)
    BY <1>25, SendTypes DEF PushSend, TypeOK
  <2>2. asked' \in BOOLEAN
    BY <1>25, Zenon DEF PushSend, TypeOK
  <2> QED BY <1>0, <1>25, <2>1, <2>2 DEF PushSend, TypeOK
<1>26. CASE Hello
  BY <1>0, <1>26 DEF Hello, TypeOK
<1>27. CASE ClientApply
  <2>1. Head(down) \in Config /\ Tail(down) \in Seq(Config)
    BY <1>27 DEF ClientApply, TypeOK
  <2>2. [type |-> "ConfigAck", run |-> TRUE, conf |-> Head(down)] \in Report
    BY <2>1 DEF Report
  <2>3. up' \in Seq(Report) /\ Len(up') <= MaxWire
    BY <1>27, <2>2 DEF ClientApply, TypeOK
  <2> QED BY <1>27, <2>1, <2>3 DEF ClientApply, TypeOK
<1>28. ASSUME NEW run \in BOOLEAN,
             ClientReport(run)
      PROVE  TypeOK'
  <2>1. [type |-> "ConfigState", run |-> run, conf |-> has] \in Report
    BY DEF Report, TypeOK
  <2>2. up' \in Seq(Report) /\ Len(up') <= MaxWire
    BY <1>28, <2>1 DEF ClientReport
  <2> QED BY <1>28, <2>2 DEF ClientReport, TypeOK
<1>29. ASSUME NEW n \in 0 .. Len(up),
             Break(n)
      PROVE  TypeOK'
  <2>1. SubSeq(up, 1, n) \in Seq(Report) /\ Len(SubSeq(up, 1, n)) <= MaxWire
    BY DEF TypeOK
  <2>2. breaks' \in 0 .. MaxBreaks /\ << >> \in Seq(Config)
    BY <1>29 DEF Break, TypeOK
  <2>3. link' \in BOOLEAN
    BY <1>29, Zenon DEF Break
  <2> QED BY <1>29, <2>1, <2>2, <2>3 DEF Break, TypeOK
<1>30. CASE UNCHANGED vars
  BY <1>30 DEF TypeOK, vars, device, session, wire, request, history, bounds
<1> QED
  BY <1>1, <1>2, <1>3, <1>4, <1>5, <1>6, <1>7, <1>8, <1>9, <1>10, <1>11,
     <1>12, <1>13, <1>14, <1>15, <1>16, <1>17, <1>18, <1>19, <1>20, <1>21,
     <1>22, <1>23, <1>24, <1>25, <1>26, <1>27, <1>28, <1>29, <1>30
     DEF Next, SessionStep, AdminStep

-----------------------------------------------------------------------------
(* Versions.                                                                *)


(* A version below U32 is its own u32, and the u32 of any version is below. *)
LEMMA SentVersion ==
    \A v \in Nat : AsU32(v) \in Nat /\ AsU32(v) < U32 /\ (v < U32 => AsU32(v) = v)
<1>1. U32 \in Nat \ {0}
  BY BoundsAssumption
<1> QED BY <1>1 DEF AsU32

(* So what a send adds to the messages under way fits a u32.                *)
LEMMA SentFits ==
    ASSUME TypeOK, Fits, NEW c \in Config, Send(c)
    PROVE  \A i \in 1 .. Len(down') : down'[i].ver < U32
<1> DEFINE sent == [c EXCEPT !.ver = AsU32(@)]
<1>1. sent \in Config /\ sent.ver < U32
  BY ConfigTypes, SentVersion DEF Config
<1>2. down' = down \/ down' = Append(down, sent)
  BY DEF Send
<1> HIDE DEF sent
<1>3. down \in Seq(Config) /\ \A i \in 1 .. Len(down) : down[i].ver < U32
  BY DEF TypeOK, Fits
<1> QED BY <1>1, <1>2, <1>3

(* Every step leaves versions that fit: an edit does not start from         *)
(* MaxVersion, and what the client reports came to it in a u32.             *)
LEMMA FitsStep ==
    ASSUME VersionsFit, TypeOK, Fits, NextVersion, [Next]_vars PROVE Fits'
<1>0. /\ U32 \in Nat /\ 1 < U32 /\ MaxVersion \in Nat /\ MaxVersion < U32
      /\ \A c \in Config : c.ver \in Nat
      /\ \A r \in Report : r.conf \in Config
      /\ loc \in Config /\ has \in Config
      /\ grp \in [Groups -> [live : BOOLEAN, ver : Nat, cfg : Nat]]
      /\ ClientGroups \subseteq Groups
  BY BoundsAssumption DEF VersionsFit, TypeOK, Config, Report, Groups
<1>1. CASE HelloRow
  BY <1>0, <1>1 DEF HelloRow, Fits
<1>2. CASE HelloSync
  BY <1>0, <1>2 DEF HelloSync, Fits
<1>3. CASE ReadConfig
  BY <1>0, <1>3 DEF ReadConfig, Fits
<1>4. CASE SendConfig
  <2>1. \A i \in 1 .. Len(down') : down'[i].ver < U32
    BY <1>0, <1>4, SentFits DEF SendConfig, Fits
  <2> QED BY <1>0, <1>4, <2>1 DEF SendConfig, Fits
<1>5. CASE ReceiveAck
  BY <1>0, <1>5 DEF ReceiveAck, Fits
<1>6. CASE ReceiveState
  BY <1>0, <1>6 DEF ReceiveState, Fits
<1>7. CASE StateRow
  BY <1>0, <1>7 DEF StateRow, Fits
<1>8. CASE NamedGroup
  BY <1>0, <1>8 DEF NamedGroup, Fits
<1>9. CASE Compare
  BY <1>0, <1>9 DEF Compare, Fits
<1>10. CASE Attach
  BY <1>0, <1>10 DEF Attach, Fits
<1>11. CASE CreateFails
  BY <1>0, <1>11 DEF CreateFails, Fits
<1>12. CASE CreateVersion
  BY <1>0, <1>12 DEF CreateVersion, Fits
<1>13. CASE CreateAttach
  BY <1>0, <1>13 DEF CreateAttach, Fits
<1>14. CASE CreateDver
  BY <1>0, <1>14 DEF CreateDver, Fits
<1>15. CASE SessionEnds
  BY <1>0, <1>15 DEF SessionEnds, Fits
<1>16. ASSUME NEW g \in ClientGroups,
             CreateGroup(g)
      PROVE  Fits'
  BY <1>0, <1>16 DEF CreateGroup, Fits
<1>17. ASSUME NEW a \in Editors, NEW g \in Groups, NEW cfg \in {0, NewConfig},
             EditSelect(a, g, cfg)
      PROVE  Fits'
  BY <1>0, <1>17 DEF EditSelect, BeginEdit, Fits
<1>18. ASSUME NEW a \in Editors, NEW g \in Groups \cup {NoGroup},
             MoveCheck(a, g)
      PROVE  Fits'
  BY <1>0, <1>18 DEF MoveCheck, Fits
<1>19. ASSUME NEW a \in Editors, NEW g \in Groups,
             DeleteGroup(a, g)
      PROVE  Fits'
  BY <1>0, <1>19 DEF DeleteGroup, Fits
<1>20. ASSUME NEW a \in Editors,
             RemoveFromGroup(a)
      PROVE  Fits'
  BY <1>0, <1>20 DEF RemoveFromGroup, Fits
<1>21. ASSUME NEW a \in Pushers, NEW g \in Groups \cup {NoGroup},
             StartPush(a, g)
      PROVE  Fits'
  BY <1>0, <1>21 DEF StartPush, Fits
<1>22. ASSUME NEW a \in Admins,
             EditWrite(a)
      PROVE  Fits'
  <2>1. \A g \in Groups : grp'[g].ver < U32 /\ (grp'[g].live => grp'[g].ver > 0)
    <3>1. CASE grp' = grp
      BY <3>1 DEF Fits
    <3>2. CASE Exists(aloc[a].grp) /\ grp' = [grp EXCEPT ![aloc[a].grp] = EditedRow(aloc[a])]
      <4>1. aloc[a].ver \in Nat /\ grp[aloc[a].grp].ver \in Nat
        BY <1>0, <3>2 DEF TypeOK, Exists
      <4>2. aloc[a].ver < U32 /\ aloc[a].ver > 0
        BY <1>0, <1>22, <4>1 DEF EditWrite, NextVersion
      <4> QED BY <1>0, <3>2, <4>2 DEF EditedRow, Fits
    <3> QED BY <1>22, <3>1, <3>2 DEF EditWrite
  <2> QED BY <1>22, <2>1 DEF EditWrite, Fits
<1>23. ASSUME NEW a \in Admins,
             MoveWrite(a)
      PROVE  Fits'
  BY <1>0, <1>23 DEF MoveWrite, Fits
<1>24. ASSUME NEW a \in Admins,
             PushRead(a)
      PROVE  Fits'
  BY <1>0, <1>24 DEF PushRead, Fits
<1>25. ASSUME NEW a \in Admins,
             PushSend(a)
      PROVE  Fits'
  <2>1. \A i \in 1 .. Len(down') : down'[i].ver < U32
    BY <1>0, <1>25, SentFits DEF PushSend, Fits, TypeOK
  <2> QED BY <1>0, <1>25, <2>1 DEF PushSend, Fits
<1>26. CASE Hello
  BY <1>0, <1>26 DEF Hello, Fits
<1>27. CASE ClientApply
  BY <1>0, <1>27 DEF ClientApply, Fits
<1>28. ASSUME NEW run \in BOOLEAN,
             ClientReport(run)
      PROVE  Fits'
  BY <1>0, <1>28 DEF ClientReport, Fits
<1>29. ASSUME NEW n \in 0 .. Len(up),
             Break(n)
      PROVE  Fits'
  BY <1>0, <1>29 DEF Break, Fits
<1>30. CASE UNCHANGED vars
  BY <1>30 DEF vars, Fits
<1> QED
  BY <1>1, <1>2, <1>3, <1>4, <1>5, <1>6, <1>7, <1>8, <1>9, <1>10, <1>11,
     <1>12, <1>13, <1>14, <1>15, <1>16, <1>17, <1>18, <1>19, <1>20, <1>21,
     <1>22, <1>23, <1>24, <1>25, <1>26, <1>27, <1>28, <1>29, <1>30
     DEF Next, SessionStep, AdminStep

(* Unless the group is raced, its row does not change between the read and  *)
(* the write of an edit, nor while the hub is making it.                    *)
LEMMA NextStep ==
    ASSUME TypeOK, Fits, NextVersion, [Next]_vars PROVE NextVersion'
<1>0. /\ MaxVersion \in Nat
      /\ \A c \in Config : c.ver \in Nat
      /\ \A a \in Admins : aloc[a] \in Config
      /\ grp \in [Groups -> [live : BOOLEAN, ver : Nat, cfg : Nat]]
      /\ ClientGroups \subseteq Groups
      /\ apc \in [Admins -> {"idle", "write", "move", "read", "send"}]
      /\ aloc \in [Admins -> Config] /\ Editors \subseteq Admins /\ Pushers \subseteq Admins
      /\ loc \in Config
  BY BoundsAssumption DEF TypeOK, Config, Groups, Admins
<1>1. CASE HelloRow
  BY <1>0, <1>1 DEF HelloRow, NextVersion, BeingCreated
<1>2. CASE HelloSync
  BY <1>0, <1>2 DEF HelloSync, NextVersion, BeingCreated
<1>3. CASE ReadConfig
  BY <1>0, <1>3 DEF ReadConfig, NextVersion, BeingCreated
<1>4. CASE SendConfig
  BY <1>0, <1>4 DEF SendConfig, NextVersion, BeingCreated
<1>5. CASE ReceiveAck
  BY <1>0, <1>5 DEF ReceiveAck, NextVersion, BeingCreated
<1>6. CASE ReceiveState
  BY <1>0, <1>6 DEF ReceiveState, NextVersion, BeingCreated
<1>7. CASE StateRow
  BY <1>0, <1>7 DEF StateRow, NextVersion, BeingCreated
<1>8. CASE NamedGroup
  BY <1>0, <1>8 DEF NamedGroup, NextVersion, BeingCreated
<1>9. CASE Compare
  BY <1>0, <1>9 DEF Compare, NextVersion, BeingCreated
<1>10. CASE Attach
  BY <1>0, <1>10 DEF Attach, NextVersion, BeingCreated
<1>11. CASE CreateFails
  BY <1>0, <1>11 DEF CreateFails, NextVersion, BeingCreated
<1>12. CASE CreateVersion
  BY <1>0, <1>12 DEF CreateVersion, NextVersion, BeingCreated
<1>13. CASE CreateAttach
  BY <1>0, <1>13 DEF CreateAttach, NextVersion, BeingCreated
<1>14. CASE CreateDver
  BY <1>0, <1>14 DEF CreateDver, NextVersion, BeingCreated
<1>15. CASE SessionEnds
  BY <1>0, <1>15 DEF SessionEnds, NextVersion, BeingCreated
<1>16. ASSUME NEW g \in ClientGroups,
             CreateGroup(g)
      PROVE  NextVersion'
  BY <1>0, <1>16 DEF CreateGroup, NextVersion, BeingCreated
<1>17. ASSUME NEW a \in Editors, NEW g \in Groups, NEW cfg \in {0, NewConfig},
             EditSelect(a, g, cfg)
      PROVE  NextVersion'
  <2>1. /\ aloc'[a] = [grp |-> g, ver |-> grp[g].ver + 1, cfg |-> cfg]
        /\ grp[g].ver \in Nat /\ grp[g].ver < MaxVersion /\ grp[g].ver > 0
        /\ a \in Admins /\ apc[a] = "idle"
        /\ \A b \in Admins \ {a} : apc'[b] = apc[b] /\ aloc'[b] = aloc[b]
        /\ grp' = grp /\ pc' = pc /\ loc' = loc /\ raced \subseteq raced'
    BY <1>0, <1>17 DEF EditSelect, BeginEdit, Exists, Fits
  <2>2. g \notin raced' => /\ ~BeingCreated(g)
                          /\ \A b \in Admins : apc[b] = "write" => aloc[b].grp # g
    BY <1>17 DEF EditSelect, BeginEdit
  <2>3. ASSUME NEW b \in Admins, apc'[b] = "write"
        PROVE  /\ aloc'[b].grp \in Groups /\ grp'[aloc'[b].grp].ver > 0
               /\ aloc'[b].ver \in 1 .. MaxVersion
               /\ aloc'[b].grp \notin raced' =>
                    /\ ~(pc' = "version" /\ loc'.grp = aloc'[b].grp)
                    /\ aloc'[b].ver = grp'[aloc'[b].grp].ver + 1
                    /\ \A k \in Admins :
                         apc'[k] = "write" /\ aloc'[k].grp = aloc'[b].grp => k = b
    <3>1. CASE b = a
      <4>1. aloc'[a].grp = g /\ aloc'[a].ver = grp[g].ver + 1
        BY <2>1
      <4>2. grp[g].ver + 1 \in 1 .. MaxVersion
        BY <1>0, <2>1
      <4>3. g \notin raced' =>
              \A k \in Admins : apc'[k] = "write" /\ aloc'[k].grp = g => k = a
        BY <2>1, <2>2
      <4> QED BY <2>1, <2>2, <3>1, <4>1, <4>2, <4>3 DEF BeingCreated
    <3>2. CASE b # a
      <4>1. apc[b] = "write" /\ aloc'[b] = aloc[b]
        BY <2>1, <2>3, <3>2
      <4>2. /\ aloc[b].grp \in Groups /\ grp[aloc[b].grp].ver > 0
            /\ aloc[b].ver \in 1 .. MaxVersion
            /\ aloc[b].grp \notin raced =>
                 /\ ~BeingCreated(aloc[b].grp)
                 /\ aloc[b].ver = grp[aloc[b].grp].ver + 1
                 /\ \A k \in Admins :
                      apc[k] = "write" /\ aloc[k].grp = aloc[b].grp => k = b
        BY <4>1 DEF NextVersion
      <4>3. aloc[b].grp \notin raced' => aloc[b].grp # g
        BY <2>2, <4>1
      <4>4. aloc[b].grp \notin raced' =>
              \A k \in Admins : apc'[k] = "write" /\ aloc'[k].grp = aloc[b].grp => k = b
        BY <2>1, <4>2, <4>3
      <4> QED BY <2>1, <4>1, <4>2, <4>4 DEF BeingCreated
    <3> QED BY <3>1, <3>2
  <2>4. pc' = "version" =>
          /\ loc'.grp \in Groups /\ grp'[loc'.grp].ver > 0
          /\ loc'.grp \notin raced' => grp'[loc'.grp].ver = 1
    BY <2>1 DEF NextVersion
  <2> QED BY <2>3, <2>4 DEF NextVersion, BeingCreated
<1>18. ASSUME NEW a \in Editors, NEW g \in Groups \cup {NoGroup},
             MoveCheck(a, g)
      PROVE  NextVersion'
  BY <1>0, <1>18 DEF MoveCheck, NextVersion, BeingCreated
<1>19. ASSUME NEW a \in Editors, NEW g \in Groups,
             DeleteGroup(a, g)
      PROVE  NextVersion'
  BY <1>0, <1>19 DEF DeleteGroup, NextVersion, BeingCreated
<1>20. ASSUME NEW a \in Editors,
             RemoveFromGroup(a)
      PROVE  NextVersion'
  BY <1>0, <1>20 DEF RemoveFromGroup, NextVersion, BeingCreated
<1>21. ASSUME NEW a \in Pushers, NEW g \in Groups \cup {NoGroup},
             StartPush(a, g)
      PROVE  NextVersion'
  BY <1>0, <1>21 DEF StartPush, NextVersion, BeingCreated
<1>22. ASSUME NEW a \in Admins,
             EditWrite(a)
      PROVE  NextVersion'
  <2>1. /\ apc[a] = "write" /\ apc' = [apc EXCEPT ![a] = "idle"] /\ raced' = raced
        /\ aloc' = [aloc EXCEPT ![a] = Nothing] /\ pc' = pc /\ loc' = loc
    BY <1>22 DEF EditWrite
  <2>2. /\ aloc[a].grp \in Groups /\ aloc[a].ver > 0
        /\ \A h \in Groups : grp[h].ver > 0 => grp'[h].ver > 0
        /\ \A h \in Groups \ {aloc[a].grp} : grp'[h] = grp[h]
    BY <1>0, <1>22 DEF EditWrite, NextVersion, EditedRow
  <2>3. /\ pc = "version" /\ loc.grp \notin raced => loc.grp # aloc[a].grp
        /\ \A b \in Admins : apc'[b] = "write" =>
             /\ apc[b] = "write" /\ aloc'[b] = aloc[b]
             /\ aloc[b].grp \notin raced => aloc[b].grp # aloc[a].grp
    BY <1>0, <2>1 DEF NextVersion, BeingCreated
  <2> QED BY <1>0, <2>1, <2>2, <2>3 DEF NextVersion, BeingCreated
<1>23. ASSUME NEW a \in Admins,
             MoveWrite(a)
      PROVE  NextVersion'
  BY <1>0, <1>23 DEF MoveWrite, NextVersion, BeingCreated
<1>24. ASSUME NEW a \in Admins,
             PushRead(a)
      PROVE  NextVersion'
  <2>1. /\ \A b \in Admins : apc'[b] = "write" =>
              apc[b] = "write" /\ aloc'[b] = aloc[b]
        /\ grp' = grp /\ pc' = pc /\ loc' = loc /\ raced' = raced
    BY <1>0, <1>24 DEF PushRead
  <2> QED BY <2>1 DEF NextVersion, BeingCreated
<1>25. ASSUME NEW a \in Admins,
             PushSend(a)
      PROVE  NextVersion'
  BY <1>0, <1>25 DEF PushSend, NextVersion, BeingCreated
<1>26. CASE Hello
  BY <1>0, <1>26 DEF Hello, NextVersion, BeingCreated
<1>27. CASE ClientApply
  BY <1>0, <1>27 DEF ClientApply, NextVersion, BeingCreated
<1>28. ASSUME NEW run \in BOOLEAN,
             ClientReport(run)
      PROVE  NextVersion'
  BY <1>0, <1>28 DEF ClientReport, NextVersion, BeingCreated
<1>29. ASSUME NEW n \in 0 .. Len(up),
             Break(n)
      PROVE  NextVersion'
  BY <1>0, <1>29 DEF Break, NextVersion, BeingCreated
<1>30. CASE UNCHANGED vars
  BY <1>30 DEF vars, NextVersion, BeingCreated
<1> QED
  BY <1>1, <1>2, <1>3, <1>4, <1>5, <1>6, <1>7, <1>8, <1>9, <1>10, <1>11,
     <1>12, <1>13, <1>14, <1>15, <1>16, <1>17, <1>18, <1>19, <1>20, <1>21,
     <1>22, <1>23, <1>24, <1>25, <1>26, <1>27, <1>28, <1>29, <1>30
     DEF Next, SessionStep, AdminStep

-----------------------------------------------------------------------------
(* The copies of a configuration.                                           *)

(* Where a copy may be, before and after a step.                            *)
LEMMA CopyIs ==
    /\ \A x : x \in Copies <=>
         \/ \E g \in Groups : Exists(g) /\ x = DeviceConfig(g)
         \/ x = has
         \/ \E i \in 1 .. Len(down) : x = down[i]
         \/ pc = "send" /\ x = loc
         \/ \E a \in Admins : apc[a] = "send" /\ x = aloc[a]
    /\ \A x : x \in Copies' <=>
         \/ \E g \in Groups : Exists(g)' /\ x = DeviceConfig(g)'
         \/ x = has'
         \/ \E i \in 1 .. Len(down') : x = down'[i]
         \/ pc' = "send" /\ x = loc'
         \/ \E a \in Admins : apc'[a] = "send" /\ x = aloc'[a]
BY DEF Copies

(* Copies have the type of configurations.                                  *)
LEMMA CopyTypes == TypeOK => Copies \subseteq Config
<1> SUFFICES ASSUME TypeOK, NEW x \in Copies PROVE x \in Config
  OBVIOUS
<1>1. /\ has \in Config /\ loc \in Config
      /\ \A i \in 1 .. Len(down) : down[i] \in Config
      /\ \A a \in Admins : aloc[a] \in Config
      /\ \A g : DeviceConfig(g) \in Config
  BY ConfigTypes DEF TypeOK
<1> QED BY <1>1, CopyIs

(* A configuration that no group, or a raced one, is the source of, or a    *)
(* copy.                                                                    *)
Known(x) == x \in Copies \/ x.grp \in raced \cup {NoGroup}

(* The copies after a step are known when those of each place are.          *)
LEMMA CopiesAfter ==
    ASSUME NEW new,
           \A h \in Groups : Exists(h)' => Known(DeviceConfig(h)') \/ DeviceConfig(h)' = new,
           Known(has'),
           \A i \in 1 .. Len(down') : Known(down'[i]),
           pc' = "send" => Known(loc'),
           \A b \in Admins : apc'[b] = "send" => Known(aloc'[b])
    PROVE  \A x \in Copies' : Known(x) \/ x = new
BY CopyIs

(* What is a copy before a step, and which rows are when they do not change.*)
LEMMA CopiesBefore ==
    /\ Known(has)
    /\ \A i \in 1 .. Len(down) : Known(down[i])
    /\ pc = "send" => Known(loc)
    /\ \A b \in Admins : apc[b] = "send" => Known(aloc[b])
    /\ \A h : Known(DeviceConfig(h))
    /\ grp' = grp => \A h \in Groups : Exists(h)' => Known(DeviceConfig(h)')
<1>1. \A h : Known(DeviceConfig(h))
  BY CopyIs DEF Known, DeviceConfig, Exists, Nothing
<1>2. ASSUME grp' = grp, NEW h \in Groups, Exists(h)' PROVE DeviceConfig(h)' = DeviceConfig(h)
  BY <1>2 DEF Exists, DeviceConfig
<1> QED BY <1>1, <1>2, CopyIs DEF Known

(* A step that writes no row's version or content keeps what is said of the *)
(* copies, when each copy afterwards was one before.                        *)
LEMMA CopiesKept ==
    ASSUME TypeOK, CopiesOfRows, VersionNamesContent,
           \A g \in Groups : grp'[g].ver = grp[g].ver /\ grp'[g].cfg = grp[g].cfg,
           raced \subseteq raced',
           \A x \in Copies' : Known(x)
    PROVE  CopiesOfRows' /\ VersionNamesContent'
<1>1. \A x \in Copies : x.grp \in Groups \cup {NoGroup}
  BY CopyTypes DEF Config
<1> QED BY <1>1 DEF Known, CopiesOfRows, VersionNamesContent

(* In particular one that leaves the rows and makes no copies.              *)
LEMMA CopiesSame ==
    ASSUME TypeOK, CopiesOfRows, VersionNamesContent,
           grp' = grp, raced \subseteq raced', has' = has, down' = down,
           pc' = "send" => pc = "send" /\ loc' = loc,
           \A b \in Admins : apc'[b] = "send" => apc[b] = "send" /\ aloc'[b] = aloc[b]
    PROVE  CopiesOfRows' /\ VersionNamesContent'
<1>1. \A x \in Copies' : Known(x) \/ x = has
  BY CopiesBefore, CopiesAfter
<1> QED BY <1>1, CopiesBefore, CopiesKept

(* So does one that writes a higher version into one row, or any into that  *)
(* of a raced group.                                                        *)
LEMMA CopiesOvertaken ==
    ASSUME TypeOK, CopiesOfRows, VersionNamesContent, NEW g \in Groups,
           NEW row \in [live : BOOLEAN, ver : Nat, cfg : Nat],
           g \in raced \/ row.ver > grp[g].ver,
           grp' = [grp EXCEPT ![g] = row], raced' = raced,
           \A x \in Copies' :
               Known(x) \/ x = [grp |-> g, ver |-> row.ver, cfg |-> row.cfg]
    PROVE  CopiesOfRows' /\ VersionNamesContent'
<1>1. \A x \in Copies : x.grp \in Groups \cup {NoGroup} /\ x.ver \in Nat
  BY CopyTypes DEF Config
<1>0. \A x \in Copies' : \/ x \in Copies \/ x.grp \in raced \cup {NoGroup}
                         \/ x.grp = g /\ x.ver = row.ver /\ x.cfg = row.cfg
  BY DEF Known
<1>2. /\ grp'[g] = row /\ \A h \in Groups \ {g} : grp'[h] = grp[h]
      /\ \A h \in Groups : grp[h].ver \in Nat /\ row.ver \in Nat
  BY DEF TypeOK
<1>3. \A x \in Copies : x.grp = g /\ g \notin raced => x.ver < row.ver
  BY <1>1, <1>2, GroupsAssumption DEF CopiesOfRows
<1>4. CopiesOfRows'
  <2> SUFFICES ASSUME NEW x \in Copies', x.grp \notin raced \cup {NoGroup}
               PROVE  /\ x.ver \in 1 .. grp'[x.grp].ver
                      /\ x.ver = grp'[x.grp].ver => x.cfg = grp'[x.grp].cfg
    BY DEF CopiesOfRows
  <2>1. CASE x.grp = g /\ x.ver = row.ver /\ x.cfg = row.cfg
    BY <1>2, <2>1
  <2>2. CASE x \in Copies /\ x.grp = g
    BY <1>1, <1>2, <1>3, <2>2, GroupsAssumption DEF CopiesOfRows
  <2>3. CASE x \in Copies /\ x.grp # g
    BY <1>1, <1>2, <2>3 DEF CopiesOfRows
  <2> QED BY <1>0, <2>1, <2>2, <2>3
<1>5. VersionNamesContent'
  BY <1>0, <1>1, <1>2, <1>3 DEF VersionNamesContent
<1> QED BY <1>4, <1>5

(* The rows as copies after such a write.                                   *)
LEMMA RowCopies ==
    ASSUME TypeOK, NEW g \in Groups, NEW row, grp' = [grp EXCEPT ![g] = row]
    PROVE  \A h \in Groups : Exists(h)' =>
              IF h = g THEN DeviceConfig(h)' = [grp |-> g, ver |-> row.ver, cfg |-> row.cfg]
              ELSE Exists(h) /\ DeviceConfig(h)' = DeviceConfig(h)
BY DEF TypeOK, Exists, DeviceConfig

(* What a push sends of a copy is the same copy, unless it has no group or  *)
(* a raced one.                                                             *)
LEMMA SentCopy ==
    ASSUME TypeOK, Fits, CopiesOfRows, NEW c \in Copies, Send(c)
    PROVE  \A i \in 1 .. Len(down') : Known(down'[i])
<1> DEFINE sent == [c EXCEPT !.ver = AsU32(@)]
<1>1. c \in Config /\ c.ver \in Nat /\ c.grp \in Groups \cup {NoGroup}
  BY CopyTypes DEF Config
<1>2. sent.grp = c.grp /\ (c.ver < U32 => sent = c)
  BY <1>1, SentVersion DEF Config
<1>3. c.grp \notin raced \cup {NoGroup} => c.ver < U32
  <2> SUFFICES ASSUME c.grp \notin raced \cup {NoGroup} PROVE c.ver < U32
    OBVIOUS
  <2>1. /\ c.ver \in 1 .. grp[c.grp].ver /\ grp[c.grp].ver < U32
        /\ grp[c.grp].ver \in Nat /\ U32 \in Nat
    BY <1>1, BoundsAssumption DEF CopiesOfRows, Fits, TypeOK
  <2> QED BY <1>1, <2>1
<1>4. sent \in Copies \/ sent.grp \in raced \cup {NoGroup}
  BY <1>2, <1>3
<1>5. sent \in Config
  BY <1>1, ConfigTypes
<1>6. down' = down \/ down' = Append(down, sent)
  BY DEF Send
<1> HIDE DEF sent
<1>7. down \in Seq(Config)
  BY DEF TypeOK
<1>8. \A i \in 1 .. Len(down') : down'[i] = sent \/ (i \in 1 .. Len(down) /\ down'[i] = down[i])
  <2>1. CASE down' = down
    BY <2>1
  <2>2. CASE down' = Append(down, sent)
    <3>1. /\ Len(down) \in Nat /\ Len(down') = Len(down) + 1
          /\ \A i \in 1 .. Len(down) : down'[i] = down[i]
          /\ down'[Len(down) + 1] = sent
      BY <1>5, <1>7, <2>2
    <3>2. \A i \in 1 .. Len(down') : i \in 1 .. Len(down) \/ i = Len(down) + 1
      BY <3>1
    <3>3. ASSUME NEW i \in 1 .. Len(down')
          PROVE  down'[i] = sent \/ (i \in 1 .. Len(down) /\ down'[i] = down[i])
      <4>1. CASE i \in 1 .. Len(down)
        BY <3>1, <4>1
      <4>2. CASE i = Len(down) + 1
        BY <3>1, <4>2
      <4> QED BY <3>2, <4>1, <4>2
    <3> QED BY <3>3
  <2> QED BY <1>6, <2>1, <2>2
<1> QED BY <1>4, <1>8, CopyIs DEF Known

(* Every step keeps what is said of the copies: it moves or drops copies,   *)
(* or writes a version that overtakes all those of its group.               *)
LEMMA CopiesStep ==
    ASSUME TypeOK, Fits, NextVersion, CopiesOfRows, VersionNamesContent,
           [Next]_vars
    PROVE  CopiesOfRows' /\ VersionNamesContent'
<1>0. /\ \A g \in Groups : grp[g] \in [live : BOOLEAN, ver : Nat, cfg : Nat]
      /\ grp \in [Groups -> [live : BOOLEAN, ver : Nat, cfg : Nat]]
      /\ ClientGroups \subseteq Groups
      /\ apc \in [Admins -> {"idle", "write", "move", "read", "send"}]
      /\ aloc \in [Admins -> Config] /\ Editors \subseteq Admins /\ Pushers \subseteq Admins
      /\ loc \in Config /\ loc.ver \in Nat /\ loc.cfg \in Nat
      /\ Nothing.grp = NoGroup
  BY DEF TypeOK, Config, Groups, Admins, Nothing
<1>1. CASE HelloRow
  BY <1>0, <1>1, CopiesSame DEF HelloRow
<1>2. CASE HelloSync
  BY <1>0, <1>2, CopiesSame DEF HelloSync
<1>3. CASE ReadConfig
  <2>1. \A x \in Copies' : Known(x) \/ x = has
    BY <1>3, CopiesBefore, CopiesAfter DEF ReadConfig
  <2> QED BY <1>3, <2>1, CopiesBefore, CopiesKept DEF ReadConfig
<1>4. CASE SendConfig
  <2>1. loc \in Copies
    BY <1>4, CopyIs DEF SendConfig
  <2>2. \A i \in 1 .. Len(down') : Known(down'[i])
    BY <1>4, <2>1, SentCopy DEF SendConfig
  <2>3. \A x \in Copies' : Known(x) \/ x = has
    BY <1>4, <2>2, CopiesBefore, CopiesAfter DEF SendConfig
  <2> QED BY <1>4, <2>3, CopiesBefore, CopiesKept DEF SendConfig
<1>5. CASE ReceiveAck
  BY <1>0, <1>5, CopiesSame DEF ReceiveAck
<1>6. CASE ReceiveState
  BY <1>0, <1>6, CopiesSame DEF ReceiveState
<1>7. CASE StateRow
  BY <1>0, <1>7, CopiesSame DEF StateRow
<1>8. CASE NamedGroup
  BY <1>0, <1>8, CopiesSame DEF NamedGroup
<1>9. CASE Compare
  BY <1>0, <1>9, CopiesSame DEF Compare
<1>10. CASE Attach
  BY <1>0, <1>10, CopiesSame DEF Attach
<1>11. CASE CreateFails
  BY <1>0, <1>11, CopiesSame DEF CreateFails
<1>12. CASE CreateVersion
  <2>1. CASE grp' = grp
    BY <1>12, <2>1, CopiesSame DEF CreateVersion
  <2>2. CASE loc.ver > 1 /\ grp' = [grp EXCEPT ![loc.grp].ver = loc.ver]
    <3> DEFINE row == [grp[loc.grp] EXCEPT !.ver = loc.ver]
    <3>1. loc.grp \in Groups /\ (loc.grp \in raced \/ grp[loc.grp].ver = 1)
      BY <1>12 DEF CreateVersion, NextVersion
    <3>2. /\ row \in [live : BOOLEAN, ver : Nat, cfg : Nat]
          /\ loc.grp \in raced \/ row.ver > grp[loc.grp].ver
      BY <1>0, <2>2, <3>1
    <3>3. grp' = [grp EXCEPT ![loc.grp] = row]
      BY <1>0, <2>2, <3>1
    <3> HIDE DEF row
    <3> DEFINE new == [grp |-> loc.grp, ver |-> row.ver, cfg |-> row.cfg]
    <3>4. \A h \in Groups : Exists(h)' => Known(DeviceConfig(h)') \/ DeviceConfig(h)' = new
      <4>1. \A h \in Groups : Exists(h)' =>
                IF h = loc.grp THEN DeviceConfig(h)' = new
                ELSE Exists(h) /\ DeviceConfig(h)' = DeviceConfig(h)
        BY <3>1, <3>3, RowCopies
      <4> QED BY <4>1, CopiesBefore
    <3> HIDE DEF new
    <3>5. \A x \in Copies' : Known(x) \/ x = new
      BY <1>12, <3>4, CopiesBefore, CopiesAfter DEF CreateVersion
    <3> QED BY <1>12, <3>1, <3>2, <3>3, <3>5, CopiesOvertaken DEF new, CreateVersion
  <2> QED BY <1>12, <2>1, <2>2 DEF CreateVersion
<1>13. CASE CreateAttach
  BY <1>0, <1>13, CopiesSame DEF CreateAttach
<1>14. CASE CreateDver
  BY <1>0, <1>14, CopiesSame DEF CreateDver
<1>15. CASE SessionEnds
  BY <1>0, <1>15, CopiesSame DEF SessionEnds
<1>16. ASSUME NEW g \in ClientGroups,
             CreateGroup(g)
      PROVE  CopiesOfRows' /\ VersionNamesContent'
  <2> DEFINE row == [live |-> TRUE, ver |-> 1, cfg |-> loc.cfg]
  <2>1. row \in [live : BOOLEAN, ver : Nat, cfg : Nat] /\ row.ver > grp[g].ver
    BY <1>0, <1>16 DEF CreateGroup
  <2>2. grp' = [grp EXCEPT ![g] = row] /\ g \in Groups
    BY <1>0, <1>16 DEF CreateGroup
  <2> HIDE DEF row
  <2> DEFINE new == [grp |-> g, ver |-> row.ver, cfg |-> row.cfg]
  <2>3. \A h \in Groups : Exists(h)' => Known(DeviceConfig(h)') \/ DeviceConfig(h)' = new
    <3>1. \A h \in Groups : Exists(h)' =>
              IF h = g THEN DeviceConfig(h)' = new
              ELSE Exists(h) /\ DeviceConfig(h)' = DeviceConfig(h)
      BY <2>2, RowCopies
    <3> QED BY <3>1, CopiesBefore
  <2> HIDE DEF new
  <2>4. \A x \in Copies' : Known(x) \/ x = new
    BY <1>16, <2>3, CopiesBefore, CopiesAfter DEF CreateGroup
  <2> QED BY <1>16, <2>1, <2>2, <2>4, CopiesOvertaken DEF new, CreateGroup
<1>17. ASSUME NEW a \in Editors, NEW g \in Groups, NEW cfg \in {0, NewConfig},
             EditSelect(a, g, cfg)
      PROVE  CopiesOfRows' /\ VersionNamesContent'
  <2>1. \A b \in Admins : apc'[b] = "send" => apc[b] = "send" /\ aloc'[b] = aloc[b]
    BY <1>0, <1>17 DEF EditSelect, BeginEdit
  <2> QED BY <1>0, <1>17, <2>1, CopiesSame DEF EditSelect, BeginEdit
<1>18. ASSUME NEW a \in Editors, NEW g \in Groups \cup {NoGroup},
             MoveCheck(a, g)
      PROVE  CopiesOfRows' /\ VersionNamesContent'
  <2>1. \A b \in Admins : apc'[b] = "send" => apc[b] = "send" /\ aloc'[b] = aloc[b]
    BY <1>0, <1>18 DEF MoveCheck
  <2> QED BY <1>0, <1>18, <2>1, CopiesSame DEF MoveCheck
<1>19. ASSUME NEW a \in Editors, NEW g \in Groups,
             DeleteGroup(a, g)
      PROVE  CopiesOfRows' /\ VersionNamesContent'
  <2>1. \A h \in Groups :
            /\ grp'[h].ver = grp[h].ver /\ grp'[h].cfg = grp[h].cfg
            /\ grp'[h].live => grp[h].live
    BY <1>0, <1>19 DEF DeleteGroup
  <2>2. \A h \in Groups : Exists(h)' => DeviceConfig(h)' = DeviceConfig(h)
    BY <2>1 DEF Exists, DeviceConfig
  <2>3. \A x \in Copies' : Known(x) \/ x = has
    BY <1>19, <2>2, CopiesBefore, CopiesAfter DEF DeleteGroup
  <2> QED BY <1>19, <2>1, <2>3, CopiesBefore, CopiesKept DEF DeleteGroup
<1>20. ASSUME NEW a \in Editors,
             RemoveFromGroup(a)
      PROVE  CopiesOfRows' /\ VersionNamesContent'
  BY <1>0, <1>20, CopiesSame DEF RemoveFromGroup
<1>21. ASSUME NEW a \in Pushers, NEW g \in Groups \cup {NoGroup},
             StartPush(a, g)
      PROVE  CopiesOfRows' /\ VersionNamesContent'
  <2>1. \A b \in Admins : apc'[b] = "send" => apc[b] = "send" /\ aloc'[b] = aloc[b]
    BY <1>0, <1>21 DEF StartPush
  <2> QED BY <1>0, <1>21, <2>1, CopiesSame DEF StartPush
<1>22. ASSUME NEW a \in Admins,
             EditWrite(a)
      PROVE  CopiesOfRows' /\ VersionNamesContent'
  <2>0. \A b \in Admins : apc'[b] = "send" => apc[b] = "send" /\ aloc'[b] = aloc[b]
    BY <1>0, <1>22 DEF EditWrite
  <2>1. CASE ~Exists(aloc[a].grp)
    <3>1. grp' = grp
      BY <1>22, <2>1 DEF EditWrite
    <3> QED BY <1>22, <2>0, <3>1, CopiesSame DEF EditWrite
  <2>2. CASE Exists(aloc[a].grp)
    <3> DEFINE g == aloc[a].grp
               row == EditedRow(aloc[a])
    <3>1. g \in Groups /\ row \in [live : BOOLEAN, ver : Nat, cfg : Nat]
      BY <2>2, EditTypes
    <3>2. g \in raced \/ row.ver > grp[g].ver
      BY <1>0, <1>22, <3>1 DEF EditWrite, NextVersion, EditedRow
    <3>3. grp' = [grp EXCEPT ![g] = row]
      BY <1>22, <2>2 DEF EditWrite
    <3> HIDE DEF g, row
    <3> DEFINE new == [grp |-> g, ver |-> row.ver, cfg |-> row.cfg]
    <3>4. \A h \in Groups : Exists(h)' => Known(DeviceConfig(h)') \/ DeviceConfig(h)' = new
      <4>1. \A h \in Groups : Exists(h)' =>
                IF h = g THEN DeviceConfig(h)' = new
                ELSE Exists(h) /\ DeviceConfig(h)' = DeviceConfig(h)
        BY <3>1, <3>3, RowCopies
      <4> QED BY <4>1, CopiesBefore
    <3> HIDE DEF new
    <3>5. \A x \in Copies' : Known(x) \/ x = new
      BY <1>22, <2>0, <3>4, CopiesBefore, CopiesAfter DEF EditWrite
    <3> QED BY <1>22, <3>1, <3>2, <3>3, <3>5, CopiesOvertaken DEF new, EditWrite
  <2> QED BY <2>1, <2>2
<1>23. ASSUME NEW a \in Admins,
             MoveWrite(a)
      PROVE  CopiesOfRows' /\ VersionNamesContent'
  <2>1. \A b \in Admins : apc'[b] = "send" => apc[b] = "send" /\ aloc'[b] = aloc[b]
    BY <1>0, <1>23 DEF MoveWrite
  <2> QED BY <1>0, <1>23, <2>1, CopiesSame DEF MoveWrite
<1>24. ASSUME NEW a \in Admins,
             PushRead(a)
      PROVE  CopiesOfRows' /\ VersionNamesContent'
  <2>1. \A b \in Admins : apc'[b] = "send" => Known(aloc'[b])
    BY <1>0, <1>24, CopiesBefore DEF PushRead
  <2>2. \A x \in Copies' : Known(x) \/ x = has
    BY <1>24, <2>1, CopiesBefore, CopiesAfter DEF PushRead
  <2> QED BY <1>24, <2>2, CopiesBefore, CopiesKept DEF PushRead
<1>25. ASSUME NEW a \in Admins,
             PushSend(a)
      PROVE  CopiesOfRows' /\ VersionNamesContent'
  <2>1. aloc[a] \in Copies
    BY <1>25, CopyIs DEF PushSend
  <2>2. \A i \in 1 .. Len(down') : Known(down'[i])
    BY <1>25, <2>1, SentCopy DEF PushSend
  <2>3. \A b \in Admins : apc'[b] = "send" => apc[b] = "send" /\ aloc'[b] = aloc[b]
    BY <1>0, <1>25 DEF PushSend
  <2>4. \A x \in Copies' : Known(x) \/ x = has
    BY <1>25, <2>2, <2>3, CopiesBefore, CopiesAfter DEF PushSend
  <2> QED BY <1>25, <2>4, CopiesBefore, CopiesKept DEF PushSend
<1>26. CASE Hello
  BY <1>0, <1>26, CopiesSame DEF Hello
<1>27. CASE ClientApply
  <2>1. /\ down # << >> => Head(down) = down[1] /\ 1 \in 1 .. Len(down)
        /\ \A i \in 1 .. Len(Tail(down)) : i + 1 \in 1 .. Len(down) /\ Tail(down)[i] = down[i + 1]
    BY <1>27 DEF TypeOK, ClientApply
  <2>2. Known(has') /\ \A i \in 1 .. Len(down') : Known(down'[i])
    BY <1>27, <2>1, CopiesBefore DEF ClientApply
  <2>3. \A x \in Copies' : Known(x) \/ x = has
    BY <1>27, <2>2, CopiesBefore, CopiesAfter DEF ClientApply
  <2> QED BY <1>27, <2>3, CopiesBefore, CopiesKept DEF ClientApply
<1>28. ASSUME NEW run \in BOOLEAN,
             ClientReport(run)
      PROVE  CopiesOfRows' /\ VersionNamesContent'
  BY <1>0, <1>28, CopiesSame DEF ClientReport
<1>29. ASSUME NEW n \in 0 .. Len(up),
             Break(n)
      PROVE  CopiesOfRows' /\ VersionNamesContent'
  <2>1. \A i \in 1 .. Len(down') : FALSE
    BY <1>29 DEF Break
  <2>2. \A x \in Copies' : Known(x) \/ x = has
    BY <1>29, <2>1, CopiesBefore, CopiesAfter DEF Break
  <2> QED BY <1>29, <2>2, CopiesBefore, CopiesKept DEF Break
<1>30. CASE UNCHANGED vars
  BY <1>30 DEF vars, CopiesOfRows, VersionNamesContent, Copies, DeviceConfig, Exists
<1> QED
  BY <1>1, <1>2, <1>3, <1>4, <1>5, <1>6, <1>7, <1>8, <1>9, <1>10, <1>11,
     <1>12, <1>13, <1>14, <1>15, <1>16, <1>17, <1>18, <1>19, <1>20, <1>21,
     <1>22, <1>23, <1>24, <1>25, <1>26, <1>27, <1>28, <1>29, <1>30
     DEF Next, SessionStep, AdminStep

-----------------------------------------------------------------------------
(* The initial states satisfy the invariant.                                *)
LEMMA InitInv == VersionsFit /\ Init => ConfigInv
<1> SUFFICES ASSUME VersionsFit, Init PROVE ConfigInv
  OBVIOUS
<1>1. TypeOK
  BY TypeInit
<1>2. /\ \A g \in Groups : grp[g].ver \in {0, 1} /\ (grp[g].live => grp[g].ver = 1)
      /\ \A g \in Groups : Exists(g) => DeviceConfig(g) = [grp |-> g, ver |-> grp[g].ver, cfg |-> grp[g].cfg]
      /\ pc = "off" /\ has = Nothing /\ down = << >> /\ up = << >>
      /\ \A a \in Admins : apc[a] = "idle"
  BY DEF Init, Exists, DeviceConfig
<1>3. Fits
  BY <1>2, BoundsAssumption DEF Fits, VersionsFit, Nothing
<1>4. NextVersion
  BY <1>2 DEF NextVersion
<1>5. \A x \in Copies :
        \/ x.grp = NoGroup
        \/ \E g \in Groups : grp[g].live /\ x = [grp |-> g, ver |-> grp[g].ver, cfg |-> grp[g].cfg]
  BY <1>2, CopyIs DEF Nothing, Exists
<1>6. CopiesOfRows /\ VersionNamesContent
  BY <1>2, <1>5 DEF CopiesOfRows, VersionNamesContent
<1> QED BY <1>1, <1>3, <1>4, <1>6 DEF ConfigInv

(* Every step keeps the invariant.                                          *)
LEMMA InvStep == VersionsFit /\ ConfigInv /\ [Next]_vars => ConfigInv'
BY TypeStep, FitsStep, NextStep, CopiesStep DEF ConfigInv

(* Every variable keeps its type: a device is in a group of the hub or in   *)
(* none, and queues hold configurations, however many administrators edit,  *)
(* move and push at once.                                                   *)
THEOREM ConfigTypeCorrect == Spec => []TypeOK
BY TypeInit, TypeStep, PTL DEF Spec

(* However many administrators edit, a version names one configuration of   *)
(* its group, in the row and wherever a copy of it is: comparing versions,  *)
(* as push_if_console_config_differs does, is comparing configurations.     *)
(* Only a group is excepted that was edited by two at once, or while the    *)
(* hub was making it.                                                       *)
THEOREM VersionIsContent ==
    ASSUME VersionsFit
    PROVE  Spec => []VersionNamesContent
<1>1. Init => ConfigInv
  BY InitInv
<1>2. ConfigInv /\ [Next]_vars => ConfigInv'
  BY InvStep
<1>3. ConfigInv => VersionNamesContent
  BY DEF ConfigInv
<1> QED BY <1>1, <1>2, <1>3, PTL DEF Spec

=============================================================================
