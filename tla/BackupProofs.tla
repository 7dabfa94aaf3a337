----------------------------- MODULE BackupProofs -----------------------------
(***************************************************************************)
(* Proofs about Store and Backup, for any hubs and any ids: when deletions *)
(* fail on a constraint, when a full backup that nothing was written under *)
(* can be restored, and when one that nothing happened under undoes        *)
(* deletions as it is merged.                                              *)
(***************************************************************************)
EXTENDS Backup, TLAPS

-----------------------------------------------------------------------------
(* Rows.                                                                    *)

(* The keys of a set of rows.                                               *)
LEMMA KeysAre ==
    \A D, k : k \in Keys(D) <=> \E x \in D : k = <<x.table, x.id>>
BY DEF Keys, Key

(* What a row may refer to.                                                 *)
LEMMA RefsAre ==
    ASSUME NEW x \in RowType, WellFormed(x), NEW k \in x.refs
    PROVE  /\ x.table \notin {"users", "system_config"}
           /\ x.table = "rooms" => \E u \in Users : k = <<"users", u>> /\ x.refs = {k}
           /\ x.table = "groups" => \E r \in Rooms : k = <<"rooms", r>> /\ x.refs = {k}
           /\ x.table = "devices" => \/ \E r \in Rooms : k = <<"rooms", r>>
                                     \/ \E g \in Groups \cup {"empty"} : k = <<"groups", g>>
           /\ x.table \in {"events", "config_pushes"} =>
                 \E d \in Devices : k = <<"devices", d>> /\ x.refs = {k}
BY DEF WellFormed, RowType, Tables

(* An id names one row of a table.                                          *)
OneKey(D) == \A x, y \in D : Key(x) = Key(y) => x = y

(* Rows can go when none that stays refers to them.                         *)
LEMMA StaysConsistent ==
    ASSUME NEW D, NEW E \in SUBSET D, Consistent(D),
           \A x \in E, y \in D \ E : <<y.table, y.id>> \notin x.refs
    PROVE  Consistent(E)
BY KeysAre DEF Consistent

-----------------------------------------------------------------------------
(* Deletions.                                                               *)

(* The five statements of delete_room: devices lose what reports on them,   *)
(* groups their members, the room both; a member from elsewhere stays.      *)
LEMMA RoomDeletionPasses ==
    ASSUME NEW D \in SUBSET RowType, \A x \in D : WellFormed(x),
           Consistent(D), OneKey(D), NEW r \in Rooms
    PROVE  GoesThrough(RoomDeletion(D, r))
              <=> \A g \in Groups : Strangers(D, g, r) = {}
<1> DEFINE devices == {x \in Of(D, "devices") : InRoom(x, r)}
           D1 == D \ {x \in Of(D, "config_pushes") : OnDevice(x) \subseteq Keys(devices)}
           D2 == D1 \ {x \in Of(D, "events") : OnDevice(x) \subseteq Keys(devices)}
           D3 == D2 \ devices
           D4 == D3 \ {x \in Of(D, "groups") : InRoom(x, r)}
           D5 == D4 \ {x \in Of(D, "rooms") : x.id = r}
<1>1. \A x \in D : /\ x.table \in Tables /\ x \in RowType /\ WellFormed(x)
                   /\ \A k \in x.refs : k[1] # "events" /\ k[1] # "config_pushes"
  <2> SUFFICES ASSUME NEW x \in D
               PROVE  /\ x.table \in Tables /\ x \in RowType /\ WellFormed(x)
                      /\ \A k \in x.refs : k[1] # "events" /\ k[1] # "config_pushes"
    OBVIOUS
  <2>1. x.table \in Tables /\ x \in RowType /\ WellFormed(x)
    BY DEF RowType
  <2> QED BY <2>1, RefsAre DEF Tables
<1>2. Consistent(D1)
  <2>1. \A x \in D1, y \in D \ D1 : <<y.table, y.id>> \notin x.refs
    BY <1>1 DEF Of
  <2> QED BY <2>1, StaysConsistent
<1>3. Consistent(D2)
  <2>1. \A x \in D2, y \in D1 \ D2 : <<y.table, y.id>> \notin x.refs
    BY <1>1 DEF Of
  <2> QED BY <1>2, <2>1, StaysConsistent
<1>4. Consistent(D3)
  <2>1. ASSUME NEW x \in D3, NEW y \in D2 \ D3, <<y.table, y.id>> \in x.refs
        PROVE  FALSE
    <3>1. y.table = "devices" /\ y \in devices /\ x \in D /\ <<"devices", y.id>> \in x.refs
      BY <2>1 DEF Of
    <3>2. x.table \in {"events", "config_pushes"} /\ x.refs = {<<"devices", y.id>>}
      BY <1>1, <3>1, RefsAre DEF Tables
    <3>3. OnDevice(x) \subseteq Keys(devices)
      BY <3>1, <3>2, KeysAre DEF OnDevice
    <3> QED BY <2>1, <3>1, <3>2, <3>3 DEF Of
  <2> QED BY <1>3, <2>1, StaysConsistent
<1>5. ASSUME \A g \in Groups : Strangers(D, g, r) = {}
      PROVE  Consistent(D4)
  <2>1. ASSUME NEW x \in D4, NEW y \in D3 \ D4, <<y.table, y.id>> \in x.refs
        PROVE  FALSE
    <3>1. /\ y.table = "groups" /\ y \in Of(D, "groups") /\ InRoom(y, r)
          /\ x \in D /\ <<"groups", y.id>> \in x.refs
      BY <2>1 DEF Of
    <3>2. x.table = "devices" /\ x \in Of(D, "devices")
      BY <1>1, <3>1, RefsAre DEF Tables, Of
    <3>3. y.id \in Groups
      BY <3>1 DEF WellFormed, Of
    <3>4. InRoom(x, r)
      BY <1>5, <3>1, <3>2, <3>3 DEF Strangers, InGroup
    <3> QED BY <2>1, <3>2, <3>4
  <2> QED BY <1>4, <2>1, StaysConsistent
<1>6. Consistent(D4) => Consistent(D5)
  <2>1. ASSUME NEW x \in D5, NEW y \in D4 \ D5, <<y.table, y.id>> \in x.refs
        PROVE  FALSE
    <3>1. y.table = "rooms" /\ y.id = r /\ x \in D /\ InRoom(x, r)
      BY <2>1 DEF Of, InRoom
    <3>2. x.table = "devices" \/ x.table = "groups"
      BY <1>1, <3>1, RefsAre DEF Tables, InRoom
    <3> QED BY <2>1, <3>1, <3>2 DEF Of
  <2> QED BY <2>1, StaysConsistent
<1>7. ASSUME Consistent(D4), NEW g \in Groups, NEW x \in Strangers(D, g, r)
      PROVE  FALSE
  <2>1. x \in D /\ x.table = "devices" /\ ~InRoom(x, r) /\ <<"groups", g>> \in x.refs
    BY <1>7 DEF Strangers, InGroup, Of
  <2>2. x \in D4
    BY <2>1 DEF Of
  <2>3. PICK z \in D4 : z.table = "groups" /\ z.id = g
    <3> HIDE DEF D4
    <3>1. <<"groups", g>> \in Keys(D4)
      BY <1>7, <2>1, <2>2 DEF Consistent
    <3> QED BY <3>1, KeysAre
  <2>4. PICK y \in Of(D, "groups") : y.id = g /\ InRoom(y, r)
    BY <1>7 DEF Strangers
  <2>5. z = y
    BY <2>3, <2>4 DEF OneKey, Of, Key
  <2> QED BY <2>3, <2>4, <2>5
<1>8. RoomDeletion(D, r) = <<D1, D2, D3, D4, D5>>
  BY DEF RoomDeletion
<1> HIDE DEF D1, D2, D3, D4, D5
<1>9. GoesThrough(RoomDeletion(D, r)) <=> Consistent(D4) /\ Consistent(D5)
  BY <1>2, <1>3, <1>4, <1>8 DEF GoesThrough
<1> QED BY <1>5, <1>6, <1>7, <1>9

(* The two of delete_group: a device that refers to the group and is in its *)
(* room has been moved out of it; one of another room still refers to it.   *)
LEMMA GroupDeletionPasses ==
    ASSUME NEW D \in SUBSET RowType, \A x \in D : WellFormed(x),
           Consistent(D), OneKey(D), NEW r \in Rooms, NEW g
    PROVE  GoesThrough(GroupDeletion(D, g, r)) <=> Strangers(D, g, r) = {}
<1> DEFINE members == {x \in Of(D, "devices") : InRoom(x, r) /\ InGroup(x, g)}
           D1 == (D \ members) \cup {Regroup(x, {}) : x \in members}
           D2 == D1 \ {x \in Of(D, "groups") : x.id = g /\ InRoom(x, r)}
<1>1. \A x \in members : /\ Regroup(x, {}).table = x.table /\ Regroup(x, {}).id = x.id
                         /\ Regroup(x, {}).refs = {k \in x.refs : k[1] # "groups"}
                         /\ x.table = "devices" /\ x \in D
  BY DEF Regroup, RowType, Of
<1>2. Keys(D) \subseteq Keys(D1)
  <2> SUFFICES ASSUME NEW x \in D PROVE <<x.table, x.id>> \in Keys(D1)
    BY KeysAre
  <2>1. CASE x \in members
    BY <1>1, <2>1, KeysAre
  <2>2. CASE x \notin members
    BY <2>2, KeysAre
  <2> QED BY <2>1, <2>2
<1>3. Consistent(D1)
  <2>1. \A x \in D1 : x.refs \subseteq Keys(D)
    BY <1>1 DEF Consistent
  <2> QED BY <1>2, <2>1 DEF Consistent
<1>4. ASSUME Strangers(D, g, r) = {} PROVE Consistent(D2)
  <2>1. ASSUME NEW x \in D2, NEW y \in D1 \ D2, <<y.table, y.id>> \in x.refs
        PROVE  FALSE
    <3>1. /\ y.table = "groups" /\ y.id = g /\ y \in Of(D, "groups") /\ InRoom(y, r)
          /\ <<"groups", g>> \in x.refs
      BY <2>1 DEF Of
    <3>2. x \notin {Regroup(z, {}) : z \in members}
      BY <1>1, <3>1
    <3>3. x \in D /\ x \notin members
      BY <3>2
    <3>4. x \in Of(D, "devices")
      <4>1. x \in RowType /\ WellFormed(x) /\ x.table \in Tables
        BY <3>3 DEF RowType
      <4> QED BY <3>1, <3>3, <4>1, RefsAre DEF Tables, Of
    <3>5. InRoom(x, r) /\ InGroup(x, g)
      BY <1>4, <3>1, <3>4 DEF Strangers, InGroup
    <3> QED BY <3>3, <3>4, <3>5
  <2> QED BY <1>3, <2>1, StaysConsistent
<1>5. ASSUME Consistent(D2), NEW x \in Strangers(D, g, r)
      PROVE  FALSE
  <2>1. x \in D /\ x.table = "devices" /\ ~InRoom(x, r) /\ <<"groups", g>> \in x.refs
    BY DEF Strangers, InGroup, Of
  <2>2. x \in D2
    BY <2>1 DEF Of
  <2>3. PICK z \in D2 : z.table = "groups" /\ z.id = g
    <3> HIDE DEF D2
    <3>1. <<"groups", g>> \in Keys(D2)
      BY <1>5, <2>1, <2>2 DEF Consistent
    <3> QED BY <3>1, KeysAre
  <2>4. PICK y \in Of(D, "groups") : y.id = g /\ InRoom(y, r)
    BY DEF Strangers
  <2>5. z \in D
    BY <1>1, <2>3
  <2>6. z = y
    BY <2>3, <2>4, <2>5 DEF OneKey, Of, Key
  <2> QED BY <2>3, <2>4, <2>5, <2>6 DEF Of
<1>6. GroupDeletion(D, g, r) = <<D1, D2>>
  BY DEF GroupDeletion
<1> HIDE DEF D1, D2
<1>7. GoesThrough(GroupDeletion(D, g, r)) <=> Consistent(D2)
  BY <1>3, <1>6 DEF GoesThrough
<1> QED BY <1>4, <1>5, <1>7

(* The three of delete_device, for a device of the room.                    *)
LEMMA DeviceDeletionPasses ==
    ASSUME NEW D \in SUBSET RowType, \A x \in D : WellFormed(x),
           Consistent(D), NEW r \in Rooms, NEW d
    PROVE  GoesThrough(DeviceDeletion(D, d, r))
<1> DEFINE D1 == D \ {x \in Of(D, "config_pushes") : OnDevice(x) = {<<"devices", d>>}}
           D2 == D1 \ {x \in Of(D, "events") : OnDevice(x) = {<<"devices", d>>}}
           D3 == D2 \ {x \in Of(D, "devices") : x.id = d /\ InRoom(x, r)}
<1>1. \A x \in D : /\ x.table \in Tables /\ x \in RowType /\ WellFormed(x)
                   /\ \A k \in x.refs : k[1] # "events" /\ k[1] # "config_pushes"
  <2> SUFFICES ASSUME NEW x \in D
               PROVE  /\ x.table \in Tables /\ x \in RowType /\ WellFormed(x)
                      /\ \A k \in x.refs : k[1] # "events" /\ k[1] # "config_pushes"
    OBVIOUS
  <2>1. x.table \in Tables /\ x \in RowType /\ WellFormed(x)
    BY DEF RowType
  <2> QED BY <2>1, RefsAre DEF Tables
<1>2. Consistent(D1)
  <2>1. \A x \in D1, y \in D \ D1 : <<y.table, y.id>> \notin x.refs
    BY <1>1 DEF Of
  <2> QED BY <2>1, StaysConsistent
<1>3. Consistent(D2)
  <2>1. \A x \in D2, y \in D1 \ D2 : <<y.table, y.id>> \notin x.refs
    BY <1>1 DEF Of
  <2> QED BY <1>2, <2>1, StaysConsistent
<1>4. Consistent(D3)
  <2>1. ASSUME NEW x \in D3, NEW y \in D2 \ D3, <<y.table, y.id>> \in x.refs
        PROVE  FALSE
    <3>1. y.table = "devices" /\ y.id = d /\ x \in D /\ <<"devices", d>> \in x.refs
      BY <2>1 DEF Of
    <3>2. x.table \in {"events", "config_pushes"} /\ x.refs = {<<"devices", d>>}
      BY <1>1, <3>1, RefsAre DEF Tables
    <3>3. OnDevice(x) = {<<"devices", d>>}
      BY <3>2 DEF OnDevice
    <3> QED BY <2>1, <3>1, <3>2, <3>3 DEF Of
  <2> QED BY <1>3, <2>1, StaysConsistent
<1>5. DeviceDeletion(D, d, r) = <<D1, D2, D3>>
  BY DEF DeviceDeletion
<1> HIDE DEF D1, D2, D3
<1> QED BY <1>2, <1>3, <1>4, <1>5 DEF GoesThrough

(* So the requests fail in a sound database only for such devices.          *)
LEMMA SoundDeletions ==
    ASSUME NEW more, db \in [Hubs -> SUBSET RowType], Sound(more)
    PROVE  DeletionsGoThrough
<1> SUFFICES ASSUME NEW h \in Hubs, NEW r \in Rooms
             PROVE  /\ GoesThrough(RoomDeletion(db[h], r))
                          <=> \A g \in Groups : Strangers(db[h], g, r) = {}
                    /\ \A g \in Groups :
                         GoesThrough(GroupDeletion(db[h], g, r))
                            <=> Strangers(db[h], g, r) = {}
                    /\ \A x \in Of(db[h], "devices") :
                         InRoom(x, r) => GoesThrough(DeviceDeletion(db[h], x.id, r))
  BY DEF DeletionsGoThrough
<1>1. db[h] \in SUBSET RowType /\ db[h] \subseteq AllRows(more)
  BY DEF AllRows
<1>2. /\ \A x \in db[h] : WellFormed(x)
      /\ Consistent(db[h]) /\ OneKey(db[h])
  BY <1>1 DEF Sound, Valid, OneKey
<1> QED BY <1>1, <1>2, RoomDeletionPasses, GroupDeletionPasses, DeviceDeletionPasses

-----------------------------------------------------------------------------
(* What each operation does to the rows.                                    *)

(* A new row is one its table may have.                                     *)
LEMMA CreateEffect ==
    ASSUME db \in [Hubs -> SUBSET RowType], NEW h \in Hubs, NEW taken, Create(h, taken)
    PROVE  \E z \in RowType :
              /\ WellFormed(z)
              /\ Valid(db[h] \cup {z})
              /\ db' = [db EXCEPT ![h] = db[h] \cup {z}]
<1>1. ASSUME NEW z, Insert(h, z)
      PROVE  Valid(db[h] \cup {z}) /\ db' = [db EXCEPT ![h] = db[h] \cup {z}]
  BY <1>1 DEF Insert, Commit
<1>2. ASSUME NEW u \in Owners, <<"users", u>> \notin taken, Register(h, u)
      PROVE  \E z \in RowType : WellFormed(z) /\ Insert(h, z)
  <2> DEFINE z == Row("users", u, {}, u)
  <2>1. z \in RowType /\ WellFormed(z) /\ z.table = "users" /\ z.id = u
    BY DEF Row, RowType, WellFormed, Tables, Ids, Users
  <2> QED BY <1>2, <2>1 DEF Register
<1>3. ASSUME NEW r \in Rooms, NEW u \in Users, <<"rooms", r>> \notin taken,
             CreateRoom(h, r, u)
      PROVE  \E z \in RowType : WellFormed(z) /\ Insert(h, z)
  <2> DEFINE k == {<<"users", u>>}
             z == Row("rooms", r, k, "")
  <2>0. /\ k \in SUBSET (Tables \X (Ids \cup {"empty"}))
        /\ "rooms" \in Tables /\ r \in Ids
    BY DEF Tables, Ids, Users
  <2> HIDE DEF k
  <2>1. z \in RowType /\ z.table = "rooms" /\ z.id = r /\ z.refs = k
    BY <2>0 DEF Row, RowType
  <2> HIDE DEF z
  <2>2. WellFormed(z)
    BY <2>1 DEF WellFormed, k
  <2> QED BY <1>3, <2>1, <2>2 DEF CreateRoom, z, k
<1>4. ASSUME NEW g \in Groups, NEW r \in Rooms, <<"groups", g>> \notin taken,
             CreateGroup(h, g, r)
      PROVE  \E z \in RowType : WellFormed(z) /\ Insert(h, z)
  <2> DEFINE k == {<<"rooms", r>>}
             z == Row("groups", g, k, "")
  <2>0. /\ k \in SUBSET (Tables \X (Ids \cup {"empty"}))
        /\ "groups" \in Tables /\ g \in Ids
    BY DEF Tables, Ids, Users
  <2> HIDE DEF k
  <2>1. z \in RowType /\ z.table = "groups" /\ z.id = g /\ z.refs = k
    BY <2>0 DEF Row, RowType
  <2> HIDE DEF z
  <2>2. WellFormed(z)
    BY <2>1 DEF WellFormed, k
  <2> QED BY <1>4, <2>1, <2>2 DEF CreateGroup, z, k
<1>5. ASSUME NEW d \in Devices, NEW r \in Rooms, <<"devices", d>> \notin taken,
             HelloDevice(h, d, r)
      PROVE  \E z \in RowType : WellFormed(z) /\ Insert(h, z)
  <2> DEFINE k == {<<"rooms", r>>}
             z == Row("devices", d, k, "")
  <2>0. /\ k \in SUBSET (Tables \X (Ids \cup {"empty"}))
        /\ "devices" \in Tables /\ d \in Ids
    BY DEF Tables, Ids, Users
  <2> HIDE DEF k
  <2>1. z \in RowType /\ z.table = "devices" /\ z.id = d /\ z.refs = k
    BY <2>0 DEF Row, RowType
  <2> HIDE DEF z
  <2>2. WellFormed(z)
    BY <2>1 DEF WellFormed, k
  <2> QED BY <1>5, <2>1, <2>2 DEF HelloDevice, z, k
<1>6. ASSUME NEW t \in {"events", "config_pushes"}, NEW l \in Logs, NEW d \in Devices,
             <<t, l>> \notin taken, Report(h, t, l, d)
      PROVE  \E z \in RowType : WellFormed(z) /\ Insert(h, z)
  <2> DEFINE k == {<<"devices", d>>}
             z == Row(t, l, k, "")
  <2>0. /\ k \in SUBSET (Tables \X (Ids \cup {"empty"}))
        /\ t \in Tables /\ l \in Ids
    BY DEF Tables, Ids, Users
  <2> HIDE DEF k
  <2>1. z \in RowType /\ z.table = t /\ z.id = l /\ z.refs = k
    BY <2>0 DEF Row, RowType
  <2> HIDE DEF z
  <2>2. WellFormed(z)
    BY <2>1 DEF WellFormed, k
  <2> QED BY <1>6, <2>1, <2>2 DEF Report, z, k
<1> QED BY <1>1, <1>2, <1>3, <1>4, <1>5, <1>6 DEF Create

(* A device's row with another group, or none.                              *)
LEMMA RegroupIs ==
    ASSUME NEW x \in RowType, x.table = "devices", WellFormed(x),
           NEW g \in SUBSET Groups, \A i, j \in g : i = j
    PROVE  /\ Regroup(x, g) \in RowType /\ WellFormed(Regroup(x, g))
           /\ Regroup(x, g).table = "devices" /\ Regroup(x, g).id = x.id
           /\ \A k \in Regroup(x, g).refs : k \in x.refs \/ \E i \in g : k = <<"groups", i>>
<1> DEFINE refs == {k \in x.refs : k[1] # "groups"} \cup {<<"groups", i>> : i \in g}
           z == Regroup(x, g)
<1>1. PICK r \in Rooms : \/ x.refs = {<<"rooms", r>>}
                         \/ \E i \in Groups \cup {"empty"} :
                              x.refs = {<<"rooms", r>>, <<"groups", i>>}
  BY DEF WellFormed
<1>2. refs = {<<"rooms", r>>} \cup {<<"groups", i>> : i \in g}
  BY <1>1
<1>3. refs = {<<"rooms", r>>} \/ \E i \in Groups : refs = {<<"rooms", r>>, <<"groups", i>>}
  BY <1>2
<1>4. refs \in SUBSET (Tables \X (Ids \cup {"empty"}))
  BY <1>2 DEF Tables, Ids
<1>5. z = [x EXCEPT !.refs = refs]
  BY DEF Regroup
<1> HIDE DEF refs, z
<1>6. z \in RowType /\ z.table = "devices" /\ z.id = x.id /\ z.refs = refs
  BY <1>4, <1>5 DEF RowType
<1>7. WellFormed(z)
  BY <1>3, <1>6 DEF WellFormed
<1>8. \A k \in z.refs : k \in x.refs \/ \E i \in g : k = <<"groups", i>>
  BY <1>6 DEF refs
<1> QED BY <1>6, <1>7, <1>8 DEF z

(* Moving a device replaces its row.                                        *)
LEMMA MoveEffect ==
    ASSUME db \in [Hubs -> SUBSET RowType], NEW h \in Hubs, Sound(file), Move(h)
    PROVE  \E x \in Of(db[h], "devices"), z \in RowType :
              /\ WellFormed(z)
              /\ Valid((db[h] \ {x}) \cup {z})
              /\ db' = [db EXCEPT ![h] = (db[h] \ {x}) \cup {z}]
<1>1. PICK d \in Devices, g \in {{}} \cup {{i} : i \in Groups} :
          SetDeviceGroup(h, d, g) \/ UpdateDevice(h, d, g)
  BY DEF Move
<1>2. g \in SUBSET Groups /\ \A i, j \in g : i = j
  OBVIOUS
<1>3. PICK x \in Of(db[h], "devices") : PutInto(h, x, g)
  BY <1>1 DEF SetDeviceGroup, UpdateDevice
<1>4. x \in RowType /\ x.table = "devices" /\ WellFormed(x)
  BY DEF Of, AllRows, Sound
<1> DEFINE z == Regroup(x, g)
<1>5. z \in RowType /\ WellFormed(z)
  BY <1>2, <1>4, RegroupIs
<1> HIDE DEF z
<1> QED BY <1>3, <1>5 DEF PutInto, Commit, z

(* What a deletion leaves: rows that were there, and devices without the    *)
(* group that they were in.                                                 *)
Leaves(D, E) ==
    /\ \A x \in E \ D : x \in RowType /\ WellFormed(x) /\ x.table = "devices"
    /\ Keys(E) \subseteq Keys(D)
    /\ \A x \in Of(D, "users") : x.val = "admin" => x \in E

(* Deletions take rows away, and devices out of a group; the administrator  *)
(* stays.                                                                   *)
LEMMA DeleteEffect ==
    ASSUME db \in [Hubs -> SUBSET RowType], NEW h \in Hubs, Delete(h),
           \A x \in db[h] : WellFormed(x)
    PROVE  \E E : Leaves(db[h], E) /\ Valid(E) /\ db' = [db EXCEPT ![h] = E]
<1> DEFINE D == db[h]
<1>0. \A E : Commit(h, E) => Valid(E) /\ db' = [db EXCEPT ![h] = E]
  BY DEF Commit
<1>1. ASSUME NEW r \in Rooms, DeleteRoom(h, r)
      PROVE  \E E : Leaves(D, E) /\ Commit(h, E)
  <2>1. PICK E : /\ E = RoomDeletion(D, r)[5] /\ Commit(h, E)
    BY <1>1 DEF DeleteRoom, Transact, RoomDeletion
  <2>2. E \subseteq D /\ Of(D, "users") \subseteq E
    BY <2>1 DEF RoomDeletion, Of
  <2>3. Leaves(D, E)
    BY <2>2, KeysAre DEF Leaves
  <2> QED BY <2>1, <2>3
<1>2. ASSUME NEW g \in Groups, NEW r \in Rooms, DeleteGroup(h, g, r)
      PROVE  \E E : Leaves(D, E) /\ Commit(h, E)
  <2> DEFINE members == {x \in Of(D, "devices") : InRoom(x, r) /\ InGroup(x, g)}
             moved == {Regroup(x, {}) : x \in members}
             E == ((D \ members) \cup moved) \ {x \in Of(D, "groups") : x.id = g /\ InRoom(x, r)}
  <2>1. Commit(h, E)
    <3>1. \A X, Y : <<X, Y>>[Len(<<X, Y>>)] = Y
      OBVIOUS
    <3> QED BY <1>2, <3>1 DEF DeleteGroup, Transact, GroupDeletion
  <2>2. ASSUME NEW z \in moved
        PROVE  /\ z \in RowType /\ WellFormed(z) /\ z.table = "devices"
               /\ <<z.table, z.id>> \in Keys(D)
    <3>1. PICK x \in members : z = Regroup(x, {})
      OBVIOUS
    <3>2. x \in RowType /\ x.table = "devices" /\ WellFormed(x) /\ x \in D
      BY DEF Of
    <3>3. {} \in SUBSET Groups /\ \A i, j \in {} : i = j
      OBVIOUS
    <3>4. z \in RowType /\ WellFormed(z) /\ z.table = "devices" /\ z.id = x.id
      BY <3>1, <3>2, <3>3, RegroupIs
    <3> QED BY <3>2, <3>4, KeysAre
  <2>3. /\ \A x \in E \ D : x \in moved
        /\ \A x \in E : x \in D \/ x \in moved
    OBVIOUS
  <2>4. \A x \in Of(D, "users") : x \in E
    BY DEF Of
  <2> HIDE DEF moved, E, members
  <2>5. Keys(E) \subseteq Keys(D)
    BY <2>2, <2>3, KeysAre
  <2>6. Leaves(D, E)
    BY <2>2, <2>3, <2>4, <2>5 DEF Leaves
  <2> QED BY <2>1, <2>6
<1>3. ASSUME NEW d \in Devices, NEW r \in Rooms, DeleteDevice(h, d, r)
      PROVE  \E E : Leaves(D, E) /\ Commit(h, E)
  <2>1. PICK E : /\ E = DeviceDeletion(D, d, r)[3] /\ Commit(h, E)
    BY <1>3 DEF DeleteDevice, Transact, DeviceDeletion
  <2>2. E \subseteq D /\ Of(D, "users") \subseteq E
    BY <2>1 DEF DeviceDeletion, Of
  <2>3. Leaves(D, E)
    BY <2>2, KeysAre DEF Leaves
  <2> QED BY <2>1, <2>3
<1>4. ASSUME NEW u \in Owners, DeleteAccount(h, u)
      PROVE  \E E : Leaves(D, E) /\ Commit(h, E)
  <2> DEFINE E == {x \in D : Key(x) # <<"users", u>>}
  <2>1. Commit(h, E)
    BY <1>4 DEF DeleteAccount
  <2>2. \A x \in Of(D, "users") : x.val = "admin" => x \in E
    BY OwnersAssumption DEF Of, Key, WellFormed
  <2>3. Leaves(D, E)
    BY <2>2, KeysAre DEF Leaves
  <2> QED BY <2>1, <2>3
<1> HIDE DEF D
<1> QED BY <1>0, <1>1, <1>2, <1>3, <1>4 DEF Delete, D

(* The seven tables, each once, in the order they are read and replayed.    *)
LEMMA OrderIs ==
    /\ ImportOrder = ExportOrder /\ Len(ImportOrder) = 7
    /\ \A i \in 1 .. 7 : ExportOrder[i] \in Tables
    /\ \A t \in Tables : \E i \in 1 .. 7 : ExportOrder[i] = t
    /\ \A i, j \in 1 .. 7 : ExportOrder[i] = ExportOrder[j] => i = j
<1>1. ImportOrder = ExportOrder /\ Len(ImportOrder) = 7
  BY DEF ImportOrder, ExportOrder
<1>2. /\ ExportOrder[1] = "users" /\ ExportOrder[2] = "rooms" /\ ExportOrder[3] = "groups"
      /\ ExportOrder[4] = "devices" /\ ExportOrder[5] = "events"
      /\ ExportOrder[6] = "config_pushes" /\ ExportOrder[7] = "system_config"
  BY DEF ExportOrder
<1>3. \A i \in 1 .. 7 : i = 1 \/ i = 2 \/ i = 3 \/ i = 4 \/ i = 5 \/ i = 6 \/ i = 7
  OBVIOUS
<1>4. \A i, j \in 1 .. 7 : ExportOrder[i] = ExportOrder[j] => i = j
  BY <1>2, <1>3
<1>5. \A i \in 1 .. 7 : ExportOrder[i] \in Tables
  BY <1>2, <1>3 DEF Tables
<1>6. \A t \in Tables : \E i \in 1 .. 7 : ExportOrder[i] = t
  BY <1>2 DEF Tables
<1> QED BY <1>1, <1>4, <1>5, <1>6

(* What a row refers to is in tables that come before its own.              *)
LEMMA RefsEarlier ==
    ASSUME NEW x \in RowType, WellFormed(x), NEW k \in x.refs,
           NEW i \in 1 .. 7, ExportOrder[i] = x.table
    PROVE  \E j \in 1 .. i - 1 : ExportOrder[j] = k[1]
<1>1. /\ ExportOrder[1] = "users" /\ ExportOrder[2] = "rooms" /\ ExportOrder[3] = "groups"
      /\ ExportOrder[4] = "devices" /\ ExportOrder[5] = "events"
      /\ ExportOrder[6] = "config_pushes" /\ ExportOrder[7] = "system_config"
  BY DEF ExportOrder
<1>2. i = 1 \/ i = 2 \/ i = 3 \/ i = 4 \/ i = 5 \/ i = 6 \/ i = 7
  OBVIOUS
<1>3. /\ x.table = "rooms" => k[1] = "users"
      /\ x.table = "groups" => k[1] = "rooms"
      /\ x.table = "devices" => k[1] = "rooms" \/ k[1] = "groups"
      /\ x.table \in {"events", "config_pushes"} => k[1] = "devices"
      /\ x.table # "users" /\ x.table # "system_config"
  BY RefsAre
<1>4. i # 1 /\ i # 7
  BY <1>1, <1>3
<1>5. CASE i = 2
  BY <1>1, <1>3, <1>5
<1>6. CASE i = 3
  <2>1. 2 \in 1 .. i - 1 /\ ExportOrder[2] = k[1]
    BY <1>1, <1>3, <1>6
  <2> QED BY <2>1
<1>7. CASE i = 4
  <2>1. 2 \in 1 .. i - 1 /\ 3 \in 1 .. i - 1
    BY <1>7
  <2>2. ExportOrder[2] = k[1] \/ ExportOrder[3] = k[1]
    BY <1>1, <1>3, <1>7
  <2> QED BY <2>1, <2>2
<1>8. CASE i = 5 \/ i = 6
  <2>1. 4 \in 1 .. i - 1
    BY <1>8
  <2>2. ExportOrder[4] = k[1]
    BY <1>1, <1>3, <1>8
  <2> QED BY <2>1, <2>2
<1> QED BY <1>2, <1>4, <1>5, <1>6, <1>7, <1>8

(* An import that goes through leaves a valid database, of rows that were   *)
(* in it or in the file.                                                    *)
LEMMA ImportEffect ==
    ASSUME NEW D \in SUBSET RowType, Valid(D), NEW F \in SUBSET RowType,
           \A x, y \in F : Key(x) = Key(y) => x = y,
           \A x, y \in Of(F, "users") : x.val = y.val => x = y,
           NEW mode \in {"merge", "overwrite"}, Importable(D, F, mode)
    PROVE  Imported(D, F, mode) \subseteq D \cup F /\ Valid(Imported(D, F, mode))
<1> DEFINE B == Base(D, mode)
           N == Inserted(D, F, mode)
           E == Imported(D, F, mode)
<1>1. E = B \cup N /\ B \subseteq D /\ N \subseteq F /\ Valid(B)
  BY DEF Imported, Base, Inserted, Valid, Consistent, Of
<1>2. \A x \in B, y \in N : /\ Key(x) # Key(y)
                            /\ x.table = "users" /\ y.table = "users" => x.val # y.val
  <2> SUFFICES ASSUME NEW x \in B, NEW y \in N
               PROVE  /\ Key(x) # Key(y)
                      /\ x.table = "users" /\ y.table = "users" => x.val # y.val
    OBVIOUS
  <2>1. x \in D /\ ~Skipped(D, y)
    BY DEF Base, Inserted
  <2> QED BY <2>1, KeysAre DEF Skipped, Key, Of
<1>3. \A x \in N : x.refs \subseteq Keys(E)
  <2> SUFFICES ASSUME NEW x \in N, NEW k \in x.refs PROVE k \in Keys(E)
    OBVIOUS
  <2>1. PICK i \in 1 .. Len(ImportOrder) : ImportOrder[i] = x.table
    BY <1>1, OrderIs DEF RowType
  <2> DEFINE M == {y \in N : \E j \in 1 .. i - 1 : y.table = ImportOrder[j]}
  <2>2. x.refs \subseteq Keys(B) \cup Keys(M)
    BY <2>1 DEF Importable, Of
  <2>3. M \subseteq E /\ B \subseteq E
    BY <1>1
  <2> HIDE DEF M
  <2> QED BY <2>2, <2>3, KeysAre
<1> HIDE DEF B, N, E
<1>4. Consistent(E)
  BY <1>1, <1>3, KeysAre DEF Valid, Consistent
<1>5. \A x, y \in E : Key(x) = Key(y) => x = y
  BY <1>1, <1>2 DEF Valid
<1>6. \A x, y \in Of(E, "users") : x.val = y.val => x = y
  BY <1>1, <1>2 DEF Valid, Of
<1>7. Valid(E)
  BY <1>4, <1>5, <1>6 DEF Valid
<1> QED BY <1>1, <1>7 DEF E

-----------------------------------------------------------------------------
(* Rows that may appear without harm.                                       *)

(* Rows may go, and rows that their tables may have may come.               *)
LEMMA SoundMore ==
    ASSUME Sound(file), NEW S, AllRows(file)' \subseteq AllRows(file) \cup S,
           \A z \in S : WellFormed(z),
           \A h \in Hubs : Valid(db'[h])
    PROVE  Sound(file)'
BY DEF Sound

(* Writing one hub.                                                         *)
LEMMA OneHub ==
    ASSUME db \in [Hubs -> SUBSET RowType], NEW h \in Hubs, NEW E,
           db' = [db EXCEPT ![h] = E], file' = file
    PROVE  /\ AllRows(file)' \subseteq AllRows(file) \cup (E \ db[h])
           /\ db'[h] = E /\ \A i \in Hubs : i # h => db'[i] = db[i]
           /\ Valid(E) /\ (\A i \in Hubs : Valid(db[i])) => \A i \in Hubs : Valid(db'[i])
           /\ E \subseteq RowType => db' \in [Hubs -> SUBSET RowType]
<1>1. db'[h] = E /\ \A i \in Hubs : i # h => db'[i] = db[i]
  OBVIOUS
<1>2. AllRows(file)' \subseteq AllRows(file) \cup (E \ db[h])
  BY <1>1 DEF AllRows
<1>3. (Valid(E) /\ \A i \in Hubs : Valid(db[i])) => \A i \in Hubs : Valid(db'[i])
  BY <1>1
<1> QED BY <1>1, <1>2, <1>3

(* A row of the file is the row that was read, which at most got the group  *)
(* "empty" for none.                                                        *)
LEMMA AsTextIs ==
    ASSUME NEW x \in RowType, WellFormed(x)
    PROVE  /\ AsText(x) \in RowType /\ WellFormed(AsText(x))
           /\ AsText(x).table = x.table /\ AsText(x).id = x.id /\ AsText(x).val = x.val
           /\ Key(AsText(x)) = Key(x)
           /\ x.refs \subseteq AsText(x).refs
           /\ \A k \in AsText(x).refs : k \in x.refs \/ k = NoGroup
           /\ NoGroup \notin AsText(x).refs => AsText(x) = x
           /\ x.table # "devices" => AsText(x) = x
<1>1. CASE AsText(x) = x
  BY <1>1
<1>2. CASE AsText(x) # x
  <2> DEFINE refs == x.refs \cup {NoGroup}
             z == AsText(x)
  <2>1. /\ x.table = "devices" /\ \A k \in x.refs : k[1] # "groups"
        /\ z = [x EXCEPT !.refs = refs]
    BY <1>2 DEF AsText
  <2>2. refs \in SUBSET (Tables \X (Ids \cup {"empty"}))
    <3>1. x.refs \in SUBSET (Tables \X (Ids \cup {"empty"}))
      BY DEF RowType
    <3>2. NoGroup \in Tables \X (Ids \cup {"empty"})
      BY DEF NoGroup, Tables
    <3> QED BY <3>1, <3>2
  <2>3. PICK r \in Rooms : x.refs = {<<"rooms", r>>}
    BY <2>1 DEF WellFormed
  <2>4. refs = {<<"rooms", r>>, <<"groups", "empty">>} /\ NoGroup \in refs /\ x.refs \subseteq refs
        /\ \A k \in refs : k \in x.refs \/ k = NoGroup
    BY <2>3 DEF NoGroup
  <2> HIDE DEF refs, z
  <2>5. /\ z \in RowType /\ z.table = "devices" /\ z.id = x.id /\ z.val = x.val
        /\ z.refs = refs
    BY <2>1, <2>2 DEF RowType
  <2>6. WellFormed(z)
    BY <2>4, <2>5 DEF WellFormed
  <2> QED BY <2>1, <2>4, <2>5, <2>6 DEF z, Key
<1> QED BY <1>1, <1>2

(* One SELECT reads one table more, of which it takes some rows.            *)
LEMMA SelectIs ==
    ASSUME BackupTypeOK, ExportTable
    PROVE  \E t \in Tables, new \in SUBSET db[src] :
              /\ next \in 1 .. 7 /\ ExportOrder[next] = t
              /\ t \notin Read /\ Read' = Read \cup {t}
              /\ file' = file \cup {AsText(x) : x \in new}
              /\ new = {x \in db[src] : x.table = t /\
                            (scope = Nobody \/ x \in Owned(db[src], t, scope))}
<1> DEFINE t == ExportOrder[next]
           new == {x \in db[src] : x.table = t /\
                      (scope = Nobody \/ x \in Owned(db[src], t, scope))}
<1>1. next \in 1 .. 7 /\ next' = next + 1
  BY DEF ExportTable, Reading, Complete, BackupTypeOK
<1>2. t \in Tables
  BY <1>1, OrderIs
<1>3. t \notin Read
  <2> SUFFICES ASSUME NEW i \in 1 .. next - 1, ExportOrder[i] = t PROVE FALSE
    BY DEF Read
  <2>1. i \in 1 .. 7 /\ i # next
    BY <1>1
  <2> QED BY <1>1, <2>1, OrderIs
<1>4. Read' = Read \cup {t}
  <2>1. 1 .. next' - 1 = (1 .. next - 1) \cup {next}
    BY <1>1
  <2> QED BY <2>1 DEF Read, ExportOrder
<1>5. \A x \in Owned(db[src], t, scope) : x \in db[src] /\ x.table = t
  BY <1>2 DEF Owned, Of, RoomsOf, DevicesOf, Tables
<1>6. file' = file \cup {AsText(x) : x \in new}
  <2> DEFINE rows == IF scope = Nobody THEN Of(db[src], t) ELSE Owned(db[src], t, scope)
  <2>1. file' = file \cup {AsText(x) : x \in rows}
    BY DEF ExportTable
  <2> HIDE DEF t
  <2>2. rows = new
    BY <1>5 DEF Of
  <2> QED BY <2>1, <2>2
<1> HIDE DEF t
<1> QED BY <1>1, <1>2, <1>3, <1>4, <1>6 DEF t

(* Every step keeps the rows well formed and the databases sound.           *)
LEMMA SoundStep ==
    ASSUME BackupTypeOK, Sound(file), FileInv, [BackupNext]_vars
    PROVE  /\ db' \in [Hubs -> SUBSET RowType] /\ file' \subseteq RowType
           /\ Sound(file)'
<1>0. /\ db \in [Hubs -> SUBSET RowType] /\ file \subseteq RowType /\ src \in Hubs
      /\ \A h \in Hubs : /\ Valid(db[h]) /\ db[h] \subseteq AllRows(file)
                         /\ \A x \in db[h] : WellFormed(x)
      /\ file \subseteq AllRows(file)
  BY DEF BackupTypeOK, TypeOK, Sound, AllRows
<1>1. ASSUME NEW h \in Hubs, Create(h, Seen), Written(h)
      PROVE  /\ db' \in [Hubs -> SUBSET RowType] /\ file' \subseteq RowType
             /\ Sound(file)'
  <2>1. PICK z \in RowType :
           /\ WellFormed(z)
           /\ Valid(db[h] \cup {z})
           /\ db' = [db EXCEPT ![h] = db[h] \cup {z}]
    BY <1>0, <1>1, CreateEffect
  <2>2. file' = file
    BY <1>1 DEF Written, export
  <2> DEFINE S == {z}
  <2>3. /\ AllRows(file)' \subseteq AllRows(file) \cup S
        /\ \A i \in Hubs : Valid(db'[i])
        /\ db' \in [Hubs -> SUBSET RowType]
    BY <1>0, <2>1, <2>2, OneHub
  <2>4. \A x \in S : WellFormed(x)
    BY <2>1
  <2> HIDE DEF S
  <2>5. Sound(file)'
    BY <2>3, <2>4, SoundMore
  <2> QED BY <1>0, <2>2, <2>3, <2>5
<1>2. ASSUME NEW h \in Hubs, Move(h), Written(h)
      PROVE  /\ db' \in [Hubs -> SUBSET RowType] /\ file' \subseteq RowType
             /\ Sound(file)'
  <2>1. PICK x \in Of(db[h], "devices"), z \in RowType :
           /\ WellFormed(z)
           /\ Valid((db[h] \ {x}) \cup {z})
           /\ db' = [db EXCEPT ![h] = (db[h] \ {x}) \cup {z}]
    BY <1>0, <1>2, MoveEffect
  <2>2. file' = file
    BY <1>2 DEF Written, export
  <2> DEFINE E == (db[h] \ {x}) \cup {z}
             S == E \ db[h]
  <2>3. /\ E \subseteq RowType /\ Valid(E) /\ db' = [db EXCEPT ![h] = E]
        /\ \A w \in S : WellFormed(w)
    BY <1>0, <2>1
  <2> HIDE DEF E
  <2>4. /\ AllRows(file)' \subseteq AllRows(file) \cup S
        /\ \A i \in Hubs : Valid(db'[i])
        /\ db' \in [Hubs -> SUBSET RowType]
    BY <1>0, <2>2, <2>3, OneHub
  <2> HIDE DEF S
  <2>5. Sound(file)'
    BY <2>3, <2>4, SoundMore
  <2> QED BY <1>0, <2>2, <2>4, <2>5
<1>3. ASSUME NEW h \in Hubs, Delete(h), Deleted(h)
      PROVE  /\ db' \in [Hubs -> SUBSET RowType] /\ file' \subseteq RowType
             /\ Sound(file)'
  <2>1. PICK E : Leaves(db[h], E) /\ Valid(E) /\ db' = [db EXCEPT ![h] = E]
    BY <1>0, <1>3, DeleteEffect
  <2>2. file' = file
    BY <1>3 DEF Deleted, export
  <2>3. E \subseteq RowType
    BY <1>0, <2>1 DEF Leaves
  <2>4. /\ AllRows(file)' \subseteq AllRows(file) \cup (E \ db[h])
        /\ \A i \in Hubs : Valid(db'[i])
        /\ db' \in [Hubs -> SUBSET RowType]
    BY <1>0, <2>1, <2>2, <2>3, OneHub
  <2>5. \A z \in E \ db[h] : WellFormed(z)
    BY <2>1 DEF Leaves
  <2>6. Sound(file)'
    BY <2>4, <2>5, SoundMore
  <2> QED BY <1>0, <2>2, <2>4, <2>6
<1>4. ASSUME NEW h \in Hubs, NEW s \in Users \cup {Nobody}, StartExport(h, s)
      PROVE  /\ db' \in [Hubs -> SUBSET RowType] /\ file' \subseteq RowType
             /\ Sound(file)'
  <2>1. db' = db /\ file' = {}
    BY <1>4 DEF StartExport
  <2>2. Sound(file)'
    BY <1>0, <2>1 DEF AllRows, Sound
  <2> QED BY <1>0, <2>1, <2>2
<1>5. ASSUME NEW h \in Hubs, NEW mode \in {"merge", "overwrite"}, Import(h, mode)
      PROVE  /\ db' \in [Hubs -> SUBSET RowType] /\ file' \subseteq RowType
             /\ Sound(file)'
  <2> DEFINE E == Imported(db[h], file, mode)
  <2>1. db' = [db EXCEPT ![h] = E] /\ file' = file
    BY <1>5 DEF Import, export
  <2>2. E \subseteq db[h] \cup file /\ Valid(E)
    BY <1>0, <1>5, ImportEffect DEF Import, FileInv
  <2> HIDE DEF E
  <2>3. /\ AllRows(file)' \subseteq AllRows(file) \cup (E \ db[h])
        /\ \A i \in Hubs : Valid(db'[i])
        /\ db' \in [Hubs -> SUBSET RowType]
    BY <1>0, <2>1, <2>2, OneHub
  <2>4. \A z \in E \ db[h] : WellFormed(z)
    BY <2>2 DEF Sound, AllRows
  <2>5. Sound(file)'
    BY <2>3, <2>4, SoundMore
  <2> QED BY <1>0, <2>1, <2>3, <2>5
<1>6. CASE ExportTable
  <2>1. PICK t \in Tables, new \in SUBSET db[src] :
           file' = file \cup {AsText(x) : x \in new}
    BY <1>6, SelectIs
  <2> DEFINE S == {AsText(x) : x \in new}
  <2>2. \A z \in S : z \in RowType /\ WellFormed(z)
    BY <1>0, AsTextIs
  <2>3. db' = db /\ file' = file \cup S
    BY <1>6, <2>1 DEF ExportTable
  <2> HIDE DEF S
  <2>4. /\ AllRows(file)' \subseteq AllRows(file) \cup S
        /\ \A i \in Hubs : Valid(db'[i])
    BY <1>0, <2>3 DEF AllRows
  <2>5. Sound(file)'
    BY <2>2, <2>4, SoundMore
  <2> QED BY <1>0, <2>2, <2>3, <2>5
<1>7. CASE UNCHANGED vars
  BY <1>0, <1>7 DEF vars, export, Sound, AllRows
<1> QED BY <1>1, <1>2, <1>3, <1>4, <1>5, <1>6, <1>7 DEF BackupNext

(* Every step keeps the types.                                              *)
LEMMA BackupTypeStep ==
    ASSUME BackupTypeOK, Sound(file), FileInv, [BackupNext]_vars
    PROVE  BackupTypeOK'
<1>0. /\ db' \in [Hubs -> SUBSET RowType] /\ file' \subseteq RowType
      /\ MaxWrites \in Nat
  BY SoundStep, WritesAssumption
<1>1. ASSUME NEW h \in Hubs, Written(h)
      PROVE  BackupTypeOK'
  BY <1>0, <1>1 DEF BackupTypeOK, TypeOK, Written, export, Since
<1>2. ASSUME NEW h \in Hubs, Deleted(h)
      PROVE  BackupTypeOK'
  BY <1>0, <1>2 DEF BackupTypeOK, TypeOK, Deleted, export, Since
<1>3. ASSUME NEW h \in Hubs, NEW s \in Users \cup {Nobody}, StartExport(h, s)
      PROVE  BackupTypeOK'
  BY <1>0, <1>3 DEF BackupTypeOK, TypeOK, StartExport, Since
<1>4. ASSUME NEW h \in Hubs, NEW mode \in {"merge", "overwrite"}, Import(h, mode)
      PROVE  BackupTypeOK'
  BY <1>0, <1>4 DEF BackupTypeOK, TypeOK, Import, export, Since
<1>5. CASE ExportTable
  BY <1>0, <1>5 DEF BackupTypeOK, TypeOK, ExportTable, Reading, Complete, Since
<1>6. CASE UNCHANGED vars
  BY <1>6 DEF BackupTypeOK, TypeOK, vars, export, history
<1> QED BY <1>1, <1>2, <1>3, <1>4, <1>5, <1>6 DEF BackupNext

-----------------------------------------------------------------------------
(* The file.                                                                *)

(* Every step keeps what is said of the file.                               *)
LEMMA FileStep ==
    ASSUME BackupTypeOK, Sound(file), FileInv, [BackupNext]_vars
    PROVE  FileInv'
<1>1. CASE UNCHANGED <<file, next>>
  BY <1>1 DEF FileInv, Read, ExportOrder
<1>2. CASE file' = {}
  BY <1>2 DEF FileInv, Of
<1>3. CASE ExportTable
  <2>1. PICK t \in Tables, new \in SUBSET db[src] :
            /\ t \notin Read /\ Read' = Read \cup {t}
            /\ file' = file \cup {AsText(x) : x \in new}
            /\ \A x \in new : x.table = t
    BY <1>3, SelectIs
  <2> DEFINE S == {AsText(x) : x \in new}
  <2>2. Valid(db[src])
    BY DEF Sound, BackupTypeOK
  <2>3. \A x \in new : /\ AsText(x).table = t /\ AsText(x).val = x.val
                       /\ Key(AsText(x)) = Key(x)
    BY <2>1, AsTextIs DEF BackupTypeOK, TypeOK, Sound, AllRows
  <2>4. \A x \in S : x.table = t
    BY <2>3
  <2>5. \A x, y \in S : Key(x) = Key(y) => x = y
    <3> SUFFICES ASSUME NEW x \in new, NEW y \in new, Key(AsText(x)) = Key(AsText(y))
                 PROVE  AsText(x) = AsText(y)
      OBVIOUS
    <3> QED BY <2>2, <2>3 DEF Valid
  <2>6. t = "users" => \A x, y \in S : x.val = y.val => x = y
    <3> SUFFICES ASSUME t = "users", NEW x \in new, NEW y \in new,
                        AsText(x).val = AsText(y).val
                 PROVE  AsText(x) = AsText(y)
      OBVIOUS
    <3> QED BY <2>1, <2>2, <2>3 DEF Valid, Of
  <2> HIDE DEF S
  <2>7. \A x \in file' : x.table \in Read'
    BY <2>1, <2>4 DEF FileInv, S
  <2>8. \A x \in file, y \in S : x.table # y.table
    BY <2>1, <2>4 DEF FileInv
  <2>9. \A x, y \in file' : Key(x) = Key(y) => x = y
    BY <2>1, <2>5, <2>8 DEF FileInv, Key, S
  <2>10. \A x, y \in Of(file', "users") : x.val = y.val => x = y
    BY <2>1, <2>4, <2>6, <2>8 DEF FileInv, Of, S
  <2> QED BY <2>7, <2>9, <2>10 DEF FileInv
<1> QED BY <1>1, <1>2, <1>3
        DEF BackupNext, Written, Deleted, StartExport, Import, export, vars

-----------------------------------------------------------------------------
(* What is known of an export while nothing is written.                     *)

(* Steps that leave the exported hub alone, or write to it.                 *)
LEMMA ExportApart ==
    ASSUME ExportInv, UNCHANGED export, during' = during,
           since' = "written" \/ (since' = since /\ db'[src] = db[src])
    PROVE  ExportInv'
<1>1. /\ Exported(before)' = Exported(before) /\ Read' = Read
      /\ file' = file /\ src' = src /\ scope' = scope /\ next' = next /\ before' = before
  BY DEF Exported, Read, export, ExportOrder
<1> QED BY <1>1 DEF ExportInv

(* Deletions: keys only go, and the administrator stays.                    *)
LEMMA ExportDeleted ==
    ASSUME BackupTypeOK, Sound(file), ExportInv, UNCHANGED export, during' = during,
           since # "written", since' = "deleted", Leaves(db[src], db'[src])
    PROVE  ExportInv'
<1>1. /\ Exported(before)' = Exported(before) /\ Read' = Read
      /\ file' = file /\ src' = src /\ scope' = scope /\ next' = next /\ before' = before
  BY DEF Exported, Read, export, ExportOrder
<1>2. /\ Keys(db'[src]) \subseteq Keys(db[src])
      /\ Of(db'[src], "users") \subseteq Of(db[src], "users")
      /\ \A x \in Of(db[src], "users") : x.val = "admin" => x \in db'[src]
  BY DEF Leaves, Of
<1>3. ASSUME next > 0
      PROVE  /\ Keys(db'[src]) \subseteq Keys(before)
             /\ Of(db'[src], "users") \subseteq before
             /\ \A x \in Of(before, "users") : x.val = "admin" => x \in db'[src]
             /\ scope = Nobody =>
                  \A x \in db'[src] : x.table \in Read => Key(x) \in Keys(file)
  <2>1. /\ Keys(db[src]) \subseteq Keys(before)
        /\ Of(db[src], "users") \subseteq before
        /\ \A x \in Of(before, "users") : x.val = "admin" => x \in db[src]
        /\ scope = Nobody =>
             \A x \in db[src] : x.table \in Read => Key(x) \in Keys(file)
    BY <1>3 DEF ExportInv
  <2>2. \A x \in Of(before, "users") : x.val = "admin" => x \in db'[src]
    BY <1>2, <2>1 DEF Of
  <2>3. ASSUME scope = Nobody, NEW x \in db'[src], x.table \in Read
        PROVE  Key(x) \in Keys(file)
    <3> DEFINE k == <<x.table, x.id>>
    <3>0. k \in Keys(db[src])
      BY <1>2, KeysAre
    <3>1. PICK y \in db[src] : y.table = x.table /\ y.id = x.id
      BY <3>0, KeysAre
    <3> QED BY <2>1, <2>3, <3>1 DEF Key
  <2> QED BY <1>2, <2>1, <2>2, <2>3
<1> QED BY <1>1, <1>3 DEF ExportInv

(* The start of an export.                                                  *)
LEMMA ExportStarts ==
    ASSUME BackupTypeOK, Sound(file), NEW h \in Hubs, NEW s, StartExport(h, s)
    PROVE  ExportInv'
<1>1. /\ file' = {} /\ src' = h /\ next' = 1 /\ before' = db[h] /\ db' = db
      /\ since' = "same" /\ during' = "same"
  BY DEF StartExport
<1>2. Read' = {}
  BY <1>1 DEF Read
<1>3. Exported(before)' = {}
  BY <1>2 DEF Exported
<1>4. /\ \A x \in db[h] : WellFormed(x)
      /\ Valid(db[h])
  BY DEF Sound, AllRows
<1> QED BY <1>1, <1>2, <1>3, <1>4 DEF ExportInv, Of

(* One SELECT: what the rows it takes refer to was read before.             *)
LEMMA ExportSelects ==
    ASSUME BackupTypeOK, Sound(file), ExportInv, ExportTable
    PROVE  ExportInv'
<1>1. PICK t \in Tables, new \in SUBSET db[src] :
         /\ next \in 1 .. 7 /\ ExportOrder[next] = t
         /\ t \notin Read /\ Read' = Read \cup {t}
         /\ file' = file \cup {AsText(x) : x \in new}
         /\ new = {x \in db[src] : x.table = t /\
                       (scope = Nobody \/ x \in Owned(db[src], t, scope))}
  BY SelectIs
<1>2. /\ db' = db /\ src' = src /\ scope' = scope /\ before' = before
      /\ since' = since /\ during' = since /\ next > 0 /\ next' > 0
  BY <1>1 DEF ExportTable
<1>0. \A x \in db[src] : x \in RowType /\ WellFormed(x) /\ Key(AsText(x)) = Key(x)
  BY AsTextIs DEF BackupTypeOK, TypeOK, Sound, AllRows
<1>3. ASSUME since # "written", scope = Nobody, NEW x \in db[src], x.table \in Read'
      PROVE  Key(x) \in Keys(file')
  <2>1. CASE x.table \in Read
    BY <1>1, <1>2, <1>3, <2>1, KeysAre DEF ExportInv, Key
  <2>2. CASE x \in new
    <3>1. AsText(x) \in file' /\ Key(AsText(x)) = Key(x)
      BY <1>0, <1>1, <2>2
    <3> QED BY <3>1 DEF Keys
  <2> QED BY <1>1, <1>3, <2>1, <2>2
<1>4. ASSUME since # "written", scope = Nobody
      PROVE  \A x \in file' : x.refs \subseteq Keys(file') \cup {NoGroup}
  <2>1. \A x \in file : x.refs \subseteq Keys(file') \cup {NoGroup}
    <3>1. \A x \in file : x.refs \subseteq Keys(file) \cup {NoGroup}
      BY <1>4 DEF ExportInv
    <3>2. Keys(file) \subseteq Keys(file')
      BY <1>1, KeysAre
    <3> QED BY <3>1, <3>2
  <2>2. ASSUME NEW x \in new, NEW k \in x.refs PROVE k \in Keys(file')
    <3>1. x \in RowType /\ WellFormed(x) /\ x \in db[src] /\ Consistent(db[src])
      BY DEF BackupTypeOK, TypeOK, Sound, AllRows, Valid
    <3>2. PICK y \in db[src] : k = <<y.table, y.id>>
      BY <3>1, KeysAre DEF Consistent
    <3>3. PICK j \in 1 .. next - 1 : ExportOrder[j] = k[1]
      BY <1>1, <3>1, RefsEarlier
    <3>4. y.table \in Read
      BY <3>2, <3>3 DEF Read
    <3>5. k \in Keys(file)
      BY <1>2, <1>4, <3>2, <3>4 DEF ExportInv, Key
    <3> QED BY <1>1, <3>5, KeysAre
  <2>3. \A x \in new : \A k \in AsText(x).refs : k \in x.refs \/ k = NoGroup
    BY <1>0, AsTextIs
  <2> QED BY <1>1, <2>1, <2>2, <2>3
<1>5. ASSUME since = "same" PROVE file' = Exported(before)'
  <2>1. db[src] = before /\ file = Exported(before)
    BY <1>2, <1>5 DEF ExportInv
  <2> DEFINE old == {y \in before : y.table \in Read /\
                         (scope = Nobody \/ y \in Owned(before, y.table, scope))}
             all == {y \in before : y.table \in Read' /\
                         (scope = Nobody \/ y \in Owned(before, y.table, scope))}
  <2>2. Exported(before)' = {AsText(x) : x \in all}
    BY <1>2 DEF Exported, Owned, AsText
  <2>3. file = {AsText(x) : x \in old}
    BY <2>1 DEF Exported
  <2>4. all = old \cup new
    BY <1>1, <2>1
  <2> HIDE DEF old, all
  <2> QED BY <1>1, <2>2, <2>3, <2>4
<1> QED BY <1>2, <1>3, <1>4, <1>5 DEF ExportInv

(* Every step keeps what is said of the export.                             *)
LEMMA ExportStep ==
    ASSUME BackupTypeOK, Sound(file), FileInv, ExportInv, [BackupNext]_vars
    PROVE  ExportInv'
<1>0. /\ db \in [Hubs -> SUBSET RowType] /\ src \in Hubs
      /\ \A h \in Hubs : Valid(db[h]) /\ \A x \in db[h] : WellFormed(x)
  BY DEF BackupTypeOK, TypeOK, Sound, AllRows
<1>1. ASSUME NEW h \in Hubs, Create(h, Seen) \/ Move(h), Written(h)
      PROVE  ExportInv'
  <2>1. h = src \/ db'[src] = db[src]
    <3>1. ASSUME NEW E, db' = [db EXCEPT ![h] = E] PROVE h = src \/ db'[src] = db[src]
      BY <1>0, <3>1
    <3>2. CASE Create(h, Seen)
      BY <1>0, <3>1, <3>2, CreateEffect
    <3>3. CASE Move(h)
      BY <1>0, <3>1, <3>3, MoveEffect
    <3> QED BY <1>1, <3>2, <3>3
  <2> QED BY <1>1, <2>1, ExportApart DEF Written
<1>2. ASSUME NEW h \in Hubs, Delete(h), Deleted(h)
      PROVE  ExportInv'
  <2>1. PICK E : Leaves(db[h], E) /\ db' = [db EXCEPT ![h] = E]
    BY <1>0, <1>2, DeleteEffect
  <2>2. /\ UNCHANGED export /\ during' = during
        /\ since' = IF h = src /\ since = "same" /\ db'[h] # db[h]
                    THEN "deleted" ELSE since
    BY <1>2 DEF Deleted
  <2>3. CASE db'[src] = db[src]
    BY <2>2, <2>3, ExportApart
  <2>4. CASE since = "written"
    BY <2>2, <2>4, ExportApart
  <2>5. CASE db'[src] # db[src] /\ since # "written"
    <3>1. h = src /\ db'[src] = E
      BY <1>0, <2>1, <2>5
    <3>2. since' = "deleted"
      BY <2>2, <2>5, <3>1 DEF BackupTypeOK, Since
    <3> QED BY <2>1, <2>2, <2>5, <3>1, <3>2, ExportDeleted
  <2> QED BY <2>3, <2>4, <2>5
<1>3. ASSUME NEW h \in Hubs, NEW s \in Users \cup {Nobody}, StartExport(h, s)
      PROVE  ExportInv'
  BY <1>3, ExportStarts
<1>4. ASSUME NEW h \in Hubs, NEW mode \in {"merge", "overwrite"}, Import(h, mode)
      PROVE  ExportInv'
  <2>1. h # src => db'[src] = db[src]
    BY <1>0, <1>4 DEF Import
  <2> QED BY <1>4, <2>1, ExportApart DEF Import
<1>5. CASE ExportTable
  BY <1>5, ExportSelects
<1>6. CASE UNCHANGED vars
  BY <1>6, ExportApart DEF vars, history
<1> QED BY <1>1, <1>2, <1>3, <1>4, <1>5, <1>6 DEF BackupNext

-----------------------------------------------------------------------------
(* What a complete file is good for.                                        *)

(* No group has the empty string for its id.                                *)
LEMMA NoSuchGroup ==
    ASSUME NEW D, \A x \in D : WellFormed(x)
    PROVE  NoGroup \notin Keys(D)
BY KeysAre, GroupIdsAssumption DEF WellFormed, NoGroup

(* The rows of a complete file are those the hub had, as text.              *)
LEMMA QuietFile ==
    ASSUME BackupInv, Complete, during = "same"
    PROVE  /\ file = {AsText(x) : x \in
                 {y \in before : scope = Nobody \/ y \in Owned(before, y.table, scope)}}
           /\ \A x \in before : x \in RowType /\ WellFormed(x) /\ Key(AsText(x)) = Key(x)
<1>1. before \subseteq RowType /\ \A x \in before : WellFormed(x)
  BY DEF BackupInv, BackupTypeOK, ExportInv
<1>2. \A x \in before : x.table \in Read
  <2>1. 1 .. next - 1 = 1 .. 7
    BY DEF Complete, BackupInv, BackupTypeOK
  <2>2. Tables \subseteq Read
    BY <2>1, OrderIs DEF Read
  <2> QED BY <1>1, <2>2 DEF RowType
<1>3. {y \in before : y.table \in Read /\
                       (scope = Nobody \/ y \in Owned(before, y.table, scope))}
        = {y \in before : scope = Nobody \/ y \in Owned(before, y.table, scope)}
  BY <1>2
<1>4. file = Exported(before)
  BY DEF BackupInv, ExportInv
<1> QED BY <1>1, <1>3, <1>4, AsTextIs DEF Exported

(* A file whose rows refer to rows of the file can be restored; one with a  *)
(* device in the group "empty" cannot.                                      *)
LEMMA Restores ==
    ASSUME BackupInv, Complete, scope = Nobody, during # "written", NEW D
    PROVE  /\ Importable(D, file, "overwrite") <=> \A x \in file : NoGroup \notin x.refs
           /\ during = "same" /\ Importable(D, file, "overwrite") =>
                 Imported(D, file, "overwrite") = before
<1>1. /\ file \subseteq RowType /\ \A x \in file : WellFormed(x)
      /\ \A x \in file : x.refs \subseteq Keys(file) \cup {NoGroup}
  BY DEF BackupInv, BackupTypeOK, Sound, AllRows, ExportInv
<1>2. Base(D, "overwrite") = {} /\ Inserted(D, file, "overwrite") = file
  BY DEF Base, Inserted
<1>3. ASSUME \A x \in file : NoGroup \notin x.refs,
             NEW i \in 1 .. Len(ImportOrder), NEW x \in Of(file, ImportOrder[i]),
             NEW k \in x.refs
      PROVE  k \in Keys({y \in file : \E j \in 1 .. i - 1 : y.table = ImportOrder[j]})
  <2>1. PICK y \in file : k = <<y.table, y.id>>
    BY <1>1, <1>3, KeysAre DEF Of
  <2>2. i \in 1 .. 7 /\ ExportOrder[i] = x.table /\ ImportOrder = ExportOrder
    BY OrderIs DEF Of
  <2>3. PICK j \in 1 .. i - 1 : ExportOrder[j] = k[1]
    BY <1>1, <2>2, RefsEarlier DEF Of
  <2>4. y.table = ImportOrder[j]
    BY <2>1, <2>2, <2>3
  <2> QED BY <2>1, <2>4, KeysAre
<1>4. ASSUME \A x \in file : NoGroup \notin x.refs PROVE Importable(D, file, "overwrite")
  BY <1>2, <1>3, <1>4 DEF Importable
<1>5. ASSUME Importable(D, file, "overwrite"), NEW x \in file, NoGroup \in x.refs
      PROVE  FALSE
  <2>1. PICK i \in 1 .. Len(ImportOrder) : ImportOrder[i] = x.table
    BY <1>1, OrderIs DEF RowType
  <2> DEFINE M == {y \in file : \E j \in 1 .. i - 1 : y.table = ImportOrder[j]}
  <2>2. NoGroup \in Keys({}) \cup Keys(M)
    BY <1>2, <1>5, <2>1 DEF Importable, Of
  <2>3. \A y \in M : WellFormed(y)
    BY <1>1
  <2>4. \A y \in {} : WellFormed(y)
    OBVIOUS
  <2> HIDE DEF M
  <2> QED BY <2>2, <2>3, <2>4, NoSuchGroup
<1>6. ASSUME during = "same", \A x \in file : NoGroup \notin x.refs
      PROVE  Imported(D, file, "overwrite") = before
  <2>1. /\ file = {AsText(x) : x \in before}
        /\ \A x \in before : x \in RowType /\ WellFormed(x)
    <3>1. {y \in before : scope = Nobody \/ y \in Owned(before, y.table, scope)} = before
      OBVIOUS
    <3> QED BY <1>6, <3>1, QuietFile
  <2>2. \A x \in before : AsText(x) = x
    BY <1>6, <2>1, AsTextIs
  <2>3. file = before
    BY <2>1, <2>2
  <2> QED BY <1>2, <2>3 DEF Imported
<1> QED BY <1>4, <1>5, <1>6

(* What a user owns is closed but for groups: the owner of a room, the room *)
(* of a group or device, the device of an event.                            *)
LEMMA OwnedClosed ==
    ASSUME NEW B \in SUBSET RowType, \A x \in B : WellFormed(x),
           Valid(B),
           NEW u, NEW x \in B, x \in Owned(B, x.table, u),
           NEW y \in B, <<y.table, y.id>> \in x.refs, y.table # "groups"
    PROVE  y \in Owned(B, y.table, u)
<1>1. /\ x \in RowType /\ WellFormed(x) /\ x.table \in Tables
      /\ y \in RowType /\ WellFormed(y) /\ y.table \in Tables
  BY DEF RowType
<1>2. CASE x.table = "rooms"
  <2>1. <<"users", u>> \in x.refs
    BY <1>2 DEF Owned, RoomsOf
  <2>2. y.table = "users" /\ y.id = u
    BY <1>1, <1>2, <2>1, RefsAre
  <2> QED BY <2>2 DEF Owned, Of
<1>3. ASSUME NEW r \in RoomsOf(B, u), <<r.table, r.id>> \in x.refs, y.table = "rooms",
             x.table \in {"groups", "devices"}
      PROVE  y = r
  <2>1. r.table = "rooms" /\ r \in B
    BY DEF RoomsOf, Of
  <2>2. y.id = r.id
    BY <1>1, <1>3, <2>1 DEF WellFormed
  <2> QED BY <1>3, <2>1, <2>2 DEF Valid, Key
<1>4. CASE x.table = "groups"
  <2>1. PICK r \in RoomsOf(B, u) : <<r.table, r.id>> \in x.refs
    BY <1>4, KeysAre DEF Owned
  <2>2. y.table = "rooms"
    BY <1>1, <1>4, RefsAre
  <2>3. y = r
    BY <1>3, <1>4, <2>1, <2>2
  <2> QED BY <2>2, <2>3 DEF Owned
<1>5. CASE x.table = "devices"
  <2>1. PICK r \in RoomsOf(B, u) : <<r.table, r.id>> \in x.refs
    BY <1>5, KeysAre DEF Owned, DevicesOf
  <2>2. y.table = "rooms"
    BY <1>1, <1>5, RefsAre
  <2>3. y = r
    BY <1>3, <1>5, <2>1, <2>2
  <2> QED BY <2>2, <2>3 DEF Owned
<1>6. CASE x.table \in {"events", "config_pushes"}
  <2>1. PICK d \in DevicesOf(B, u) : <<d.table, d.id>> \in x.refs
    BY <1>6, KeysAre DEF Owned
  <2>2. d.table = "devices" /\ d \in B
    BY DEF DevicesOf, Of
  <2>3. y.table = "devices" /\ y.id = d.id
    BY <1>1, <1>6, <2>1, <2>2, RefsAre
  <2>4. y = d
    BY <2>2, <2>3 DEF Valid, Key
  <2> QED BY <2>3, <2>4 DEF Owned
<1>7. x.table # "users" /\ x.table # "system_config"
  BY <1>1, RefsAre
<1> QED BY <1>1, <1>2, <1>4, <1>5, <1>6, <1>7 DEF Tables

(* A quiet backup merged back: what a row refers to is there, or comes back *)
(* before it, except perhaps the group of a device.                         *)
LEMMA Undoes ==
    ASSUME BackupInv, Complete, during = "same", since # "written"
    PROVE  /\ Importable(db[src], file, "merge") <=> Stranded = {}
           /\ Stranded = {} =>
                 Keys(file) \subseteq Keys(Imported(db[src], file, "merge"))
<1> DEFINE D == db[src]
           N == Inserted(D, file, "merge")
           owned == {y \in before : scope = Nobody \/ y \in Owned(before, y.table, scope)}
<1>1. /\ before \subseteq RowType /\ \A x \in before : WellFormed(x)
      /\ Valid(before) /\ next = 8
      /\ file \subseteq RowType /\ \A x \in file : WellFormed(x)
  BY DEF BackupInv, BackupTypeOK, ExportInv, Complete, Sound, AllRows
<1>2. /\ Of(D, "users") \subseteq before
      /\ \A x \in Of(before, "users") : x.val = "admin" => x \in D
  BY <1>1 DEF BackupInv, ExportInv
<1>3. file = {AsText(x) : x \in owned}
  BY QuietFile
<1>4. Base(D, "merge") = D /\ N = {x \in file : ~Skipped(D, x)}
  BY DEF Base, Inserted
<1>5. ASSUME NEW y \in file PROVE <<y.table, y.id>> \in Keys(D) \/ y \in N
  <2>0. y.table = "users" => y \in before
    <3>1. PICK x \in before : y = AsText(x)
      BY <1>3
    <3> QED BY <1>1, <3>1, AsTextIs
  <2>1. CASE ~Skipped(D, y)
    BY <1>4, <2>1
  <2>2. CASE Key(y) \in Keys(D)
    BY <2>2 DEF Key
  <2>3. CASE y.table = "users" /\ y.val = "admin"
    BY <1>2, <2>0, <2>3, KeysAre DEF Of
  <2>4. CASE y.table = "users" /\ \E z \in Of(D, "users") : z.val = y.val
    <3>1. PICK z \in Of(D, "users") : z.val = y.val
      BY <2>4
    <3>2. z = y
      BY <1>1, <1>2, <2>0, <2>4, <3>1 DEF Valid, Of
    <3> QED BY <3>2, KeysAre DEF Of
  <2> QED BY <2>1, <2>2, <2>3, <2>4 DEF Skipped
<1>6. ASSUME NEW x \in file, NEW k \in x.refs, k[1] # "groups"
      PROVE  k \in Keys(file)
  <2>1. PICK w \in owned : x = AsText(w)
    BY <1>3
  <2>2. w \in before /\ w.table = x.table /\ k \in w.refs
    BY <1>1, <1>6, <2>1, AsTextIs DEF NoGroup
  <2>3. PICK y \in before : k = <<y.table, y.id>>
    BY <1>1, <2>2, KeysAre DEF Valid, Consistent
  <2>4. scope # Nobody => y \in Owned(before, y.table, scope)
    BY <1>1, <1>6, <2>2, <2>3, OwnedClosed
  <2>5. AsText(y) \in file
    BY <1>3, <2>4
  <2>6. Key(AsText(y)) = k
    BY <1>1, <2>3, AsTextIs DEF Key
  <2> QED BY <2>5, <2>6 DEF Keys
<1>7. ASSUME Stranded = {},
             NEW i \in 1 .. Len(ImportOrder), NEW x \in Of(N, ImportOrder[i]),
             NEW k \in x.refs
      PROVE  k \in Keys(D) \cup
                   Keys({y \in N : \E j \in 1 .. i - 1 : y.table = ImportOrder[j]})
  <2>1. x \in file /\ x.table = ImportOrder[i] /\ Key(x) \notin Keys(D)
    BY <1>4 DEF Of, Skipped
  <2>2. k \in Keys(file) \cup Keys(D)
    <3>1. CASE k[1] # "groups"
      BY <1>6, <2>1, <3>1
    <3>2. CASE k[1] = "groups"
      <4>1. x.table = "devices"
        <5>1. x \in RowType /\ WellFormed(x) /\ x.table \in Tables
          BY <1>1, <2>1 DEF RowType
        <5> QED BY <3>2, <5>1, RefsAre DEF Tables
      <4> QED BY <1>7, <2>1, <3>2, <4>1 DEF Stranded, Of
    <3> QED BY <3>1, <3>2
  <2>3. CASE k \in Keys(file)
    <3>1. PICK y \in file : k = <<y.table, y.id>>
      BY <2>3, KeysAre
    <3>2. i \in 1 .. 7 /\ ExportOrder[i] = x.table /\ ImportOrder = ExportOrder
      BY <2>1, OrderIs
    <3>3. PICK j \in 1 .. i - 1 : ExportOrder[j] = k[1]
      BY <1>1, <2>1, <3>2, RefsEarlier
    <3>4. y.table = ImportOrder[j]
      BY <3>1, <3>2, <3>3
    <3> QED BY <1>5, <3>1, <3>4, KeysAre
  <2> QED BY <2>2, <2>3
<1>8. Stranded = {} => Importable(D, file, "merge")
  BY <1>4, <1>7 DEF Importable
<1>9. ASSUME Importable(D, file, "merge"), NEW x \in Stranded
      PROVE  FALSE
  <2>1. x \in file /\ x.table = "devices" /\ Key(x) \notin Keys(D)
    BY DEF Stranded, Of
  <2>2. PICK k \in x.refs : k \notin Keys(file) \cup Keys(D)
    BY DEF Stranded
  <2>3. x \in N
    BY <1>4, <2>1 DEF Skipped
  <2>4. PICK i \in 1 .. Len(ImportOrder) : ImportOrder[i] = x.table
    BY <2>1, OrderIs DEF Tables
  <2> DEFINE M == {y \in N : \E j \in 1 .. i - 1 : y.table = ImportOrder[j]}
  <2>5. k \in Keys(D) \cup Keys(M)
    BY <1>4, <1>9, <2>3, <2>4 DEF Importable, Of
  <2>6. M \subseteq file
    BY <1>4
  <2> HIDE DEF M
  <2> QED BY <2>2, <2>5, <2>6, KeysAre
<1>10. Keys(file) \subseteq Keys(Imported(D, file, "merge"))
  <2>1. Imported(D, file, "merge") = D \cup N
    BY <1>4 DEF Imported
  <2> QED BY <1>5, <2>1, KeysAre
<1> QED BY <1>8, <1>9, <1>10

-----------------------------------------------------------------------------
(* The invariant and the theorems.                                          *)

(* A hub starts with its administrator and its certificate.                 *)
LEMMA BackupStarts == BackupInit => BackupInv
<1> SUFFICES ASSUME BackupInit PROVE BackupInv
  OBVIOUS
<1> DEFINE admin(h) == Row("users", h, {}, "admin")
           tls(h) == Row("system_config", "tls", {}, h)
<1>1. ASSUME NEW h \in Hubs
      PROVE  /\ admin(h) \in RowType /\ WellFormed(admin(h))
             /\ admin(h).table = "users" /\ admin(h).refs = {}
             /\ tls(h) \in RowType /\ WellFormed(tls(h))
             /\ tls(h).table = "system_config" /\ tls(h).refs = {}
  BY DEF Row, RowType, WellFormed, Tables, Ids, Users
<1>2. /\ \A h \in Hubs : db[h] = {admin(h), tls(h)}
      /\ db = [h \in Hubs |-> {admin(h), tls(h)}]
  BY DEF BackupInit, Init
<1> HIDE DEF admin, tls
<1>3. /\ file = {} /\ before = {} /\ next = 0 /\ since = "same" /\ during = "same"
      /\ src \in Hubs /\ scope = Nobody /\ writes = 0
  BY DEF BackupInit
<1>4. BackupTypeOK
  BY <1>1, <1>2, <1>3, WritesAssumption DEF BackupTypeOK, TypeOK, Since
<1>5. \A h \in Hubs : Valid(db[h])
  BY <1>1, <1>2 DEF Valid, Consistent, Of, Key
<1>6. \A x \in AllRows(file) : \E h \in Hubs : x = admin(h) \/ x = tls(h)
  BY <1>2, <1>3 DEF AllRows
<1>7. \A x \in AllRows(file) :
         WellFormed(x) /\ (x.table = "users" \/ x.table = "system_config")
  BY <1>1, <1>6
<1>8. Sound(file)
  BY <1>5, <1>7 DEF Sound
<1>9. FileInv
  BY <1>3 DEF FileInv, Of
<1>10. Valid({})
  BY DEF Valid, Consistent, Of
<1>11. ExportInv
  BY <1>3, <1>10 DEF ExportInv, Exported
<1> QED BY <1>4, <1>8, <1>9, <1>11 DEF BackupInv

(* Every step keeps the invariant.                                          *)
LEMMA BackupSteps == BackupInv /\ [BackupNext]_vars => BackupInv'
BY SoundStep, BackupTypeStep, FileStep, ExportStep DEF BackupInv

(* The invariant holds in every state that is reached.                      *)
LEMMA BackupInvariant == BackupSpec => []BackupInv
BY BackupStarts, BackupSteps, PTL DEF BackupSpec

(* Every variable keeps its type, whatever is created, moved, deleted,      *)
(* exported and imported in whatever order.                                 *)
THEOREM BackupTypeCorrect == BackupSpec => []BackupTypeOK
<1>1. BackupInv => BackupTypeOK
  BY DEF BackupInv
<1> QED BY <1>1, BackupInvariant, PTL

(* delete_device never fails on a foreign key, after any moves and imports; *)
(* delete_group and delete_room fail exactly when update_device has put a   *)
(* device of another room into a group that goes.                           *)
THEOREM DeletionsPass == BackupSpec => []DeletionsGoThrough
<1>1. BackupInv => DeletionsGoThrough
  BY SoundDeletions DEF BackupInv, BackupTypeOK, TypeOK
<1> QED BY <1>1, BackupInvariant, PTL

(* A full backup under which nothing was created or moved can be restored   *)
(* into any hub exactly when each of its devices has a group (export_query  *)
(* writes NULL as the empty string), and restores the hub as it was if      *)
(* nothing happened.                                                        *)
THEOREM OverwriteIsRestore == BackupSpec => []OverwriteRestores
<1>1. BackupInv => OverwriteRestores
  BY Restores DEF OverwriteRestores
<1> QED BY <1>1, BackupInvariant, PTL

(* Merging a quiet backup, full or personal, into the hub it came from      *)
(* brings back whatever was deleted since, unless a deleted device had no   *)
(* group, or one that is nowhere now; then the import fails.                *)
THEOREM MergeUndoes == BackupSpec => []MergeUndoesDeletions
<1>1. BackupInv => MergeUndoesDeletions
  BY Undoes DEF MergeUndoesDeletions
<1> QED BY <1>1, BackupInvariant, PTL

===============================================================================
