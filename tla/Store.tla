-------------------------------- MODULE Store --------------------------------
(***************************************************************************)
(* The tables of the hub's SQLite database and the operations of db.rs     *)
(* that add, move and remove rows, for several hubs: a row may travel from *)
(* one to another in a backup (module Backup).                             *)
(*                                                                         *)
(* A database is a set of rows.  A row is told by its table and id; what   *)
(* matters of its columns is which rows it refers to (its foreign keys)    *)
(* and, for users and system_config, a value.  A statement that would      *)
(* break a constraint fails, and with it its transaction; a transaction is *)
(* one step, as SQLite has one writer.                                     *)
(***************************************************************************)
EXTENDS Naturals, Sequences, FiniteSets

CONSTANTS
    Hubs,       \* installations; each also stands for the id of its admin
    Owners,     \* ids of ordinary users
    Rooms, Groups, Devices,
    Logs        \* ids of rows of events and config_pushes

(* No user but a hub's administrator is the administrator.                  *)
ASSUME OwnersAssumption == Hubs \cap Owners = {} /\ "admin" \notin Owners
(* Groups have UUIDs for ids.  "empty" stands for the empty string.         *)
ASSUME GroupIdsAssumption == "empty" \notin Groups

VARIABLE db     \* db[h]: the rows of hub h

-----------------------------------------------------------------------------
Tables == {"users", "rooms", "groups", "devices", "events", "config_pushes",
           "system_config"}
Users  == Hubs \cup Owners
Ids    == Users \cup Rooms \cup Groups \cup Devices \cup Logs \cup {"tls"}

Row(t, i, refs, v) == [table |-> t, id |-> i, refs |-> refs, val |-> v]
Key(x)   == <<x.table, x.id>>
Keys(D)  == {Key(x) : x \in D}
Of(D, t) == {x \in D : x.table = t}

(* FOREIGN KEY, PRIMARY KEY and UNIQUE(username) of the schema.             *)
Consistent(D) == LET keys == Keys(D) IN \A x \in D : x.refs \subseteq keys
Valid(D) ==
    /\ Consistent(D)
    /\ \A x, y \in D : Key(x) = Key(y) => x = y
    /\ \A x, y \in Of(D, "users") : x.val = y.val => x = y

(* A file may name a group "empty", see Backup; no row of a database does.  *)
RowType == [table : Tables, id : Ids, refs : SUBSET (Tables \X (Ids \cup {"empty"})),
            val : Users \cup {"admin", ""}]

TypeOK == db \in [Hubs -> SUBSET RowType]

(* ensure_admin and ensure_tls_cert have run: an administrator with an id   *)
(* of its own, a certificate and its key.                                   *)
Init ==
    db = [h \in Hubs |-> {Row("users", h, {}, "admin"),
                          Row("system_config", "tls", {}, h)}]

-----------------------------------------------------------------------------
(* Statements.                                                              *)

Commit(h, D) == Valid(D) /\ db' = [db EXCEPT ![h] = D]

Insert(h, x) == Key(x) \notin Keys(db[h]) /\ Commit(h, db[h] \cup {x})

InRoom(x, r)  == <<"rooms", r>> \in x.refs
InGroup(x, g) == <<"groups", g>> \in x.refs
OnDevice(x)   == {k \in x.refs : k[1] = "devices"}

(* The row with its group replaced; g = {} is NULL.                         *)
Regroup(x, g) ==
    [x EXCEPT !.refs = {k \in @ : k[1] # "groups"} \cup {<<"groups", i>> : i \in g}]

(* Operations that add rows.                                                *)
Register(h, u)      == Insert(h, Row("users", u, {}, u))
CreateRoom(h, r, u) == Insert(h, Row("rooms", r, {<<"users", u>>}, ""))
CreateGroup(h, g, r) == Insert(h, Row("groups", g, {<<"rooms", r>>}, ""))
HelloDevice(h, d, r) == Insert(h, Row("devices", d, {<<"rooms", r>>}, ""))
Report(h, t, l, d)  == Insert(h, Row(t, l, {<<"devices", d>>}, ""))

PutInto(h, x, g) == Commit(h, (db[h] \ {x}) \cup {Regroup(x, g)})

(* set_device_group: the group is looked for in the room of the device.     *)
SetDeviceGroup(h, d, g) ==
    \E x \in Of(db[h], "devices") :
        /\ x.id = d
        /\ \A i \in g : \E y \in Of(db[h], "groups") :
             y.id = i /\ \E r \in Rooms : InRoom(x, r) /\ InRoom(y, r)
        /\ PutInto(h, x, g)

(* update_device, the group of the request or the one it read before (maybe *)
(* none): only the foreign key looks at it, so it may be of another room.   *)
UpdateDevice(h, d, g) ==
    \E x \in Of(db[h], "devices") : x.id = d /\ PutInto(h, x, g)

(* Mutant of RoomDeletion: the rows of events are forgotten.                *)
RoomDeletionKeepsEvents(D, r) ==
    LET devices == {x \in Of(D, "devices") : InRoom(x, r)}
        D1 == D \ {x \in Of(D, "config_pushes") : OnDevice(x) \subseteq Keys(devices)}
        D3 == D1 \ devices
        D4 == D3 \ {x \in Of(D, "groups") : InRoom(x, r)}
        D5 == D4 \ {x \in Of(D, "rooms") : x.id = r}
    IN <<D1, D3, D4, D5>>

(* The database after each statement of the transaction of delete_room, and *)
(* below of delete_group and delete_device.                                 *)
RoomDeletion(D, r) ==
    LET devices == {x \in Of(D, "devices") : InRoom(x, r)}
        D1 == D \ {x \in Of(D, "config_pushes") : OnDevice(x) \subseteq Keys(devices)}
        D2 == D1 \ {x \in Of(D, "events") : OnDevice(x) \subseteq Keys(devices)}
        D3 == D2 \ devices
        D4 == D3 \ {x \in Of(D, "groups") : InRoom(x, r)}
        D5 == D4 \ {x \in Of(D, "rooms") : x.id = r}
    IN <<D1, D2, D3, D4, D5>>

GroupDeletion(D, g, r) ==
    LET members == {x \in Of(D, "devices") : InRoom(x, r) /\ InGroup(x, g)}
        D1 == (D \ members) \cup {Regroup(x, {}) : x \in members}
        D2 == D1 \ {x \in Of(D, "groups") : x.id = g /\ InRoom(x, r)}
    IN <<D1, D2>>

DeviceDeletion(D, d, r) ==
    LET D1 == D \ {x \in Of(D, "config_pushes") : OnDevice(x) = {<<"devices", d>>}}
        D2 == D1 \ {x \in Of(D, "events") : OnDevice(x) = {<<"devices", d>>}}
        D3 == D2 \ {x \in Of(D, "devices") : x.id = d /\ InRoom(x, r)}
    IN <<D1, D2, D3>>

(* Foreign keys are checked at each statement.                              *)
GoesThrough(stages) == \A i \in 1 .. Len(stages) : Consistent(stages[i])

Transact(h, stages) == GoesThrough(stages) /\ Commit(h, stages[Len(stages)])

HasRoom(h, r) == <<"rooms", r>> \in Keys(db[h])

DeleteRoom(h, r)      == HasRoom(h, r) /\ Transact(h, RoomDeletion(db[h], r))
DeleteGroup(h, g, r)  == HasRoom(h, r) /\ Transact(h, GroupDeletion(db[h], g, r))
DeleteDevice(h, d, r) == HasRoom(h, r) /\ Transact(h, DeviceDeletion(db[h], d, r))

(* delete_account: refused by the foreign key while the user has rooms.     *)
DeleteAccount(h, u) == Commit(h, {x \in db[h] : Key(x) # <<"users", u>>})

-----------------------------------------------------------------------------
(* Ids are random (UUIDs, 64-bit room ids): a new row never gets an id that *)
(* is in `taken`.                                                           *)
Create(h, taken) ==
    \/ \E u \in Owners : <<"users", u>> \notin taken /\ Register(h, u)
    \/ \E r \in Rooms, u \in Users :
         <<"rooms", r>> \notin taken /\ CreateRoom(h, r, u)
    \/ \E g \in Groups, r \in Rooms :
         <<"groups", g>> \notin taken /\ CreateGroup(h, g, r)
    \/ \E d \in Devices, r \in Rooms :
         <<"devices", d>> \notin taken /\ HelloDevice(h, d, r)
    \/ \E t \in {"events", "config_pushes"}, l \in Logs, d \in Devices :
         <<t, l>> \notin taken /\ Report(h, t, l, d)

Move(h) ==
    \E d \in Devices, g \in {{}} \cup {{i} : i \in Groups} :
        SetDeviceGroup(h, d, g) \/ UpdateDevice(h, d, g)

Delete(h) ==
    \/ \E r \in Rooms : DeleteRoom(h, r)
    \/ \E g \in Groups, r \in Rooms : DeleteGroup(h, g, r)
    \/ \E d \in Devices, r \in Rooms : DeleteDevice(h, d, r)
    \/ \E u \in Owners : DeleteAccount(h, u)

Taken == UNION {Keys(db[h]) : h \in Hubs}

Next == \E h \in Hubs : Create(h, Taken) \/ Move(h) \/ Delete(h)

Spec == Init /\ [][Next]_db

-----------------------------------------------------------------------------
(* Properties.                                                              *)

(* What the columns of each table refer to, and who users are.              *)
WellFormed(x) ==
    /\ x.table = "users" =>
         /\ x.refs = {}
         /\ (x.id \in Hubs /\ x.val = "admin") \/ (x.id \in Owners /\ x.val = x.id)
    /\ x.table = "rooms"  => \E u \in Users : x.refs = {<<"users", u>>}
    /\ x.table = "groups" => x.id \in Groups /\ \E r \in Rooms : x.refs = {<<"rooms", r>>}
    /\ x.table = "devices" =>
         \E r \in Rooms :
            \/ x.refs = {<<"rooms", r>>}
            \/ \E g \in Groups \cup {"empty"} : x.refs = {<<"rooms", r>>, <<"groups", g>>}
    /\ x.table \in {"events", "config_pushes"} =>
         \E d \in Devices : x.refs = {<<"devices", d>>}
    /\ x.table = "system_config" => x.refs = {}

(* All rows there are, `more` being those of a backup's file.               *)
AllRows(more) == more \cup UNION {db[h] : h \in Hubs}

(* What keeps the transactions from failing on a constraint.                *)
Sound(more) ==
    /\ \A x \in AllRows(more) : WellFormed(x)
    /\ \A h \in Hubs : Valid(db[h])

(* Devices of other rooms in a group g of room r.                           *)
Strangers(D, g, r) ==
    {x \in Of(D, "devices") :
        /\ InGroup(x, g) /\ ~InRoom(x, r)
        /\ \E y \in Of(D, "groups") : y.id = g /\ InRoom(y, r)}

(* The transactions that delete a device, a group or a room take away, in   *)
(* an order the foreign keys accept, what they know to hang on it.  Deleting *)
(* a device never fails on a constraint; deleting a group, or a room, fails *)
(* exactly when update_device has put a device of another room into it, or  *)
(* into one of its groups - whatever else was attached, moved, imported or  *)
(* deleted before.                                                          *)
DeletionsGoThrough ==
    \A h \in Hubs, r \in Rooms :
        /\ GoesThrough(RoomDeletion(db[h], r))
              <=> \A g \in Groups : Strangers(db[h], g, r) = {}
        /\ \A g \in Groups :
             GoesThrough(GroupDeletion(db[h], g, r)) <=> Strangers(db[h], g, r) = {}
        /\ \A x \in Of(db[h], "devices") :
             InRoom(x, r) => GoesThrough(DeviceDeletion(db[h], x.id, r))
=============================================================================
