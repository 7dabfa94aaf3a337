------------------------------- MODULE Backup -------------------------------
(***************************************************************************)
(* Backups: export_backup and export_user_backup read the tables one       *)
(* SELECT after the other while other requests write; import_backup        *)
(* replays the file in one transaction, into the same or another hub, in   *)
(* one of its two modes.                                                   *)
(***************************************************************************)
EXTENDS Store

CONSTANTS Nobody,       \* the scope of a full export
          MaxWrites     \* bound: operations that add or move rows

ASSUME NobodyAssumption == Nobody \notin Users
ASSUME WritesAssumption == MaxWrites \in Nat

VARIABLES
    file,       \* rows read so far
    src,        \* the hub the export reads
    scope,      \* Nobody: everything; u: what u owns
    next,       \* the SELECT to execute; past the end the file is complete
    before,     \* history: the rows of src when the export began
    since,      \* history: how src was written since: "same", "deleted", "written"
    during,     \* history: `since` when the export ended
    writes

export  == <<file, src, scope, next, before>>
history == <<since, during>>
vars    == <<db, export, history, writes>>

-----------------------------------------------------------------------------
Complete == next > 7        \* all seven tables have been read
Reading  == next > 0 /\ ~Complete

Since == {"same", "deleted", "written"}

BackupTypeOK ==
    /\ TypeOK
    /\ file \subseteq RowType
    /\ before \subseteq RowType
    /\ src \in Hubs
    /\ scope \in Users \cup {Nobody}
    /\ next \in 0 .. 8
    /\ since \in Since /\ during \in Since
    /\ writes \in 0 .. MaxWrites

BackupInit ==
    /\ Init
    /\ file = {}
    /\ src \in Hubs
    /\ scope = Nobody
    /\ next = 0
    /\ before = {}
    /\ since = "same" /\ during = "same"
    /\ writes = 0

-----------------------------------------------------------------------------
(* Export.                                                                  *)

(* Mutant of ExportOrder: devices before the groups they refer to.          *)
ExportOrderDevicesFirst ==
    <<"users", "rooms", "devices", "groups", "events", "config_pushes",
      "system_config">>

(* The fields of BackupData, evaluated in this order.                       *)
ExportOrder ==
    <<"users", "rooms", "groups", "devices", "events", "config_pushes",
      "system_config">>

(* The rows of a table that belong to u, through the JOINs of               *)
(* export_user_backup.                                                      *)
RoomsOf(D, u)   == {x \in Of(D, "rooms") : <<"users", u>> \in x.refs}
DevicesOf(D, u) == {x \in Of(D, "devices") : x.refs \cap Keys(RoomsOf(D, u)) # {}}

Owned(D, t, u) ==
    CASE t = "users"   -> {x \in Of(D, t) : x.id = u}
      [] t = "rooms"   -> RoomsOf(D, u)
      [] t = "groups"  -> {x \in Of(D, t) : x.refs \cap Keys(RoomsOf(D, u)) # {}}
      [] t = "devices" -> DevicesOf(D, u)
      [] t \in {"events", "config_pushes"} ->
            {x \in Of(D, t) : x.refs \cap Keys(DevicesOf(D, u)) # {}}
      [] t = "system_config" -> {}

(* Mutant of StartExport: a scope that does not exist is not refused.       *)
StartExportUnchecked(h, s) ==
    /\ ~Reading
    /\ s = Nobody
    /\ src' = h
    /\ scope' = "unknown"
    /\ next' = 1
    /\ file' = {}
    /\ before' = db[h]
    /\ since' = "same" /\ during' = "same"
    /\ UNCHANGED <<db, writes>>

(* An administrator asks for everything, anybody for what is theirs; the    *)
(* new file takes the place of an older one.                                *)
StartExport(h, s) ==
    /\ ~Reading
    /\ s = Nobody \/ <<"users", s>> \in Keys(db[h])
    /\ src' = h
    /\ scope' = s
    /\ next' = 1
    /\ file' = {}
    /\ before' = db[h]
    /\ since' = "same" /\ during' = "same"
    /\ UNCHANGED <<db, writes>>

(* export_query asks each column for a String first, and gets an empty one  *)
(* for NULL: a device without a group has the group "empty" in the file.    *)
NoGroup == <<"groups", "empty">>
AsText(x) ==
    IF x.table = "devices" /\ \A k \in x.refs : k[1] # "groups"
    THEN [x EXCEPT !.refs = @ \cup {NoGroup}] ELSE x

ExportTable ==
    /\ Reading
    /\ LET t == ExportOrder[next] IN
       file' = file \cup {AsText(x) : x \in IF scope = Nobody THEN Of(db[src], t)
                                            ELSE Owned(db[src], t, scope)}
    /\ next' = next + 1
    /\ during' = since
    /\ UNCHANGED <<db, src, scope, before, since, writes>>

-----------------------------------------------------------------------------
(* Import.                                                                  *)

(* Mutant of ImportOrder: devices before the groups they refer to.          *)
ImportOrderDevicesFirst ==
    <<"users", "rooms", "devices", "groups", "events", "config_pushes",
      "system_config">>

ImportOrder ==
    <<"users", "rooms", "groups", "devices", "events", "config_pushes",
      "system_config">>

(* Mutant of Skipped: no user is imported by a merge.                       *)
SkippedUsers(D, x) == Key(x) \in Keys(D) \/ x.table = "users"

(* In a merge the row of the administrator is skipped, and INSERT OR IGNORE *)
(* skips a row whose id, or whose username, is there.                       *)
Skipped(D, x) ==
    \/ Key(x) \in Keys(D)
    \/ x.table = "users" /\ x.val = "admin"
    \/ x.table = "users" /\ \E y \in Of(D, "users") : y.val = x.val

(* An overwrite starts from empty tables (and replaces).                    *)
Base(D, mode)        == IF mode = "overwrite" THEN {} ELSE D
Inserted(D, F, mode) == IF mode = "overwrite" THEN F ELSE {x \in F : ~Skipped(D, x)}
Imported(D, F, mode) == Base(D, mode) \cup Inserted(D, F, mode)

(* Foreign keys are checked as each row is inserted: neither OR IGNORE nor  *)
(* OR REPLACE excuses them, nor is the empty string NULL to them, and one   *)
(* that fails undoes the whole import.                                      *)
Importable(D, F, mode) ==
    \A i \in 1 .. Len(ImportOrder) :
        \A x \in Of(Inserted(D, F, mode), ImportOrder[i]) :
            x.refs \subseteq
                Keys(Base(D, mode)) \cup
                Keys({y \in Inserted(D, F, mode) :
                        \E j \in 1 .. i - 1 : y.table = ImportOrder[j]})

Import(h, mode) ==
    /\ Complete
    /\ Importable(db[h], file, mode)
    /\ db' = [db EXCEPT ![h] = Imported(@, file, mode)]
    /\ since' = IF h = src /\ db'[h] # db[h] THEN "written" ELSE since
    /\ UNCHANGED <<export, during, writes>>

-----------------------------------------------------------------------------
(* Ids that are in a hub, in the file, or referred to by a row of the file. *)
Seen == Taken \cup Keys(file) \cup UNION {x.refs : x \in file}

(* A move into the group a device is in is no step.                         *)
Written(h) ==
    /\ writes < MaxWrites /\ db'[h] # db[h]
    /\ writes' = writes + 1
    /\ since' = IF h = src THEN "written" ELSE since
    /\ UNCHANGED <<export, during>>

Deleted(h) ==
    /\ since' = IF h = src /\ since = "same" /\ db'[h] # db[h] THEN "deleted" ELSE since
    /\ UNCHANGED <<export, during, writes>>

BackupNext ==
    \/ \E h \in Hubs :
         \/ Create(h, Seen) /\ Written(h)
         \/ Move(h) /\ Written(h)
         \/ Delete(h) /\ Deleted(h)
         \/ \E s \in Users \cup {Nobody} : StartExport(h, s)
         \/ \E mode \in {"merge", "overwrite"} : Import(h, mode)
    \/ ExportTable

BackupSpec == BackupInit /\ [][BackupNext]_vars

-----------------------------------------------------------------------------
(* Properties.                                                              *)

(* What was read so far, and what a quiet export finds there.               *)
Read == {ExportOrder[i] : i \in 1 .. next - 1}
Exported(D) ==
    {AsText(x) : x \in
        {y \in D : y.table \in Read /\
                   (scope = Nobody \/ y \in Owned(D, y.table, scope))}}

(* The file holds what the tables held when they were read, each at once.   *)
FileInv ==
    /\ \A x \in file : x.table \in Read
    /\ \A x, y \in file : Key(x) = Key(y) => x = y
    /\ \A x, y \in Of(file, "users") : x.val = y.val => x = y

(* While nothing is written, tables only lose rows, and never the           *)
(* administrator; so what a row of the file refers to was read before it.   *)
ExportInv ==
    /\ since = "same" => during = "same" /\ (next > 0 => db[src] = before)
    /\ since # "written" => during # "written"
    /\ since # "written" /\ next > 0 =>
         /\ Keys(db[src]) \subseteq Keys(before)
         /\ Of(db[src], "users") \subseteq before
         /\ \A x \in Of(before, "users") : x.val = "admin" => x \in db[src]
         /\ scope = Nobody =>
              \A x \in db[src] : x.table \in Read => Key(x) \in Keys(file)
    /\ scope = Nobody /\ during # "written" =>
         \A x \in file : x.refs \subseteq Keys(file) \cup {NoGroup}
    /\ during = "same" => file = Exported(before)
    /\ \A x \in before : WellFormed(x)
    /\ Valid(before)

BackupInv == BackupTypeOK /\ Sound(file) /\ FileInv /\ ExportInv

(* A full backup of a hub on which nothing was created or moved while the   *)
(* seven SELECTs ran can be restored with `overwrite`, into any hub, exactly *)
(* when each of its devices has a group; and when nothing at all happened   *)
(* meanwhile, the result is the hub as it was.                              *)
OverwriteRestores ==
    Complete /\ scope = Nobody /\ during # "written" =>
        \A h \in Hubs :
            /\ Importable(db[h], file, "overwrite")
                  <=> \A x \in file : NoGroup \notin x.refs
            /\ during = "same" /\ Importable(db[h], file, "overwrite") =>
                  Imported(db[h], file, "overwrite") = before

(* Devices of the file that are gone from the hub and had no group, or one  *)
(* (of somebody else's room, in a personal backup) that is nowhere now.     *)
Stranded ==
    {x \in Of(file, "devices") :
        /\ Key(x) \notin Keys(db[src])
        /\ \E k \in x.refs : k[1] = "groups" /\ k \notin Keys(file) \cup Keys(db[src])}

(* Whatever is deleted after a quiet backup, full or personal, is brought   *)
(* back by merging the file into the hub it came from, row for row, unless  *)
(* a device is stranded; then nothing is.  (That a surviving device was in  *)
(* a group that is back again is not brought back: its own row is skipped.) *)
MergeUndoesDeletions ==
    Complete /\ during = "same" /\ since # "written" =>
        /\ Importable(db[src], file, "merge") <=> Stranded = {}
        /\ Stranded = {} =>
              Keys(file) \subseteq Keys(Imported(db[src], file, "merge"))

(* README: the file of a full export "can be used to migrate".  It can be   *)
(* imported, also when the hub was in use while it was made.                *)
ExportMigrates ==
    Complete /\ scope = Nobody =>
        \A h \in Hubs : Importable(db[h], file, "overwrite")

(* README: "merge: by ID, records that exist are skipped".  Into whatever   *)
(* hub a quiet full backup is merged, each of its records is there          *)
(* afterwards; only accounts whose username is taken may be missing.        *)
MergeIsById ==
    Complete /\ scope = Nobody /\ during = "same" =>
        \A h \in Hubs :
            /\ Importable(db[h], file, "merge")
            /\ \A x \in file : x.table # "users" =>
                 Key(x) \in Keys(Imported(db[h], file, "merge"))
=============================================================================
