-------------------------------- MODULE Startup --------------------------------
(***************************************************************************)
(* From process start to the open listeners: schema and columns, the       *)
(* administrator, certificate and key, one statement after the other, with *)
(* the process stopping between any two of them; and what a served hub     *)
(* does to the same rows: registrations, deleted accounts, imports.        *)
(*                                                                         *)
(* A start generates at most one certificate and key; a pair is the number *)
(* of the start that made it.  Pair 0 is no row.                           *)
(***************************************************************************)
EXTENDS Naturals

CONSTANTS
    Columns,    \* columns of devices that older versions did not have
    Users,      \* usernames other than "admin"
    MaxStarts   \* bound: starts of the process

ASSUME UsersAssumption  == "admin" \notin Users
ASSUME StartsAssumption == MaxStarts \in Nat \ {0}

VARIABLES
    phase,      \* the statement of main that comes next
    starts,
    missing,    \* of ensure_device_runtime_columns: what PRAGMA did not list
    cols,       \* the columns that table devices has
    role,       \* table users: the role of a username, or "none"
    tls,        \* system_config: the pairs that tls_cert and tls_key are of
    served,     \* cert_pem and key_pem, which the listeners were given
    file,       \* a backup file: its users and its system_config
    replaced    \* history: an overwrite replaced the users since the last start

tables == <<cols, role, tls>>
main   == <<phase, starts, missing, served>>
hub    == <<main, tables, file, replaced>>

-----------------------------------------------------------------------------
Names   == Users \cup {"admin"}
Roles   == {"none", "user", "admin"}
Foreign == MaxStarts + 1            \* the pair of another hub
NoPair  == [cert |-> 0, key |-> 0]
Pair(n) == [cert |-> n, key |-> n]
Pairs   == [cert : 0 .. Foreign, key : 0 .. Foreign]

StartupTypeOK ==
    /\ phase \in {"down", "columns", "count_admin", "insert_admin", "tls_get",
                  "set_cert", "set_key", "load", "serving"}
    /\ starts \in 0 .. MaxStarts
    /\ missing \subseteq Columns /\ cols \subseteq Columns
    /\ role \in [Names -> Roles]
    /\ tls \in Pairs /\ served \in Pairs
    /\ file \in [role : [Names -> Roles], tls : Pairs]
    /\ replaced \in BOOLEAN

(* A new database, or one of an older version; a backup of another hub.     *)
StartupInit ==
    /\ phase = "down" /\ starts = 0 /\ missing = {} /\ served = NoPair
    /\ cols \in SUBSET Columns
    /\ role = [n \in Names |-> "none"]
    /\ tls = NoPair
    /\ file = [role |-> [n \in Names |-> IF n = "admin" THEN "admin" ELSE "user"],
               tls  |-> Pair(Foreign)]
    /\ replaced = FALSE

-----------------------------------------------------------------------------
(* main.                                                                    *)

(* The process starts: CREATE TABLE IF NOT EXISTS for every table, then     *)
(* PRAGMA table_info(devices).                                              *)
Start ==
    /\ phase = "down" /\ starts < MaxStarts
    /\ phase' = "columns" /\ starts' = starts + 1
    /\ missing' = Columns \ cols
    /\ UNCHANGED <<tables, served, file, replaced>>

AddColumn(c) ==
    /\ phase = "columns" /\ c \in missing
    /\ missing' = missing \ {c} /\ cols' = cols \cup {c}
    /\ UNCHANGED <<phase, starts, role, tls, served, file, replaced>>

ColumnsDone ==
    /\ phase = "columns" /\ missing = {}
    /\ phase' = "count_admin"
    /\ UNCHANGED <<starts, missing, tables, served, file, replaced>>

(* Mutant of AdminCounted: any user will do.                                *)
AnybodyCounted == \E n \in Names : role[n] # "none"

(* ensure_admin: SELECT COUNT ... WHERE username = 'admin'.                 *)
AdminCounted == role["admin"] # "none"

CountAdmin ==
    /\ phase = "count_admin"
    /\ phase' = IF AdminCounted THEN "tls_get" ELSE "insert_admin"
    /\ UNCHANGED <<starts, missing, tables, served, file, replaced>>

InsertAdmin ==
    /\ phase = "insert_admin"
    /\ role' = [role EXCEPT !["admin"] = "admin"]
    /\ phase' = "tls_get"
    /\ UNCHANGED <<starts, missing, cols, tls, served, file, replaced>>

(* Mutant of HasPair: only one of the two is looked for.                    *)
HasCert == tls.cert # 0

HasPair == tls.cert # 0 /\ tls.key # 0

(* ensure_tls_cert: two SELECTs, while nobody else writes.                  *)
TlsGet ==
    /\ phase = "tls_get"
    /\ phase' = IF HasPair THEN "load" ELSE "set_cert"
    /\ UNCHANGED <<starts, missing, tables, served, file, replaced>>

(* Mutant of SetCert: INSERT OR IGNORE, a certificate that is there stays.  *)
SetCertIfNone ==
    /\ phase = "set_cert"
    /\ tls' = [tls EXCEPT !.cert = IF @ = 0 THEN starts ELSE @]
    /\ phase' = "set_key"
    /\ UNCHANGED <<starts, missing, cols, role, served, file, replaced>>

(* The pair is generated; system_set writes the one, then the other.        *)
SetCert ==
    /\ phase = "set_cert"
    /\ tls' = [tls EXCEPT !.cert = starts]
    /\ phase' = "set_key"
    /\ UNCHANGED <<starts, missing, cols, role, served, file, replaced>>

SetKey ==
    /\ phase = "set_key"
    /\ tls' = [tls EXCEPT !.key = starts]
    /\ phase' = "load"
    /\ UNCHANGED <<starts, missing, cols, role, served, file, replaced>>

(* tls_pem and the listeners; without a row main returns the error.         *)
Load ==
    /\ phase = "load"
    /\ IF tls.cert # 0 /\ tls.key # 0
         THEN phase' = "serving" /\ served' = tls
         ELSE phase' = "down" /\ served' = NoPair
    /\ replaced' = FALSE
    /\ UNCHANGED <<starts, missing, tables, file>>

(* The process stops, at any point; also when a listener's try_join fails.  *)
Stop ==
    /\ phase # "down" /\ starts < MaxStarts
    /\ phase' = "down" /\ missing' = {} /\ served' = NoPair
    /\ UNCHANGED <<starts, tables, file, replaced>>

MainStep ==
    \/ Start \/ ColumnsDone \/ CountAdmin \/ InsertAdmin
    \/ TlsGet \/ SetCert \/ SetKey \/ Load
    \/ \E c \in Columns : AddColumn(c)

-----------------------------------------------------------------------------
(* Requests that change the same rows.                                      *)

Serving == phase = "serving"

(* register: any name that is free, "admin" too.                            *)
Register(n) ==
    /\ Serving
    /\ role[n] = "none"
    /\ role' = [role EXCEPT ![n] = "user"]
    /\ UNCHANGED <<main, cols, tls, file, replaced>>

(* delete_account, by the token's id; not for an administrator's token, nor *)
(* for the name "admin".                                                    *)
DeleteAccount(n) ==
    /\ Serving
    /\ n # "admin" /\ role[n] = "user"
    /\ role' = [role EXCEPT ![n] = "none"]
    /\ UNCHANGED <<main, cols, tls, file, replaced>>

(* export_backup, of the whole hub and of one user.                         *)
ExportFull ==
    /\ Serving
    /\ file' = [role |-> role, tls |-> tls]
    /\ UNCHANGED <<main, tables, replaced>>

ExportUser(n) ==
    /\ Serving /\ role[n] # "none"
    /\ file' = [role |-> [m \in Names |-> IF m = n THEN role[n] ELSE "none"],
                tls  |-> NoPair]
    /\ UNCHANGED <<main, tables, replaced>>

(* import_backup of the file, one transaction.  Administrators' tokens last *)
(* a day and survive restarts and imports, so it is open to them throughout.*)
Overwrite ==
    /\ Serving
    /\ role' = file.role /\ tls' = file.tls
    /\ replaced' = TRUE
    /\ UNCHANGED <<main, cols, file>>

(* INSERT OR IGNORE; the administrator's row is skipped.                    *)
Merge ==
    /\ Serving
    /\ role' = [n \in Names |-> IF n = "admin" \/ role[n] # "none"
                                THEN role[n] ELSE file.role[n]]
    /\ tls' = [cert |-> IF tls.cert # 0 THEN tls.cert ELSE file.tls.cert,
               key  |-> IF tls.key  # 0 THEN tls.key  ELSE file.tls.key]
    /\ UNCHANGED <<main, cols, file, replaced>>

AccountStep ==
    \/ \E n \in Names : Register(n) \/ DeleteAccount(n) \/ ExportUser(n)
    \/ ExportFull \/ Overwrite \/ Merge

-----------------------------------------------------------------------------
(* Properties.                                                              *)

(* Whoever is connected gets a certificate together with its own key, and   *)
(* every statement finds its columns, however often earlier starts were     *)
(* interrupted and whatever was imported.                                   *)
ServesPair ==
    Serving => served.cert = served.key /\ served.cert # 0 /\ cols = Columns

(* A served hub has an account "admin", until an overwrite with a backup    *)
(* that has none; the next start brings it back.                            *)
AdminThere == Serving /\ ~replaced => role["admin"] # "none"

(* How far a start has come, at each of its statements: a key is never in   *)
(* the table without its certificate, nor either in a backup without the    *)
(* other; ensure_tls_cert can be cut short after the certificate only.      *)
StartupInv ==
    /\ phase # "down" => starts # 0
    /\ phase = "columns" => missing = Columns \ cols
    /\ phase \notin {"down", "columns"} => cols = Columns
    /\ phase \in {"tls_get", "set_cert", "set_key", "load"} => role["admin"] # "none"
    /\ tls.key # 0 => tls.cert = tls.key
    /\ phase \in {"set_cert", "set_key"} => tls.key = 0
    /\ phase = "set_key" => tls.cert = starts
    /\ phase = "load" => tls.key # 0
    /\ Serving => tls.cert = tls.key
    /\ file.tls.cert = file.tls.key
    /\ ServesPair /\ AdminThere

(* The hub comes up again after its last stop.                              *)
ServesAgain == []<>(Serving \/ starts < MaxStarts)
=============================================================================
