# vnt-hub: a verification development

TLA+ models of `vnt-hub` (the Rust console that configures `vnt` clients), TLC
runs over small instances of them, and TLAPS proofs for every instance. Every
definition is translated from the code under `src/src/`; `PROJECT.json` maps it
to its lines.

## 1. The system

One process, one SQLite database (WAL mode, a pool of eight connections,
foreign keys enforced), three listeners: web API and pages (`:29876`), client
console (`:29878`, HTTP, TLS, WebSocket and raw TCP on one port, told apart by the first
byte) and UDP on the console's address.

| Component | State it keeps | Operations | Interacts with |
|---|---|---|---|
| Stream sessions (`client_api.rs` 43-160, 260-351) | one task per connection; an inbound and an outbound unbounded channel; a send and a receive task | Hello, receive loop, end of session | device rows, registry, pushes |
| UDP sessions (`client_api.rs` 162-258) | map peer address -> device id | Hello, message, Disconnect; one loop for all peers | the same |
| Registry `AppState.clients` (`state.rs`) | device id -> sender, behind an `RwLock` | insert (Hello), get (push), remove (end, Disconnect, kick, delete, new token) | sessions, web requests |
| Device rows (`db.rs` 252-397) | status, token, group, recorded version, runtime columns | Hello, kick, delete, new token, PATCH | sessions, web requests |
| Groups and pushes (`db.rs` 399-732, `api.rs` 274-490, `client_api.rs` 399-590) | configuration and `config_version` per group, `config_pushes` | create, edit, delete, assign, push, ack, report, synchronise | sessions, registry |
| Rooms, users (`db.rs` 162-250, `api.rs` 112-213) | rows | create, delete, register, delete account | foreign keys |
| Backup (`db.rs` 875-1178) | none | export (7 SELECTs), import (one transaction) | every table |
| Start-up (`db.rs` 22-149, `main.rs`) | schema, missing columns, admin, certificate | on every start | every table |
| Events (`client_api.rs` 359-398, `api.rs` 510-554) | `events` rows, a broadcast channel of 1024 | report, list, live stream | sessions |
| Login (`api.rs` 76-110, 694-721, `auth.rs`) | failure counters, signed tokens | login, lock-out, verification | users |
| Listener (`http_server.rs`) | first byte, replayed by `PrefixedStream` | protocol detection | sessions, API |

What is hard here: every SQL statement is a suspension point, so handlers of
different tasks interleave statement by statement; the database and the
registry are updated one after the other, never together; a browser that goes
away makes hyper drop its handler between two steps; connections break with messages
under way; the process may stop at any point while rows say `online`; versions
are compared as plain numbers; and exports are not transactions. The hazards are
listed one by one, at their lines, in `PROJECT.json`.

What makes each component correct:

* sessions, registry and rows: no device is shown online without a session that
  will mark it offline; the registry only leads to living sessions of the right
  device; a revoked session cannot be reached; a connected one can; the order of
  messages on a connection; a row's life follows the documented statuses;
* configuration: a version identifies a content; a device converges to its
  group's current configuration; what was pushed arrives;
* tables: a device, a group or a room can be deleted, whatever the hub itself attached to it;
  what cannot is a group, or the room of a group, that `update_device` gave to another room's device;
* backup: what was exported can be imported, and means the same afterwards;
* start-up: when the hub serves, certificate and key belong together and there
  is an administrator, wherever an earlier start was interrupted;
* login: three failures that no success comes between, and nothing less, lock a source out, for
  ten minutes, and logins under way at the same time add no more than themselves;
* events: stored before they are announced, in order for every subscriber.

## 2. The modules

| Module | Models | Used by |
|---|---|---|
| `DeviceLifecycle` | abstract: what may ever happen to `devices.status` | refined by `Sessions` and `UdpSessions` |
| `Sessions` | stream sessions, registry, device rows, web requests on a device | `Reachability`, `MCSessions`, `SessionsProofs` |
| `Reachability` | `Sessions` with the memory of which devices had overlapping sessions or requests | `MCReachability`, `ReachabilityProofs` |
| `UdpSessions` | the UDP loop, `peers`, registry, device rows, web requests | `MCUdpSessions`, `UdpSessionsProofs` |
| `ConfigSync` | group configurations from the editor to the device | `MCConfigSync`, `ConfigSyncProofs` |
| `Events` | reports, runtime columns, `events`, the broadcast channel, list and live stream | `MCEvents`, `EventsProofs` |
| `Store` | tables, constraints, operations that add, move and delete rows | `Backup` |
| `Backup` | exports and imports, composed with every operation of `Store` | `MCBackup`, `BackupProofs` |
| `Startup` | a start of the process, statement by statement, and the requests that change the same rows | `Accounts` |
| `Accounts` | `Startup` composed with login and its lock-out | `MCAccounts`, `AccountsProofs` |
| `ByteStream` | abstract: what a protocol handler may expect of a connection | refined by `Listener` |
| `Listener` | protocol detection and `PrefixedStream` | `MCListener`, `ListenerProofs` |
| `SessionsProofs`, `ReachabilityProofs`, `UdpSessionsProofs`, `ConfigSyncProofs`, `EventsProofs`, `BackupProofs`, `AccountsProofs`, `ListenerProofs` | the proofs | |

`MC*` modules only add symmetry sets. Definitions commented as mutants are
plausible mistakes; each shows, put in place of the definition it
names, that a property notices (`PROJECT.json`, `mutants`).

### Sessions, Reachability

A connection `c` is reused for one session after another. `pc[c]` is the
statement its task is about to execute: `room_exists`, then `insert` for a new
device or `select` and `update` for a known one (`upsert_device_hello`),
`register`, `sync` / `record` / `send` (push of the current configuration),
`recv` (the loop), `d_offline` (Disconnect), `offline` (`mark_device_offline`)
and `ending` (before the two `abort()`s). `out[c]` is the send channel,
`open[c]` the transport and the inbound channel. `apc[a]` is the same for a web request: `kick` and
`kick_drop`, `delete` or `regen` and `drop`, `record` and `send`. Every action is
one SQL statement or one use of the registry's lock with the code that follows
it up to the next suspension point. `delete_room` and `delete_device` are single
transactions and single steps.

Abstractions: one room (no statement relates the devices of two); tokens are
numbered in the order they are issued, and a client learns a new token from the
answer of the request that made it (`atok`), not from an export taken in between; whether a push is due is
nondeterministic (`ConfigSync` decides it); messages count as sent when they are
received, because one task reads the channel and it is drained before its end
is noticed.

The two halves of a connection end on their own. `ReaderEnds` is the end of
`recv_task`: a broken connection, a half-close, or (raw TCP) a line that cannot be
read; `send_task` goes on, so that what is still queued may be delivered (`Deliver`) until
`EndSession` aborts it. A `Deliver` may also be a write into a connection that is gone:
no sender looks at the outcome of `tx.send`. `out` keeps `MaxOut` messages and leaves the
rest of an unbounded queue out. A device that comes back shows a token that somebody has been
told: the first one is in the HelloAck (`Unanswered`), a later one in the answer of its
request (`Unpublished`).

The history
variable `grant` says what became of the credentials a session logged in with
(a session still inside its Hello escapes a kick: `overlooked`), `carried` which
devices a restart, or a failed `mark_device_offline`, left `online`. Four
switches turn on overlapping sessions, failing statements, restarts and
cancelled requests. `Reachability` adds two more: `contended`, the devices that two
requests were busy with at once and that have had one ever since, and `shared`, those of
which two sessions were alive at once, or one while contended, and that have had one
alive ever since.

Outside: backup imports (they may bring back any row, so the life of a
row as `DeviceLifecycle` describes it holds between imports), and a device that uses a
stream and UDP at once.

### UdpSessions

One task serves one datagram after the other, so `pc` is a single value:
`recv`, the statements of a Hello, `ack` (the wait for the send task, at most a
second), `peers` and `clients` (the two inserts), `sync`, and `d_offline`,
`d_peers` of a Disconnect. There is no network variable: a datagram that a
client may have sent can arrive from the moment it can have been sent, again,
late, or never. `clients` maps a device to the address its sender writes to.
`entry` is to a registry entry what `grant` is to a session; `strays` are the
devices whose address another device took, `carried` those left `online`.

### ConfigSync

One device, one session at a time, several groups and administrators. A
configuration is a number (0 is the default), a copy of one is a record
`[grp, ver, cfg]`. Handlers are split where they read and later write:
`update_group` (read the version, write its successor), `update_device` (read
the group, write it back), `push_config_to_device` (read, send),
`push_current_config_if_needed` (row, configuration, push) and the five statements of
`sync_reported_config_state`. The client is external: it applies pushes in the
order of arrival, acknowledges each, and reports what it runs. A connection
breaks with messages under way in both directions. `Send` takes an open link for a
registered session: when the two differ is the subject of `Sessions`.

`list_groups` shows a group from its INSERT on, before the UPDATE that gives it the
client's version, and nothing keeps two administrators from editing a group at once. In both cases
two contents may get one version. `raced` remembers the groups of which an edit began
that way, and the properties except them for as long as they live.

### Events

A report is its number in the order of reception. A session's `pc` follows
`handle_client_message`: `update` (traffic or vnts columns, when the report has
any), `insert` (with the `created_at` computed just before) and `send`. The
broadcast channel is what was announced and, per viewer, a position: a viewer more than
`Cap` behind gets the error that counts what it missed and goes on with the
oldest message there is, as tokio's `broadcast` does. `items` is what the stream
yielded, `listed` what the one list request returned; `Newest` admits every
answer that `ORDER BY created_at DESC LIMIT` allows, since rows of the same second
come in any order. Imports are left out: a merge adds event rows that nobody
announces, an overwrite may take events and columns away. What `Events` says holds between imports.

### Store and Backup

A database is a set of rows `[table, id, refs, val]`; `refs` are the foreign
keys. A statement that breaks a constraint fails. A device gets its group in two ways:
`SetDeviceGroup` (adding it to a group) looks for the group in the device's room,
`UpdateDevice` (PATCH of the device) takes any group that the foreign key takes, also one of
another room (`Strangers`). Transactions are the sequence
of databases after each of their statements, since SQLite checks foreign keys
statement by statement. An export reads one table per step while every
operation of `Store` goes on; an import is one step, as its transaction is, and
`Importable` says whether one of its inserts fails. `export_query` asks every column for a
string first and gets an empty one for NULL, so in the file a device without a group
has the group `"empty"` (`AsText`), which no table has: the import that inserts it fails. `before`, `since` and
`during` are history: the hub when the export began, and how it was written
afterwards.

### Startup and Accounts

`phase` is the statement of `main` that comes next, from `columns` to
`serving`; `Stop` may come at any of them. A certificate and a key are the
number of the start that generated them, so a pair belongs together when the
numbers agree. `file` is a backup on an administrator's disk, at first one of another hub; it can be
imported in both modes while the hub serves. `Accounts` adds
the login: `check` (wait for the lock of `login_failures`), `find` (the query
and the password), `failed` and `verified` (wait for the lock again), with the
times it has read kept in `now`. What is in memory goes with the process.

### Listener and ByteStream

`inbox` is the kernel's buffer; `serve_one` waits for readiness, takes one byte
and hands on a `PrefixedStream` (`prefix`, `pos`). Handlers read with any size
and may stop reading. `ByteStream` is the promise: the bytes in order, the end
only after the last, and the handler that the first byte calls for.

## 3. The runs

| Run | Question | States |
|---|---|---|
| `sessions` | `OnlineBacked`, `RegistryLive`, `RevokedUnregistered`, `HelloAckFirst`, `AbortHarmless`, their inductive invariant `SessionsInv` and refinement of `DeviceLifecycle`, with two overlapping sessions of a device, two tokens, one request, room deletion, failing statements, restarts and cancelled requests | 2.7 M |
| `sessions_reach` | `AloneReachable`, and `ClosedIsForgotten`: registry and statuses clear up after the last connection, with the same faults | 740 k |
| `sessions_overlap` | `AttachedReachable`, reachability without the exception for overlaps: **violated** | |
| `udp` | `UdpOnlineBacked`, `EntryAddressed`, `RevokedSilent`, `LoopReturns` and refinement of `DeviceLifecycle`, two devices behind two addresses | 1.1 M |
| `config` | `VersionNamesContent` and `OwnGroupCurrent` (convergence within a group, whatever is lost, overtaken or written back stale) with an administrator who edits and pushes and a client that may bring its own group; a group edited while it is being made is excepted | 1.7 M |
| `config_move` | `PushedArrives`: **violated** | |
| `events` | `NoSilentGap`, `CaughtUp`, `AnnouncedStored`, `SessionOrder`, `LastReportShown`, `Delivered`, two sessions of a device and a viewer that lags | 1.1 M |
| `backup` | `OverwriteRestores`, `MergeUndoesDeletions`, `DeletionsGoThrough`, one hub with two rooms, everything interleaved | 1.1 M |
| `backup_live` | `ExportMigrates`: **violated** | |
| `backup_merge` | `MergeIsById`: **violated** | |
| `accounts` | `ServesPair`, `AdminThere`, `ServesAgain`, `GuessesBounded`, `LockEarned`, three starts, two logins of a source at once | 620 k |
| `listener` | `NothingLost`, `ReadOut` and refinement of `ByteStream` | 6 k |

Bounds. Two connections and one device are what overlapping sessions need, and
no statement of `Sessions` relates two devices. `MaxToken = 2` makes one token
stale. One concurrent request: with two, a second new token may be issued and used while
the first request has yet to remove its session, whose late removal then hits the new one
(listed as a hazard). `AloneReachable` excepts such a device (`contended`); no run reaches
that exception, the proof covers it. `MaxOut` bounds a queue that the code leaves unbounded; 2 lets a
push or a Kick wait behind the HelloAck; what would come third is left out. `sessions_reach` makes do with one token
and a queue of one: what registers and unregisters a session looks at neither. `UdpSessions` needs two devices and two addresses:
a device at two addresses, and an address with two devices. In `ConfigSync`, `MaxVersion`, `MaxChanges` and
`MaxBreaks` allow an edit or a move before, during and after a lost connection; the conversion
to `u32` (`AsU32`) is in the model, but no run reaches its wrap-around. One
administrator edits and pushes, one request at a time: what races is that request, the session and the client. In `Backup` the
five `MaxWrites` operations suffice for a room, a group, a device in it, an event, and one more
in the middle of an export, and for two rooms with a group in one and a device of the other in it.
(A personal backup that strands a device by such a group takes six, with another owner for each
room; `MergeUndoes` covers it.) In `Events` three reports overrun a channel of one and a list of one
(1024 and 1000 in the code), and one second tells an older event from a newer one.
In `Accounts` three starts allow one interrupted twice, two columns a partial upgrade,
and a lock-out of one second within two lets it pass. In `Listener` four bytes can be split in every way.

Where TLC may stop: `Events`, `Accounts` and `Listener` run out of reports, starts or bytes
(`CHECK_DEADLOCK FALSE`); nothing else may.

Fairness. `Sessions` assumes it of the session tasks only: tokio polls a
task that can proceed. `UdpSessions` assumes the same of its loop, and that the timer
of the one-second wait fires; not that a send succeeds. `ConfigSync` also assumes that requests in progress
are finished, that the client reconnects, applies what it gets, and keeps reporting
while it is connected (strong fairness, because broken connections interrupt
it); editors and pushers owe nothing. `Events`: sessions are polled, and a viewer that is
there reads its stream. `Accounts`: somebody starts the hub again, and its statements complete.
`Listener`: the task is polled, and a handler that has not returned reads on.
`Store` and `Backup` have no liveness.

Raced groups: `VersionNamesContent` and `OwnGroupCurrent` except groups that two
administrators edited at once (`db.rs` 512) and groups edited between the two statements that
make them (`db.rs` 453). The run reaches the second kind; without the exception it finds a version
with two contents. Two editors make the run too long; the theorem is for any number.

### What the violations show

* `sessions_overlap` (`client_api.rs` 284): the client has closed its old connection and
  comes back before the hub has noticed; the end of the old session, the last step of the trace, removes
  the registry entry of the new one. The client stays connected, the device
  goes `offline`, pushes and kicks do not reach it, and a push is answered
  "device not online".
* `config_move` (`client_api.rs` 580): versions of different groups are
  compared. A device moved to a group at the same version keeps what it has
  once the push was lost or made while it was offline.
* `backup_live` (`db.rs` 875): a full export taken while a user registers and is given a
  room (or a group is created and a device put into it) cannot be imported anywhere.
* `backup_merge` (`db.rs` 1123): the administrator's user row is skipped, and
  the foreign key of the administrator's rooms then undoes the whole merge.

Seen on the way and not run: an export writes NULL as an empty string (`db.rs` 943), so a
full backup with one device that has no group cannot be restored, although the README
(line 68) calls it the file to migrate with, and the other columns that may be NULL come back as empty
strings (`OverwriteRestores` and `MergeUndoesDeletions` say for which backups it matters to
the keys); a source that alternates two wrong passwords with a login of its own is
never locked out, since a success clears the counter (`api.rs` 106); a merge never imports the certificate, because both
keys exist on every hub that has started (`db.rs` 1141), although the README
promises that clients need not trust a new one after a restore; a merge that
brings a deleted group back does not put surviving devices into it again, since
their rows are skipped; after an overwrite with a backup that has no
administrator, an account registered under the name `admin` before the next
start keeps `ensure_admin` from making one (`db.rs` 75); a silent UDP client stays
`online` until the hub stops; an error of `accept` or `recv_from` ends
the whole hub (`main.rs` 43); and `change_password` answers "ok" when the
UPDATE met no row (`api.rs` 152).

## 4. The proofs

All of them hold for any sets of devices, connections, addresses, requests, hubs, rooms, groups,
names and bytes and any bounds, under the named assumptions of the modules: "none of
them" is not a member of the set; bounds are positive, switches Boolean; the concurrent
logins (`RequestsAssumption`) and the groups administrators may create
(`GroupsAssumption`) are finitely many, since they are counted; a hub's administrator
is not another account, and no other account is called `admin`, which the UNIQUE column
ensures once `ensure_admin` has run (`OwnersAssumption`); the empty string is not the id of
a group (`GroupIdsAssumption`). The
proof of each invariant finds a stronger, inductive one that TLC has checked
first, and shows with one lemma per conjunct, and one step per action in it,
that every step keeps it.

### Sessions

`Invariance` (`SessionsInv`), and from it `TypeCorrect`, `OnlineIsBacked`,
`RegistryIsLive`, `RevokedLeaves`, `AckComesFirst`, `AbortIsHarmless`, and
`Refinement`: `Spec => Lifecycle!Spec`.

`OnlineBacked` is kept because every
statement that writes `online` is executed by a session that is past `update`,
and such a session writes `offline` before it forgets its device; the step that
turns a session away, or ends it, needs `SeenKicked`: the status read earlier
is still `kicked` (or the row is gone), so that the UPDATE in between did not write `online`. `RegistryLive`
holds because entries are made in `register`, where the session names its device
(`Named`), and because the loop is left only through the removal.
`RevokedUnregistered` needs that a session is marked revoked only once it is past its
registration (`RevokedEstablished`). `HelloAckFirst` and `AbortHarmless` rest on `Queues` (what may
wait in a queue at each point) and on `RegistryLive`: a push found through the
registry goes to a session whose HelloAck is queued or taken, and which leaves its loop only
when its client's reader has ended: a push or a Kick is aborted only with a client that had
stopped sending first.

### Reachability

`AloneIsReachable`, from `ReachInv` (`SessionsInv` and four parts more). What
removes the entry of a session? Its own end or Disconnect, which the property
excepts; another session of the device, which `shared` remembers; and a kick, a
deletion or a new token, between whose write and whose removal other tasks run.
`NoHeirs` says that this removal never meets a session whose credentials stand: the
write took them from everyone who had got in, a Hello that has passed its SELECT
included (`overlooked`), and whoever is still before its SELECT shows a token that is no
longer the row's or finds the row kicked. It stays so because the new token is not out yet
(`WriteStands`: the token in the row is the one the request will answer with, which
only another request on the device could change) and because a Hello carries a
token that was issued (`KnownRows`).

### UdpSessions

`UdpInvariance` (`UdpInv`), and from it `UdpTypes`, `UdpOnlineIsBacked`,
`EntriesAreAddressed`, `RevokedAreSilent`, and `UdpRefinement`, for datagrams in
any order and number.

`InHand` says what the loop holds at each of its points. `RevokedSilent` needs
`CheckStands`: a Hello that passed its check and met no request since still
has the device's token, and a status `kicked` only if it has read it, so the entry it
makes is not already revoked. `UdpOnlineBacked` and `EntryAddressed` need `AtAddress`: between
the two inserts of a Hello, and between the removals of a Disconnect, the
address the loop serves still stands for the device, and when its row could not
be taken `offline` another address does, or the device is named in `carried`.

### ConfigSync

`ConfigTypeCorrect`, and `VersionIsContent` for any number of editors and
versions that a push's `u32` can hold (`VersionsFit`), from `ConfigInv`.

A version names one content because copies only age. `CopiesOfRows`: a copy, be it a
push under way, in the client, in a report, or in a handler that read it before
an await, is no newer than its group's row, and equals it at the same version. An edit that
writes a new content under the next version then meets no copy that has this
version already; that the version is indeed the next one when the UPDATE runs is
`NextVersion`: while an edit of a group is under way, no other one is and the group is
made, unless it is one of the `raced`. `Fits` keeps `AsU32` from mapping two versions to one.

### Store and Backup

`BackupTypeCorrect`, `DeletionsPass` (`DeletionsGoThrough`), `OverwriteIsRestore` and
`MergeUndoes`, for any number of hubs, from `BackupInv`.

`Sound` says of every row, also of those in the file, that it refers to what its table refers to
(`WellFormed`), for an import may make a row of the file one of any hub; and of every
database that it keeps its constraints (`Valid`), which also means that no device in it has the
group `"empty"`. Each deleting transaction is a chain of stages that lose rows; the references left
dangling after one are counted out from what may refer to what, and only the group of a device
of another room remains. `FileInv` says that the file has what
the tables read so far had, and no key twice. `ExportInv` follows the hub since the export
began: as long as nothing was created or moved it only loses rows, and the
tables are read in the order of their references, so that what a row in the file refers to was
read before, or is `"empty"`; therefore a quiet backup can be inserted row by row when no device in
it lacks a group. What a personal backup lacks is at most the group of a device, so only that can strand it.

### Startup and Accounts

`AccountsInvariance` (`AccountsInv`), and from it `AccountsTypes`, `PairIsServed`,
`AdminIsThere`, `GuessesAreBounded` and the action property `LockIsEarned`.

`StartupInv` says how far a start has come: columns added, administrator made, what
of the pair is already stored; and that the database never holds a key without
its own certificate, since the certificate is written first and `ensure_tls`
writes both again when the key is missing. `LoginInv` bounds the counter by the failures that
came in a row (`inRow`), and times read by the clock: a lock-out is therefore earned,
whatever the order in which concurrent logins take the lock. `GuessesBounded` needs to know
the logins that were past the check when their source was locked out (`Late`):
`LateInv` trades each failure that was told but not counted for one of them that is no longer
there, and the login that locked the source out was none of them.

### Listener

`ListenerInvariance` (`ListenerInv`), and from it `ListenerTypes`, `NoByteLost` and
`ListenerRefines`: `Spec => Promise!Spec`, the read half of `PrefixedStream`
shows its handler the connection as if nothing had been read before.

`NothingLost` (read, then replayed, then buffered bytes are what the client sent) becomes
inductive with `InHands`, what `prefix` and `pos` can be at each point. A read maps
to a read of `ByteStream` because what it took is a prefix of what was left;
lemmas on sequences (`ReadSplits`, `PrefixOfConcat`) carry that.

### Events

`EventsInvariance` (`EventsInv`), and from it `EventsTypes`, `GapsAreTold`
(`NoSilentGap`), `ListAndStreamMeet` (`CaughtUp`), `AnnouncedIsStored`,
`OrderIsKept` (`SessionOrder`) and `LastReportIsShown`.

`HandlesLast` and `SentOnce` say that what a session handles is its own last
report, not announced yet: an id is announced once, so the channel never holds
more entries than there were reports (`AnnouncedShort`). `SendsStored`
says that what waits to be announced is in the table already. `Seats` says where a viewer stands in
the channel: at what the items it was given add up to. That sum, `Brought`, is a
recursive function; its equations, and what one more item adds, are proved by
induction stated with a set (`InductionBySets`, from the least element of a set
of naturals), because the library's induction theorems take an operator, which
the installed provers cannot instantiate.

### Only model-checked

`OwnGroupCurrent`, `ClosedIsForgotten`, `LoopReturns`, `ServesAgain`, `Delivered`
and `ReadOut`: liveness under fairness is out of the prover's reach. Every
safety property that a passing run checks is a theorem. What the four violations show is not
one: a counterexample is what TLC is for.

## 5. Not modelled, and the plan

1. `Store`, `Backup`: two hubs that exchange backups; the certificate of a merge.
2. `ConfigSync`: the rows of `config_pushes` and which of them a ConfigAck marks
   (only backups read them); the token that encrypts a push.
3. `UdpSessions` and `Sessions` composed: a device that uses a stream and UDP at
   once, which shares one registry entry and one row.
4. Proofs: the composition of item 3.

Nothing expires a UDP client that falls silent: no property can ask that its
device goes `offline`, so none does. Two requests for a new token at once, two editors
of a group at once, and versions beyond `u32` are left out of the runs; the theorems cover all
but the last, with the exceptions said above.

Left out for good: encryption and password hashing (library calls
without state), signing and verifying tokens (they keep none), TLS and HTTP,
logging, argument parsing, and the web page, whose
requests are the inputs of the handlers.
