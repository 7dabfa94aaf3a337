------------------------------ MODULE Sessions ------------------------------
(***************************************************************************)
(* Client sessions of the hub over its stream transports (WebSocket and    *)
(* raw TCP), the table `devices` they share with the web API, and the      *)
(* in-memory registry `clients` (state.rs) through which a web request     *)
(* reaches a connected device.                                             *)
(*                                                                         *)
(* Each connection is a task of its own (handle_socket / handle_raw_tcp ->  *)
(* handle_client_session) and each web request another; every SQL          *)
(* statement and every use of the registry's lock is one atomic step, and  *)
(* steps of different tasks interleave freely.  One room is modelled: no   *)
(* statement below relates the devices of two rooms.  What a configuration *)
(* contains, and which version is current, is left to the configuration    *)
(* model; here a push is needed or not, nondeterministically.              *)
(***************************************************************************)
EXTENDS Naturals, Sequences, FiniteSets

CONSTANTS
    Devices,               \* device ids (UUIDs) the hub may hand out
    Conns,                 \* stream connections, reused one session after another
    Callers,               \* concurrent web requests
    NoDevice, NoConn,      \* "none of them"
    MaxToken,              \* bound: tokens a device is given in its life
    MaxOut,                \* bound: messages kept of one send queue
    OverlappingSessions,   \* a client reconnects before its old session ended
    DbFaults,              \* an SQL statement may fail
    Restarts,              \* the hub process may stop and start again
    Cancellations          \* a browser may give up on a request being served

ASSUME ConnsAssumption   == NoConn \notin Conns
ASSUME DevicesAssumption == NoDevice \notin Devices
ASSUME BoundsAssumption  == /\ MaxToken \in Nat \ {0}
                            /\ MaxOut \in Nat \ {0}
ASSUME SwitchAssumption  == /\ OverlappingSessions \in BOOLEAN
                            /\ DbFaults \in BOOLEAN
                            /\ Restarts \in BOOLEAN
                            /\ Cancellations \in BOOLEAN

VARIABLES
    \* the database
    room,       \* the row of the room exists
    status,     \* devices.status, "none" before the row and "gone" after it
    token,      \* devices.device_token, tokens numbered as they are issued
    \* AppState.clients
    clients,
    \* one stream connection and its session
    pc,         \* the statement the session's task is about to execute
    dev,        \* device id: named by the Hello, later the session's own `id`
    tok,        \* device_token of the Hello
    seen,       \* the status that upsert_device_hello read
    open,       \* recv() on the session's channel has not answered None
    out,        \* ServerMessages waiting in the session's send channel
    acked,      \* send_task has taken the HelloAck
    \* one web request
    apc, adev,
    atok,       \* the new token its answer will carry, 0 for none
    \* history
    grant,      \* what became of the credentials a session logged in with
    carried     \* devices left 'online' by a restart or a failed statement

store    == <<room, status, token>>
session  == <<pc, dev, tok, seen>>
channel  == <<open, out, acked>>
request  == <<apc, adev, atok>>
history  == <<grant, carried>>
vars     == <<store, clients, session, channel, request, history>>

-----------------------------------------------------------------------------
Present == {"pending", "online", "offline", "kicked"}

Hellos      == {"room_exists", "insert", "select", "update"}
Established == {"sync", "record", "send", "recv", "d_offline"}
Attached    == {"register", "offline"} \cup Established
Points      == {"idle", "ending"} \cup Hellos \cup Attached
Requests    == {"idle", "kick", "kick_drop", "delete", "regen", "drop",
                "record", "send"}
Messages    == {"HelloAck", "ConfigPush", "Kick", "Reject"}

TypeOK ==
    /\ room \in BOOLEAN
    /\ status \in [Devices -> Present \cup {"none", "gone"}]
    /\ token \in [Devices -> 0 .. MaxToken]
    /\ clients \in [Devices -> Conns \cup {NoConn}]
    /\ pc \in [Conns -> Points]
    /\ dev \in [Conns -> Devices \cup {NoDevice}]
    /\ tok \in [Conns -> 0 .. MaxToken]
    /\ seen \in [Conns -> Present \cup {"none"}]
    /\ open \in [Conns -> BOOLEAN]
    /\ out \in [Conns -> Seq(Messages)]
    /\ acked \in [Conns -> BOOLEAN]
    /\ apc \in [Callers -> Requests]
    /\ adev \in [Callers -> Devices \cup {NoDevice}]
    /\ atok \in [Callers -> 0 .. MaxToken]
    /\ grant \in [Conns -> {"valid", "departed", "revoked", "overlooked"}]
    /\ carried \in SUBSET Devices

Init ==
    /\ room = TRUE
    /\ status = [d \in Devices |-> "none"]
    /\ token = [d \in Devices |-> 0]
    /\ clients = [d \in Devices |-> NoConn]
    /\ pc = [c \in Conns |-> "idle"]
    /\ dev = [c \in Conns |-> NoDevice]
    /\ tok = [c \in Conns |-> 0]
    /\ seen = [c \in Conns |-> "none"]
    /\ open = [c \in Conns |-> FALSE]
    /\ out = [c \in Conns |-> << >>]
    /\ acked = [c \in Conns |-> FALSE]
    /\ apc = [a \in Callers |-> "idle"]
    /\ adev = [a \in Callers |-> NoDevice]
    /\ atok = [a \in Callers |-> 0]
    /\ grant = [c \in Conns |-> "valid"]
    /\ carried = {}

-----------------------------------------------------------------------------
(* Helpers.                                                                 *)

Goto(c, p) == pc' = [pc EXCEPT ![c] = p]

(* Mutants of MarkDevice: 'kicked' is not respected; a deleted row returns. *)
MarkDeviceForgivesKick(d, s) ==
    /\ status' = IF status[d] \in Present THEN [status EXCEPT ![d] = s] ELSE status
    /\ carried' = carried \ {d}

MarkDeviceUpserts(d, s) ==
    /\ status' = IF status[d] # "kicked" THEN [status EXCEPT ![d] = s] ELSE status
    /\ carried' = carried \ {d}

(* UPDATE devices SET status = CASE WHEN status = 'kicked' THEN status ELSE *)
(* s END WHERE id = d: the statement all session tasks use.                 *)
MarkDevice(d, s) ==
    /\ status' = IF status[d] \in Present \ {"kicked"}
                 THEN [status EXCEPT ![d] = s] ELSE status
    /\ carried' = carried \ {d}

(* let _ = tx.send(m), on an unbounded channel; nobody waits for room in it *)
(* or looks at the outcome.                                                 *)
Enqueue(c, m) ==
    IF c \in Conns /\ Len(out[c]) < MaxOut
    THEN [out EXCEPT ![c] = Append(@, m)] ELSE out

(* handle_client_session returned: its locals are gone; the caller is about *)
(* to abort the two transport tasks.                                        *)
Finish(c) ==
    /\ Goto(c, "ending")
    /\ dev' = [dev EXCEPT ![c] = NoDevice]
    /\ tok' = [tok EXCEPT ![c] = 0]
    /\ seen' = [seen EXCEPT ![c] = "none"]
    /\ grant' = [grant EXCEPT ![c] = "valid"]

Accept(c, p) ==
    /\ pc[c] = "idle"
    /\ Goto(c, p)
    /\ open' = [open EXCEPT ![c] = TRUE]

(* A device learns its new token from the answer of the request: until then *)
(* the token is in the row, and no Hello carries it.                        *)
Unpublished(d, t) ==
    \E a \in Callers : apc[a] = "drop" /\ adev[a] = d /\ atok[a] = t

(* And a new device its id and first token from the HelloAck: no other      *)
(* connection has them while the session that made it has yet to send that. *)
Unanswered(d) == \E c \in Conns : dev[c] = d /\ tok[c] = 0 /\ ~acked[c]

-----------------------------------------------------------------------------
(* Hello.                                                                   *)

(* A first Hello, without credentials: the hub will make up a device id.    *)
HelloNew(c) ==
    /\ Accept(c, "room_exists")
    /\ Cardinality({k \in Conns : pc[k] \in Hellos /\ dev[k] = NoDevice})
         < Cardinality({d \in Devices : status[d] = "none"})
    /\ UNCHANGED <<store, clients, dev, tok, seen, out, acked, request,
                   history>>

(* A device comes back with its id and a token it was given at some time.   *)
HelloAgain(c, d, t) ==
    /\ Accept(c, "room_exists")
    /\ status[d] # "none"
    /\ t \in 1 .. token[d]
    /\ ~Unpublished(d, t) /\ ~Unanswered(d)
    /\ OverlappingSessions \/ \A k \in Conns : dev[k] # d
    /\ dev' = [dev EXCEPT ![c] = d]
    /\ tok' = [tok EXCEPT ![c] = t]
    /\ UNCHANGED <<store, clients, seen, out, acked, request, history>>

(* Not a Hello, or a Hello of another protocol version, which is answered   *)
(* by a Kick, here called "Reject" to tell it from a console's.             *)
HelloRefused(c, refusal) ==
    /\ Accept(c, "ending")
    /\ out' = [out EXCEPT ![c] = refusal]
    /\ UNCHANGED <<store, clients, dev, tok, seen, acked, request, history>>

RoomExists(c) ==
    /\ pc[c] = "room_exists"
    /\ room
    /\ Goto(c, IF dev[c] = NoDevice THEN "insert" ELSE "select")
    /\ UNCHANGED <<store, clients, dev, tok, seen, channel, request, history>>

(* upsert_device_hello for a new device: the INSERT, which the foreign key  *)
(* on rooms may refuse, and the answer to the client.                       *)
InsertDevice(c, d) ==
    /\ pc[c] = "insert"
    /\ room
    /\ status[d] = "none"
    /\ status' = [status EXCEPT ![d] = "pending"]
    /\ token' = [token EXCEPT ![d] = 1]
    /\ dev' = [dev EXCEPT ![c] = d]
    /\ out' = Enqueue(c, "HelloAck")
    /\ Goto(c, "register")
    /\ UNCHANGED <<room, clients, tok, seen, open, acked, request,
                   history>>

(* Mutant of Authentic: the token is compared, the row is not looked for.   *)
AuthenticByTokenOnly(c) == token[dev[c]] = tok[c]

(* upsert_device_hello for a known device: first its SELECT ...             *)
Authentic(c) == status[dev[c]] \in Present /\ token[dev[c]] = tok[c]

SelectDevice(c) ==
    /\ pc[c] = "select"
    /\ Authentic(c)
    /\ seen' = [seen EXCEPT ![c] = status[dev[c]]]
    /\ tok' = [tok EXCEPT ![c] = 0]
    /\ Goto(c, "update")
    /\ UNCHANGED <<store, clients, dev, channel, request, history>>

(* Mutant of UpdateDevice: a known device is not greeted.                   *)
UpdateDeviceSilently(c) ==
    /\ pc[c] = "update"
    /\ seen[c] # "kicked"
    /\ MarkDevice(dev[c], "online")
    /\ seen' = [seen EXCEPT ![c] = "none"]
    /\ Goto(c, "register")
    /\ UNCHANGED <<room, token, clients, dev, tok, channel, request, grant>>

(* ... then its UPDATE, and the HelloAck with the status of the SELECT.     *)
UpdateDevice(c) ==
    /\ pc[c] = "update"
    /\ seen[c] # "kicked"
    /\ MarkDevice(dev[c], "online")
    /\ out' = Enqueue(c, "HelloAck")
    /\ seen' = [seen EXCEPT ![c] = "none"]
    /\ Goto(c, "register")
    /\ UNCHANGED <<room, token, clients, dev, tok, open, acked,
                   request, grant>>

(* The same when that status was 'kicked': handle_client_session returns.   *)
TurnAway(c) ==
    /\ pc[c] = "update"
    /\ seen[c] = "kicked"
    /\ MarkDevice(dev[c], "online")
    /\ out' = Enqueue(c, "HelloAck")
    /\ Finish(c)
    /\ UNCHANGED <<room, token, clients, open, acked, request>>

(* No such room or device, another token, or a statement that fails.        *)
HelloFails(c) ==
    /\ \/ pc[c] \in {"room_exists", "insert"} /\ ~room
       \/ pc[c] = "select" /\ ~Authentic(c)
       \/ pc[c] \in Hellos /\ DbFaults
    /\ Finish(c)
    /\ UNCHANGED <<store, clients, channel, request, carried>>

(* state.clients.write().await.insert(id, outbound): replaces any entry.    *)
RegisterClient(c) ==
    /\ pc[c] = "register"
    /\ clients' = [clients EXCEPT ![dev[c]] = c]
    /\ Goto(c, "sync")
    /\ UNCHANGED <<store, dev, tok, seen, channel, request, history>>

-----------------------------------------------------------------------------
(* Configuration pushes, by a session or by a web request.                  *)

(* push_current_config_if_needed, or the same question after a ConfigState: *)
(* read the rows and decide.                                                *)
SyncConfig(c, p) ==
    /\ pc[c] = "sync"
    /\ p = "record" => status[dev[c]] \in Present
    /\ Goto(c, p)
    /\ UNCHANGED <<store, clients, dev, tok, seen, channel, request, history>>

(* push_config_to_device up to the INSERT into config_pushes, which needs   *)
(* the device's row.                                                        *)
RecordPush(c) ==
    /\ pc[c] = "record"
    /\ Goto(c, IF status[dev[c]] \in Present THEN "send" ELSE "recv")
    /\ UNCHANGED <<store, clients, dev, tok, seen, channel, request, history>>

(* The rest of it: whichever session is registered gets the message.        *)
SendPush(c) ==
    /\ pc[c] = "send"
    /\ out' = Enqueue(clients[dev[c]], "ConfigPush")
    /\ Goto(c, "recv")
    /\ UNCHANGED <<store, clients, dev, tok, seen, open, acked, request,
                   history>>

-----------------------------------------------------------------------------
(* The receive loop of handle_client_session.  Only this task reads the     *)
(* channel between it and recv_task, so a message counts as sent when it is *)
(* received, and `open` ends when a closed channel has been drained.        *)

Receive(c) ==
    /\ pc[c] = "recv"
    /\ open[c]

(* ConfigAck (p = "recv"), or a ConfigState that is `running`, whose second *)
(* half follows (p = "sync").  EventReport, Heartbeat, TrafficStats and a   *)
(* second Hello change nothing this module keeps.                           *)
ReceiveConfig(c, p) ==
    /\ Receive(c)
    /\ MarkDevice(dev[c], "online")
    /\ Goto(c, p)
    /\ UNCHANGED <<room, token, clients, dev, tok, seen, channel, request, grant>>

(* A ConfigState of a device whose network is not running.                  *)
ReceiveStopped(c) ==
    /\ Receive(c)
    /\ Goto(c, "sync")
    /\ UNCHANGED <<store, clients, dev, tok, seen, channel, request, history>>

(* Disconnect leaves the loop running.                                      *)
ReceiveDisconnect(c) ==
    /\ Receive(c)
    /\ clients' = [clients EXCEPT ![dev[c]] = NoConn]
    /\ grant' = [grant EXCEPT ![c] = "departed"]
    /\ Goto(c, "d_offline")
    /\ UNCHANGED <<store, dev, tok, seen, channel, request, carried>>

(* Mutant of DisconnectOffline: the handler leaves the loop.                *)
DisconnectOfflineReturns(c) ==
    /\ pc[c] = "d_offline"
    /\ MarkDevice(dev[c], "offline")
    /\ Finish(c)
    /\ UNCHANGED <<room, token, clients, channel, request>>

DisconnectOffline(c) ==
    /\ pc[c] = "d_offline"
    /\ MarkDevice(dev[c], "offline")
    /\ Goto(c, "recv")
    /\ UNCHANGED <<room, token, clients, dev, tok, seen, channel, request,
                   grant>>

(* Mutants of Unregister: the entry is kept when the row is gone; or, the   *)
(* entry being somebody else's, the session returns at once.                *)
UnregisterPresent(c) ==
    /\ pc[c] = "recv"
    /\ ~open[c]
    /\ clients' = IF status[dev[c]] \in Present
                  THEN [clients EXCEPT ![dev[c]] = NoConn] ELSE clients
    /\ Goto(c, "offline")
    /\ UNCHANGED <<store, dev, tok, seen, channel, request, history>>

UnregisterOwn(c) ==
    /\ pc[c] = "recv"
    /\ ~open[c]
    /\ \/ /\ clients[dev[c]] = c
          /\ clients' = [clients EXCEPT ![dev[c]] = NoConn]
          /\ Goto(c, "offline")
          /\ UNCHANGED <<dev, tok, seen, history>>
       \/ /\ clients[dev[c]] # c
          /\ Finish(c)
          /\ UNCHANGED <<clients, carried>>
    /\ UNCHANGED <<store, channel, request>>

(* recv() answers None once the transport task is gone and the channel is   *)
(* drained; the entry of the device is removed, whoever put it there.       *)
Unregister(c) ==
    /\ pc[c] = "recv"
    /\ ~open[c]
    /\ clients' = [clients EXCEPT ![dev[c]] = NoConn]
    /\ Goto(c, "offline")
    /\ UNCHANGED <<store, dev, tok, seen, channel, request, history>>

MarkDeviceOffline(c) ==
    /\ pc[c] = "offline"
    /\ MarkDevice(dev[c], "offline")
    /\ Finish(c)
    /\ UNCHANGED <<room, token, clients, channel, request>>

(* send_task.abort(), recv_task.abort(): what still waits is dropped.       *)
EndSession(c) ==
    /\ pc[c] = "ending"
    /\ Goto(c, "idle")
    /\ open' = [open EXCEPT ![c] = FALSE]
    /\ out' = [out EXCEPT ![c] = << >>]
    /\ acked' = [acked EXCEPT ![c] = FALSE]
    /\ UNCHANGED <<store, clients, dev, tok, seen, request, history>>

(* Mutant of StatementFails: the error leaves handle_client_session.        *)
StatementFailsReturns(c) ==
    /\ DbFaults
    /\ pc[c] \in {"sync", "record", "d_offline"}
    /\ Finish(c)
    /\ UNCHANGED <<store, clients, channel, request, carried>>

(* A statement fails: errors of the loop's handlers are logged, and that of *)
(* mark_device_offline is not even looked at.                               *)
StatementFails(c) ==
    /\ DbFaults
    /\ pc[c] \in {"sync", "record", "d_offline"}
    /\ Goto(c, "recv")
    /\ UNCHANGED <<store, clients, dev, tok, seen, channel, request, history>>

OfflineFails(c) ==
    /\ DbFaults
    /\ pc[c] = "offline"
    /\ carried' = carried \cup {d \in {dev[c]} : status[d] = "online"}
    /\ Finish(c)
    /\ UNCHANGED <<store, clients, channel, request>>

SessionStep(c) ==
    \/ RoomExists(c) \/ SelectDevice(c) \/ UpdateDevice(c) \/ TurnAway(c)
    \/ \E d \in Devices : InsertDevice(c, d)
    \/ HelloFails(c) \/ RegisterClient(c)
    \/ \E p \in {"recv", "record"} : SyncConfig(c, p)
    \/ RecordPush(c) \/ SendPush(c) \/ DisconnectOffline(c)
    \/ Unregister(c) \/ MarkDeviceOffline(c) \/ EndSession(c)
    \/ StatementFails(c) \/ OfflineFails(c)

-----------------------------------------------------------------------------
(* The transport.                                                           *)

(* recv_task ends: the connection breaks, or the client closes its half of  *)
(* it, or sends a line that cannot be read.  send_task goes on.             *)
ReaderEnds(c) ==
    /\ open[c]
    /\ open' = [open EXCEPT ![c] = FALSE]
    /\ UNCHANGED <<store, clients, session, out, acked, request, history>>

(* send_task takes the oldest message: written, or lost with a connection   *)
(* that takes no more.  The first write to fail ends the task and loses the *)
(* rest of the queue and whatever is sent later: as if all of it were taken *)
(* at once, since no sender looks at the outcome.                           *)
Deliver(c) ==
    /\ out[c] # << >>
    /\ out' = [out EXCEPT ![c] = Tail(@)]
    /\ acked' = [acked EXCEPT ![c] = @ \/ Head(out[c]) = "HelloAck"]
    /\ UNCHANGED <<store, clients, session, open, request, history>>

-----------------------------------------------------------------------------
(* Web requests on a device of the room.                                    *)

Answer(a) ==
    /\ apc' = [apc EXCEPT ![a] = "idle"]
    /\ adev' = [adev EXCEPT ![a] = NoDevice]
    /\ atok' = [atok EXCEPT ![a] = 0]

Proceed(a, p) ==
    /\ apc' = [apc EXCEPT ![a] = p]
    /\ UNCHANGED <<adev, atok>>

(* ensure_room_access succeeds; the handler is before its first statement.  *)
StartRequest(a, d, op) ==
    /\ apc[a] = "idle"
    /\ room
    /\ status[d] # "none"
    /\ op = "regen" => token[d] < MaxToken
    /\ apc' = [apc EXCEPT ![a] = op]
    /\ adev' = [adev EXCEPT ![a] = d]
    /\ UNCHANGED <<atok, store, clients, session, channel, history>>

(* The sessions that logged in to d with what a request now takes away.     *)
(* One still inside its Hello has done its check and escapes the request.   *)
Revoke(d) ==
    grant' = [c \in Conns |->
                IF dev[c] # d \/ grant[c] # "valid" THEN grant[c]
                ELSE IF pc[c] \in Established THEN "revoked"
                ELSE IF pc[c] \in {"update", "register"} THEN "overlooked"
                ELSE grant[c]]

KickWrite(a) ==
    /\ apc[a] = "kick"
    /\ status[adev[a]] \in Present
    /\ status' = [status EXCEPT ![adev[a]] = "kicked"]
    /\ carried' = carried \ {adev[a]}
    /\ Revoke(adev[a])
    /\ Proceed(a, "kick_drop")
    /\ UNCHANGED <<room, token, clients, session, channel>>

KickDrop(a) ==
    /\ apc[a] = "kick_drop"
    /\ out' = Enqueue(clients[adev[a]], "Kick")
    /\ clients' = [clients EXCEPT ![adev[a]] = NoConn]
    /\ Answer(a)
    /\ UNCHANGED <<store, session, open, acked, history>>

(* The transaction of delete_device succeeds, row or no row.                *)
DeleteWrite(a) ==
    /\ apc[a] = "delete"
    /\ status' = [status EXCEPT ![adev[a]] = "gone"]
    /\ carried' = carried \ {adev[a]}
    /\ Revoke(adev[a])
    /\ Proceed(a, "drop")
    /\ UNCHANGED <<room, token, clients, session, channel>>

RegenWrite(a) ==
    /\ apc[a] = "regen"
    /\ status[adev[a]] \in Present
    /\ token[adev[a]] < MaxToken
    /\ token' = [token EXCEPT ![adev[a]] = @ + 1]
    /\ Revoke(adev[a])
    /\ apc' = [apc EXCEPT ![a] = "drop"]
    /\ atok' = [atok EXCEPT ![a] = token[adev[a]] + 1]
    /\ UNCHANGED <<room, status, clients, session, channel, adev, carried>>

(* regenerate_device_token does not ask whether its UPDATE met a row.       *)
RegenMissing(a) ==
    /\ apc[a] = "regen"
    /\ status[adev[a]] \notin Present
    /\ Proceed(a, "drop")
    /\ UNCHANGED <<store, clients, session, channel, history>>

(* Mutant of DropClient: the registry is forgotten.                         *)
DropClientForgets(a) ==
    /\ apc[a] = "drop"
    /\ Answer(a)
    /\ UNCHANGED <<store, clients, session, channel, history>>

(* delete_device and regenerate_device_token: state.clients ... remove(&id) *)
DropClient(a) ==
    /\ apc[a] = "drop"
    /\ clients' = [clients EXCEPT ![adev[a]] = NoConn]
    /\ Answer(a)
    /\ UNCHANGED <<store, session, channel, history>>

RequestRecord(a) ==
    /\ apc[a] = "record"
    /\ status[adev[a]] \in Present
    /\ Proceed(a, "send")
    /\ UNCHANGED <<store, clients, session, channel, history>>

(* Mutant of RequestSend: the entry is taken out instead of looked up.      *)
RequestSendRemoves(a) ==
    /\ apc[a] = "send"
    /\ out' = Enqueue(clients[adev[a]], "ConfigPush")
    /\ clients' = [clients EXCEPT ![adev[a]] = NoConn]
    /\ Answer(a)
    /\ UNCHANGED <<store, session, open, acked, history>>

RequestSend(a) ==
    /\ apc[a] = "send"
    /\ out' = Enqueue(clients[adev[a]], "ConfigPush")
    /\ Answer(a)
    /\ UNCHANGED <<store, clients, session, open, acked, history>>

(* The device is not there (404), the statement fails (500), or the browser *)
(* goes away and the server drops the handler between two of its steps.     *)
RequestFails(a) ==
    /\ \/ apc[a] \in {"kick", "record"} /\ status[adev[a]] \notin Present
       \/ apc[a] \in {"kick", "delete", "regen", "record"} /\ DbFaults
       \/ apc[a] # "idle" /\ Cancellations
    /\ Answer(a)
    /\ grant' = [c \in Conns |->
                   IF /\ apc[a] \in {"kick_drop", "drop"}
                      /\ dev[c] = adev[a] /\ grant[c] = "revoked"
                   THEN "overlooked" ELSE grant[c]]
    /\ UNCHANGED <<store, clients, session, channel, carried>>

RequestStep(a) ==
    \/ KickWrite(a) \/ KickDrop(a) \/ DeleteWrite(a) \/ RegenWrite(a)
    \/ RegenMissing(a) \/ DropClient(a) \/ RequestRecord(a) \/ RequestSend(a)
    \/ RequestFails(a)

(* delete_room is one transaction, and does not look at the registry.       *)
DeleteRoom ==
    /\ room
    /\ room' = FALSE
    /\ status' = [d \in Devices |->
                    IF status[d] \in Present THEN "gone" ELSE status[d]]
    /\ carried' = {}
    /\ UNCHANGED <<token, clients, session, channel, request, grant>>

(* The process stops, at any point, and starts again on the same database.  *)
HubRestart ==
    /\ Restarts
    /\ clients' = [d \in Devices |-> NoConn]
    /\ pc' = [c \in Conns |-> "idle"]
    /\ dev' = [c \in Conns |-> NoDevice]
    /\ tok' = [c \in Conns |-> 0]
    /\ seen' = [c \in Conns |-> "none"]
    /\ open' = [c \in Conns |-> FALSE]
    /\ out' = [c \in Conns |-> << >>]
    /\ acked' = [c \in Conns |-> FALSE]
    /\ apc' = [a \in Callers |-> "idle"]
    /\ adev' = [a \in Callers |-> NoDevice]
    /\ atok' = [a \in Callers |-> 0]
    /\ grant' = [c \in Conns |-> "valid"]
    /\ carried' = {d \in Devices : status[d] = "online"}
    /\ UNCHANGED store

-----------------------------------------------------------------------------
Next ==
    \/ \E c \in Conns :
         \/ HelloNew(c)
         \/ \E refusal \in {<< >>, <<"Reject">>} : HelloRefused(c, refusal)
         \/ \E d \in Devices, t \in 1 .. MaxToken : HelloAgain(c, d, t)
         \/ \E p \in {"recv", "sync"} : ReceiveConfig(c, p)
         \/ ReceiveStopped(c) \/ ReceiveDisconnect(c)
         \/ ReaderEnds(c) \/ SessionStep(c) \/ Deliver(c)
    \/ \E a \in Callers :
         \/ \E d \in Devices, op \in {"kick", "delete", "regen", "record"} :
              StartRequest(a, d, op)
         \/ RequestStep(a)
    \/ DeleteRoom
    \/ HubRestart

Spec == Init /\ [][Next]_vars

(* The runtime keeps polling every session task that can proceed; clients,  *)
(* browsers and administrators need not do anything.                        *)
Fairness == \A c \in Conns : WF_vars(SessionStep(c))

FairSpec == Spec /\ Fairness

-----------------------------------------------------------------------------
(* Properties.                                                              *)

(* A device shown 'online' has a session that has announced it and has not  *)
(* yet marked it offline: two sessions of one device ending in any order,   *)
(* a late ConfigAck or a kick in the middle never leave a phantom 'online'  *)
(* behind.  The two exceptions the code has, a hub that died and an UPDATE  *)
(* of mark_device_offline that failed, are the ones `carried` records.      *)
OnlineBacked ==
    \A d \in Devices :
        status[d] = "online" /\ d \notin carried
            => \E c \in Conns : dev[c] = d /\ pc[c] \in Attached

(* An entry of the registry belongs to a session of that very device whose  *)
(* loop is still running: no sender outlives handle_client_session.         *)
RegistryLive ==
    \A d \in Devices : clients[d] # NoConn =>
        dev[clients[d]] = d /\ pc[clients[d]] \in Established

(* Once a kick, a deletion or a new token hits an established session, that *)
(* session is out of the registry by the time the request is answered.      *)
RevokedUnregistered ==
    \A d \in Devices :
        clients[d] # NoConn /\ grant[clients[d]] = "revoked"
            => \E a \in Callers : adev[a] = d /\ apc[a] \in {"kick_drop", "drop"}

(* A client never meets a ConfigPush or a Kick before the HelloAck that     *)
(* tells it who it is: whatever waits behind an undelivered HelloAck, the   *)
(* HelloAck is first.                                                       *)
HelloAckFirst ==
    \A c \in Conns : \A i \in 1 .. Len(out[c]) :
        out[c][i] \in {"ConfigPush", "Kick"} /\ ~acked[c] => out[c][1] = "HelloAck"

(* send_task.abort() after handle_client_session throws away what is still  *)
(* queued.  A ConfigPush or a Kick is among it only when the client had     *)
(* stopped sending first: no session leaves its loop while it may receive,  *)
(* and none that was refused or turned away was ever in the registry.       *)
AbortHarmless ==
    \A c \in Conns : pc[c] = "ending" /\ open[c] =>
        \A i \in 1 .. Len(out[c]) : out[c][i] \in {"HelloAck", "Reject"}

(* A client that is connected and whose credentials stand can be reached: a *)
(* push to its device finds an entry in the registry, as long as no session *)
(* of the device has said goodbye.                                          *)
AttachedReachable ==
    \A c \in Conns :
        (/\ pc[c] \in Established /\ open[c]
         /\ grant[c] = "valid"
         /\ \A k \in Conns : dev[k] = dev[c] => grant[k] # "departed"
         /\ status[dev[c]] \in Present) => clients[dev[c]] # NoConn

(* The parts of the inductive invariant that are not properties themselves. *)

(* A session past its room check, and a request, name a device; and a       *)
(* request's device has had a row.                                          *)
Named ==
    /\ \A c \in Conns : pc[c] \in {"select", "update"} \cup Attached
                           => dev[c] \in Devices
    /\ \A a \in Callers : apc[a] # "idle"
                           => adev[a] \in Devices /\ status[adev[a]] # "none"

(* upsert_device_hello acts on the status it read; 'kicked' is still true.  *)
SeenKicked ==
    \A c \in Conns : pc[c] = "update" /\ seen[c] = "kicked"
                         => status[dev[c]] \in {"kicked", "gone"}

(* Only sessions that got past their registration are revoked.              *)
RevokedEstablished ==
    \A c \in Conns : grant[c] = "revoked" => pc[c] \in Established \cup {"offline"}

(* Nothing is queued before the Hello is answered; then the HelloAck is     *)
(* taken or first in the queue; a session past its loop has heard the last  *)
(* of its client.                                                           *)
Queues ==
    \A c \in Conns :
        /\ pc[c] \in {"idle"} \cup Hellos => out[c] = << >> /\ ~acked[c]
        /\ pc[c] = "offline" => ~open[c]
        /\ pc[c] \in Attached /\ ~acked[c]
             => Len(out[c]) > 0 /\ out[c][1] = "HelloAck"

SessionsInv ==
    /\ TypeOK
    /\ Named
    /\ SeenKicked
    /\ OnlineBacked
    /\ RegistryLive
    /\ RevokedEstablished
    /\ RevokedUnregistered
    /\ Queues
    /\ HelloAckFirst
    /\ AbortHarmless

(* Rows move as the abstract device lifecycle allows: never back to         *)
(* 'pending', never out of 'kicked', never back from deletion.              *)
Lifecycle == INSTANCE DeviceLifecycle WITH Devices <- Devices, status <- status
LifecycleSpec == Lifecycle!Spec

(* When the last connection has closed for good, every session ends: the    *)
(* registry empties and no device stays 'online', the carried ones apart.   *)
ClosedIsForgotten ==
    <>[](\A c \in Conns : ~open[c]) =>
        <>[](\A d \in Devices :
                clients[d] = NoConn /\ (status[d] = "online" => d \in carried))

=============================================================================
