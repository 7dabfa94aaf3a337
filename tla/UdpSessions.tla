----------------------------- MODULE UdpSessions -----------------------------
(***************************************************************************)
(* Client sessions of the hub over UDP.  One task, the loop of serve_udp,   *)
(* takes one datagram after the other from the socket and serves it to the *)
(* end; `peers` tells it which device said Hello from an address.  There   *)
(* is no connection: datagrams are lost, arrive twice, or late, and no     *)
(* task ends when a client falls silent.  The registry and the rows are    *)
(* those of module Sessions, whose stream sessions are left out here.      *)
(*                                                                         *)
(* A datagram that a client may have sent may arrive now, later, again or  *)
(* never: the actions HelloNew, HelloAgain and Receive* are enabled from   *)
(* the moment it can have been sent on.  Every SQL statement and every use *)
(* of a lock is one step; web requests run in between.  Any statement may  *)
(* fail, a browser may give up on a request, and the process may stop,     *)
(* also because recv_from failed, which ends the hub.  What is pushed is   *)
(* the business of ConfigSync.                                             *)
(***************************************************************************)
EXTENDS Naturals, FiniteSets

CONSTANTS
    Devices,            \* device ids the hub may hand out
    Peers,              \* source addresses of datagrams
    Callers,            \* concurrent web requests
    NoDevice, NoPeer,   \* "none of them"
    MaxToken            \* bound: tokens a device is given in its life

ASSUME DevicesAssumption == NoDevice \notin Devices
ASSUME PeersAssumption   == NoPeer \notin Peers
ASSUME TokenAssumption   == MaxToken \in Nat \ {0}

VARIABLES
    \* the database
    room, status, token,
    \* AppState.clients: the address that the device's sender writes to
    clients,
    \* the loop of serve_udp
    peers,      \* address -> device
    pc,         \* what the loop is about to do
    from,       \* source of the datagram being served
    dev, tok,   \* device and token of a Hello, or the device of the address
    seen,       \* the status that upsert_device_hello read
    \* one web request
    apc, adev,
    \* history
    overlooked, \* a request took away what this Hello was let in with
    entry,      \* the same for the Hello that made the entry of a device
    carried,    \* devices that keep 'online' though no address stands for them
    strays      \* devices whose entry leads to an address taken by another

store   == <<room, status, token>>
local   == <<pc, from, dev, tok, seen>>
request == <<apc, adev>>
history == <<overlooked, entry, carried, strays>>
vars    == <<store, clients, peers, local, request, history>>

-----------------------------------------------------------------------------
Present == {"pending", "online", "offline", "kicked"}

Hellos  == {"room_exists", "insert", "select", "update"}
LetIn   == {"ack", "peers", "clients"}
Points  == {"recv", "sync", "d_offline", "d_peers"} \cup Hellos \cup LetIn
Requests == {"idle", "kick_drop", "drop"}

UdpTypeOK ==
    /\ room \in BOOLEAN
    /\ status \in [Devices -> Present \cup {"none", "gone"}]
    /\ token \in [Devices -> 0 .. MaxToken]
    /\ clients \in [Devices -> Peers \cup {NoPeer}]
    /\ peers \in [Peers -> Devices \cup {NoDevice}]
    /\ pc \in Points
    /\ from \in Peers \cup {NoPeer}
    /\ dev \in Devices \cup {NoDevice}
    /\ tok \in 0 .. MaxToken
    /\ seen \in Present \cup {"none"}
    /\ apc \in [Callers -> Requests]
    /\ adev \in [Callers -> Devices \cup {NoDevice}]
    /\ overlooked \in BOOLEAN
    /\ entry \in [Devices -> {"valid", "revoked", "overlooked"}]
    /\ carried \in SUBSET Devices
    /\ strays \in SUBSET Devices

Init ==
    /\ room = TRUE
    /\ status = [d \in Devices |-> "none"]
    /\ token = [d \in Devices |-> 0]
    /\ clients = [d \in Devices |-> NoPeer]
    /\ peers = [p \in Peers |-> NoDevice]
    /\ pc = "recv"
    /\ from = NoPeer /\ dev = NoDevice /\ tok = 0 /\ seen = "none"
    /\ apc = [a \in Callers |-> "idle"]
    /\ adev = [a \in Callers |-> NoDevice]
    /\ overlooked = FALSE
    /\ entry = [d \in Devices |-> "valid"]
    /\ carried = {} /\ strays = {}

-----------------------------------------------------------------------------
(* Helpers.                                                                 *)

Goto(p) == pc' = p /\ UNCHANGED <<from, dev, tok, seen>>

(* The datagram is served: `continue`.                                      *)
Done ==
    /\ pc' = "recv"
    /\ from' = NoPeer /\ dev' = NoDevice /\ tok' = 0 /\ seen' = "none"
    /\ overlooked' = FALSE

(* Mutants of MarkDevice: 'kicked' is not respected; a deleted row returns. *)
MarkDeviceForgivesKick(d, s) ==
    /\ status' = IF status[d] \in Present THEN [status EXCEPT ![d] = s] ELSE status
    /\ carried' = carried \ {d}

(* The UPDATE of devices.status that all handlers share; see Sessions.      *)
MarkDevice(d, s) ==
    /\ status' = IF status[d] \in Present \ {"kicked"}
                 THEN [status EXCEPT ![d] = s] ELSE status
    /\ carried' = carried \ {d}

(* state.clients.write().await.remove(&d)                                   *)
RemoveClient(d) ==
    /\ clients' = [clients EXCEPT ![d] = NoPeer]
    /\ entry' = [entry EXCEPT ![d] = "valid"]
    /\ strays' = strays \ {d}

(* Devices left 'online' when address p no longer stands for them.          *)
Abandoned(p, d) ==
    {e \in Devices \ {d} :
        peers[p] = e /\ status[e] = "online"
        /\ \A q \in Peers \ {p} : peers[q] # e}

-----------------------------------------------------------------------------
(* Hello.                                                                   *)

Take(p) == pc = "recv" /\ from' = p

HelloNew(p) ==
    /\ Take(p)
    /\ pc' = "room_exists"
    /\ UNCHANGED <<store, clients, peers, dev, tok, seen, request, history>>

(* A Hello with an id and any token this device ever had, even the one that *)
(* a request still being served has yet to answer with: more than a client  *)
(* knows (see Sessions), and nothing said here depends on it.               *)
HelloAgain(p, d, t) ==
    /\ Take(p)
    /\ status[d] # "none"
    /\ t \in 1 .. token[d]
    /\ pc' = "room_exists"
    /\ dev' = d
    /\ tok' = t
    /\ UNCHANGED <<store, clients, peers, seen, request, history>>

RoomExists ==
    /\ pc = "room_exists"
    /\ room
    /\ Goto(IF dev = NoDevice THEN "insert" ELSE "select")
    /\ UNCHANGED <<store, clients, peers, request, history>>

InsertDevice(d) ==
    /\ pc = "insert"
    /\ room
    /\ status[d] = "none"
    /\ status' = [status EXCEPT ![d] = "pending"]
    /\ token' = [token EXCEPT ![d] = 1]
    /\ dev' = d
    /\ tok' = 1
    /\ pc' = "ack"
    /\ UNCHANGED <<room, clients, peers, from, seen, request, history>>

(* Mutant of Authentic: the row is looked for, the token is not compared.   *)
AuthenticByIdOnly == status[dev] \in Present

Authentic == status[dev] \in Present /\ token[dev] = tok

SelectDevice ==
    /\ pc = "select"
    /\ Authentic
    /\ seen' = status[dev]
    /\ pc' = "update"
    /\ UNCHANGED <<store, clients, peers, from, dev, tok, request, history>>

(* The UPDATE; the HelloAck is handed to a task that sends it.              *)
UpdateDevice ==
    /\ pc = "update"
    /\ MarkDevice(dev, "online")
    /\ Goto("ack")
    /\ UNCHANGED <<room, token, clients, peers, request, overlooked,
                   entry, strays>>

(* No such room or device, another token, another protocol version, or a    *)
(* statement that fails, like the INSERT when the room has gone meanwhile   *)
(* (or, here, when no id is left).                                          *)
HelloFails ==
    /\ pc \in Hellos
    /\ Done
    /\ UNCHANGED <<store, clients, peers, request, entry, carried, strays>>

(* Mutant of Answered: a HelloAck that is never sent is waited for.         *)
AnsweredOnlySent(sent) == sent

(* The loop waits until the HelloAck is sent, or for one second, after      *)
(* which the send task may still send it: what a client knows is the same.  *)
Answered(sent) == TRUE

(* handle_udp_hello returns when the device is 'kicked'.                    *)
AfterAck(sent) ==
    /\ pc = "ack"
    /\ Answered(sent)
    /\ IF seen = "kicked" THEN Done
       ELSE pc' = "peers" /\ seen' = "none" /\ UNCHANGED <<from, dev, tok, overlooked>>
    /\ UNCHANGED <<store, clients, peers, request, entry, carried, strays>>

(* peers.write().await.insert(peer, id), then clients...insert(id, tx).     *)
InsertPeer ==
    /\ pc = "peers"
    /\ peers' = [peers EXCEPT ![from] = dev]
    /\ carried' = carried \cup Abandoned(from, dev)
    /\ strays' = strays \cup {e \in Devices \ {dev} : clients[e] = from}
    /\ Goto("clients")
    /\ UNCHANGED <<store, clients, request, overlooked, entry>>

InsertClient ==
    /\ pc = "clients"
    /\ clients' = [clients EXCEPT ![dev] = from]
    /\ entry' = [entry EXCEPT ![dev] =
                    IF overlooked THEN "overlooked"
                    ELSE IF tok = token[dev] /\ status[dev] # "kicked" THEN "valid"
                    ELSE "revoked"]
    /\ strays' = strays \ {dev}
    /\ Goto("sync")
    /\ UNCHANGED <<store, peers, request, overlooked, carried>>

(* push_current_config_if_needed, or what follows a ConfigState: it reads   *)
(* rows, inserts into config_pushes and sends, and changes nothing here.    *)
SyncConfig ==
    /\ pc = "sync"
    /\ Done
    /\ UNCHANGED <<store, clients, peers, request, entry, carried, strays>>

-----------------------------------------------------------------------------
(* Other messages, from an address that has said Hello; from any other they *)
(* are ignored, as is what cannot be parsed.                                *)

Receive(p) ==
    /\ Take(p)
    /\ peers[p] # NoDevice
    /\ dev' = peers[p]
    /\ UNCHANGED <<tok, seen>>

(* ConfigAck and a running ConfigState.                                     *)
ReceiveConfig(p) ==
    /\ Receive(p)
    /\ MarkDevice(peers[p], "online")
    /\ pc' = "sync"
    /\ UNCHANGED <<room, token, clients, peers, request, overlooked,
                   entry, strays>>

(* Mutant of ReceiveDisconnect: the entry of the device stays.              *)
ReceiveDisconnectKeepsEntry(p) ==
    /\ Receive(p)
    /\ pc' = "d_offline"
    /\ UNCHANGED <<store, clients, peers, request, history>>

ReceiveDisconnect(p) ==
    /\ Receive(p)
    /\ RemoveClient(peers[p])
    /\ pc' = "d_offline"
    /\ UNCHANGED <<store, peers, request, overlooked, carried>>

(* Mutant of DisconnectOffline: the row is not updated.                     *)
DisconnectOfflineSkips ==
    /\ pc = "d_offline"
    /\ Goto("d_peers")
    /\ UNCHANGED <<store, clients, peers, request, history>>

DisconnectOffline ==
    /\ pc = "d_offline"
    /\ MarkDevice(dev, "offline")
    /\ Goto("d_peers")
    /\ UNCHANGED <<room, token, clients, peers, request, overlooked, entry,
                   strays>>

(* The UPDATE of mark_device_offline fails, which nobody looks at.          *)
OfflineFails ==
    /\ pc = "d_offline"
    /\ carried' = carried \cup Abandoned(from, NoDevice)
    /\ Goto("d_peers")
    /\ UNCHANGED <<store, clients, peers, request, overlooked, entry, strays>>

(* Mutant of RemovePeer: the empty string instead of no entry.              *)
RemovePeerEmpty ==
    /\ pc = "d_peers"
    /\ peers' = [peers EXCEPT ![from] = ""]
    /\ Done
    /\ UNCHANGED <<store, clients, request, entry, carried, strays>>

RemovePeer ==
    /\ pc = "d_peers"
    /\ peers' = [peers EXCEPT ![from] = NoDevice]
    /\ Done
    /\ UNCHANGED <<store, clients, request, entry, carried, strays>>

LoopStep ==
    \/ RoomExists \/ SelectDevice \/ UpdateDevice \/ HelloFails
    \/ \E d \in Devices : InsertDevice(d)
    \/ AfterAck(FALSE)
    \/ InsertPeer \/ InsertClient \/ SyncConfig
    \/ DisconnectOffline \/ OfflineFails \/ RemovePeer

-----------------------------------------------------------------------------
(* Web requests; see Sessions.  A request is seen here from its write on:   *)
(* what it checked before may be true no longer.                            *)

Answer(a) ==
    /\ apc' = [apc EXCEPT ![a] = "idle"]
    /\ adev' = [adev EXCEPT ![a] = NoDevice]

Begin(a, d, p) ==
    /\ apc[a] = "idle"
    /\ apc' = [apc EXCEPT ![a] = p]
    /\ adev' = [adev EXCEPT ![a] = d]

(* What let a client in as d no longer would.  A Hello that has passed its  *)
(* check meanwhile, at most one, is let in all the same.                    *)
Revoke(d) ==
    /\ entry' = IF clients[d] # NoPeer /\ entry[d] = "valid"
                THEN [entry EXCEPT ![d] = "revoked"] ELSE entry
    /\ overlooked' = (overlooked \/ (dev = d /\ pc \in {"update"} \cup LetIn))
    /\ UNCHANGED strays

KickWrite(a, d) ==
    /\ Begin(a, d, "kick_drop")
    /\ status[d] \in Present
    /\ status' = [status EXCEPT ![d] = "kicked"]
    /\ carried' = carried \ {d}
    /\ Revoke(d)
    /\ UNCHANGED <<room, token, clients, peers, local>>

DeleteWrite(a, d) ==
    /\ Begin(a, d, "drop")
    /\ status[d] # "none"
    /\ status' = [status EXCEPT ![d] = "gone"]
    /\ carried' = carried \ {d}
    /\ Revoke(d)
    /\ UNCHANGED <<room, token, clients, peers, local>>

RegenWrite(a, d) ==
    /\ Begin(a, d, "drop")
    /\ status[d] \in Present
    /\ token[d] < MaxToken
    /\ token' = [token EXCEPT ![d] = @ + 1]
    /\ Revoke(d)
    /\ UNCHANGED <<room, status, clients, peers, local, carried>>

(* regenerate_device_token does not ask whether its UPDATE met a row.       *)
RegenMissing(a, d) ==
    /\ Begin(a, d, "drop")
    /\ status[d] = "gone"
    /\ UNCHANGED <<store, clients, peers, local, history>>

(* state.clients ... remove(&id), after a Kick was queued if it is a kick.  *)
DropClient(a) ==
    /\ apc[a] \in {"kick_drop", "drop"}
    /\ RemoveClient(adev[a])
    /\ Answer(a)
    /\ UNCHANGED <<store, peers, local, overlooked, carried>>

(* 404, 500, or a browser that goes away between two steps.                 *)
RequestFails(a) ==
    /\ apc[a] # "idle"
    /\ Answer(a)
    /\ entry' = IF apc[a] \in {"kick_drop", "drop"} /\ entry[adev[a]] = "revoked"
                THEN [entry EXCEPT ![adev[a]] = "overlooked"] ELSE entry
    /\ UNCHANGED <<store, clients, peers, local, overlooked, carried, strays>>

DeleteRoom ==
    /\ room
    /\ room' = FALSE
    /\ status' = [d \in Devices |->
                    IF status[d] \in Present THEN "gone" ELSE status[d]]
    /\ carried' = {}
    /\ UNCHANGED <<token, clients, peers, local, request, overlooked,
                   entry, strays>>

HubRestart ==
    /\ clients' = [d \in Devices |-> NoPeer]
    /\ peers' = [p \in Peers |-> NoDevice]
    /\ Done
    /\ apc' = [a \in Callers |-> "idle"]
    /\ adev' = [a \in Callers |-> NoDevice]
    /\ entry' = [d \in Devices |-> "valid"]
    /\ carried' = {d \in Devices : status[d] = "online"}
    /\ strays' = {}
    /\ UNCHANGED store

-----------------------------------------------------------------------------
Next ==
    \/ \E p \in Peers :
         \/ HelloNew(p)
         \/ \E d \in Devices, t \in 1 .. MaxToken : HelloAgain(p, d, t)
         \/ ReceiveConfig(p) \/ ReceiveDisconnect(p)
    \/ LoopStep
    \/ AfterAck(TRUE)
    \/ \E a \in Callers :
         \/ \E d \in Devices :
              \/ KickWrite(a, d) \/ DeleteWrite(a, d)
              \/ RegenWrite(a, d) \/ RegenMissing(a, d)
         \/ DropClient(a) \/ RequestFails(a)
    \/ DeleteRoom
    \/ HubRestart

Spec == Init /\ [][Next]_vars

(* The runtime keeps polling the loop, and its timer fires.  Nothing is     *)
(* assumed of clients, browsers or the network, nor that a send succeeds.   *)
FairSpec == Spec /\ WF_vars(LoopStep)

-----------------------------------------------------------------------------
(* Properties.                                                              *)

(* A device shown 'online' has an address that stands for it, from which a  *)
(* Disconnect will take it 'offline', or is about to get one.  `carried`    *)
(* are the exceptions: the process stopped, another device said Hello from  *)
(* its only address, or the UPDATE of its Disconnect failed.                *)
UdpOnlineBacked ==
    \A d \in Devices :
        status[d] = "online" /\ d \notin carried =>
            \/ \E p \in Peers : peers[p] = d
            \/ dev = d /\ pc \in {"ack", "peers"}

(* What is sent to a device goes to an address that stands for this device: *)
(* duplicated Hellos, late Disconnects and deletions in the middle never    *)
(* leave an entry behind that leads elsewhere, except where another device  *)
(* has said Hello from the same address (`strays`).                         *)
EntryAddressed ==
    \A d \in Devices :
        clients[d] # NoPeer /\ d \notin strays => peers[clients[d]] = d

(* Once a kick, a deletion or a new token is answered, the device is out of *)
(* the registry and no late or repeated Hello with what it knew before puts *)
(* it back; only one that was already past its check can.                   *)
RevokedSilent ==
    \A d \in Devices :
        clients[d] # NoPeer /\ entry[d] = "revoked" =>
            \E a \in Callers : adev[a] = d /\ apc[a] \in {"kick_drop", "drop"}

(* What the loop has in its hands at each of its points.  A Hello that no   *)
(* request has met since its check still has the device's token, and saw    *)
(* whether it was kicked.  With the properties above this is inductive.     *)
InHand ==
    /\ pc # "recv" => from \in Peers
    /\ pc = "insert" => dev = NoDevice
    /\ pc \in Points \ {"recv", "room_exists", "insert"} => dev \in Devices
    /\ pc \in {"recv", "room_exists", "insert", "select"} => seen = "none"

CheckStands ==
    /\ pc \in {"update", "ack"} /\ seen = "kicked" => status[dev] \in {"kicked", "gone"}
    /\ pc \in {"update"} \cup LetIn /\ ~overlooked =>
         /\ tok = token[dev]
         /\ status[dev] = "kicked" => pc \in {"update", "ack"} /\ seen = "kicked"

AtAddress ==
    /\ pc = "clients" => peers[from] = dev
    /\ pc \in {"d_offline", "d_peers"} => peers[from] = dev /\ clients[dev] = NoPeer
    /\ pc = "d_peers" /\ status[dev] = "online" /\ dev \notin carried =>
         \E p \in Peers \ {from} : peers[p] = dev

UdpInv ==
    /\ UdpTypeOK /\ InHand /\ CheckStands /\ AtAddress
    /\ UdpOnlineBacked /\ EntryAddressed /\ RevokedSilent

(* Rows move as the abstract device lifecycle allows.                       *)
Lifecycle == INSTANCE DeviceLifecycle WITH Devices <- Devices, status <- status
LifecycleSpec == Lifecycle!Spec

(* No Hello and no Disconnect holds the loop for good: it comes back to     *)
(* recv_from, also when a HelloAck cannot be sent.                          *)
LoopReturns == pc # "recv" ~> pc = "recv"
=============================================================================
