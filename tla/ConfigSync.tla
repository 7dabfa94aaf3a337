----------------------------- MODULE ConfigSync -----------------------------
(***************************************************************************)
(* How a group's configuration travels: edited by administrators, given a  *)
(* version, pushed to a device, applied by the client, acknowledged, and   *)
(* compared again when the client reports its state or comes back.         *)
(*                                                                         *)
(* One device with one session at a time, several groups, several          *)
(* administrators.  Every SQL statement is an atomic step; a value read in *)
(* one step and used in a later one is kept in a local.  A configuration   *)
(* is a number: 0 is VntClientConfig::default(), every edit makes a new    *)
(* one.  The client is external; it applies the pushes in the order they   *)
(* arrive and reports what it applied.                                     *)
(***************************************************************************)
EXTENDS Naturals, Sequences, FiniteSets, Functions

CONSTANTS
    AdminGroups,    \* groups that exist from the start, at version 1
    ClientGroups,   \* ids for groups made from a client's own configuration
    NoGroup,
    Editors,        \* administrators who edit groups and move the device
    Pushers,        \* administrators who push configurations
    U32,            \* number of values of a u32
    MaxVersion,     \* bound: versions an edit or a push may start from
    MaxChanges,     \* bound: edits, moves, removals and deletions
    MaxBreaks,      \* bound: lost connections
    MaxWire         \* bound: messages under way when another one is asked for

Groups == AdminGroups \cup ClientGroups
Admins == Editors \cup Pushers      \* each has one request at a time

ASSUME GroupsAssumption  == /\ NoGroup \notin Groups
                            /\ AdminGroups \cap ClientGroups = {}
                            /\ IsFiniteSet(AdminGroups)
ASSUME BoundsAssumption  == /\ U32 \in Nat \ {0}
                            /\ MaxVersion \in Nat \ {0}
                            /\ MaxChanges \in Nat
                            /\ MaxBreaks \in Nat
                            /\ MaxWire \in Nat \ {0}

VARIABLES
    grp,        \* table groups: row present, config_version, content
    dgroup,     \* devices.group_id
    dver,       \* devices.config_version
    pc, loc,    \* the session's next step, and the configuration it holds
    link,       \* the transport is up
    down, up,   \* ConfigPush messages, ConfigAck and ConfigState messages
    has,        \* what the client runs
    apc, aloc,  \* an administrator's request, and the configuration it holds
    asked,      \* history: the device's current configuration was pushed by
                \* an administrator, online or not, since it last changed
    raced,      \* history: groups of which an edit began while the hub was
                \* still making the group, or another edit was under way
    changes,    \* edits and moves so far
    breaks      \* lost connections so far

device  == <<dgroup, dver>>
session == <<pc, loc>>
wire    == <<link, down, up>>
request == <<apc, aloc>>
history == <<asked, raced>>
bounds  == <<changes, breaks>>
vars    == <<grp, device, session, wire, has, request, history, bounds>>

-----------------------------------------------------------------------------
Config == [grp : Groups \cup {NoGroup}, ver : Nat, cfg : Nat]
Report == [type : {"ConfigAck", "ConfigState"}, run : BOOLEAN, conf : Config]

Nothing == [grp |-> NoGroup, ver |-> 0, cfg |-> 0]

TypeOK ==
    /\ grp \in [Groups -> [live : BOOLEAN, ver : Nat, cfg : Nat]]
    /\ dgroup \in Groups \cup {NoGroup}
    /\ dver \in Nat
    /\ pc \in {"off", "hello", "sync", "recv", "state", "named", "compare",
               "attach", "create", "version", "group", "dver", "read", "send"}
    /\ loc \in Config /\ has \in Config
    /\ link \in BOOLEAN
    /\ down \in Seq(Config)
    /\ up \in Seq(Report) /\ Len(up) <= MaxWire
    /\ apc \in [Admins -> {"idle", "write", "move", "read", "send"}]
    /\ aloc \in [Admins -> Config]
    /\ asked \in BOOLEAN
    /\ raced \in SUBSET Groups
    /\ changes \in 0 .. MaxChanges
    /\ breaks \in 0 .. MaxBreaks

Init ==
    /\ \E cfg \in Injection(AdminGroups, 1 .. Cardinality(AdminGroups)) :
         grp = [g \in Groups |->
                 IF g \in AdminGroups THEN [live |-> TRUE, ver |-> 1, cfg |-> cfg[g]]
                 ELSE [live |-> FALSE, ver |-> 0, cfg |-> 0]]
    /\ dgroup \in AdminGroups \cup {NoGroup}
    /\ dver = 0
    /\ pc = "off"
    /\ loc = Nothing /\ has = Nothing
    /\ link = FALSE
    /\ down = << >> /\ up = << >>
    /\ apc = [a \in Admins |-> "idle"]
    /\ aloc = [a \in Admins |-> Nothing]
    /\ asked = FALSE
    /\ raced = {}
    /\ changes = 0
    /\ breaks = 0

-----------------------------------------------------------------------------
(* Helpers.                                                                 *)

AsU32(v) == v % U32

Exists(g) == g \in Groups /\ grp[g].live

(* device_config: the group's version and content, for the device's group   *)
(* or the one a batch push names; without a group the version after the     *)
(* device's own and the default configuration.                              *)
DeviceConfig(g) ==
    IF Exists(g) THEN [grp |-> g, ver |-> grp[g].ver, cfg |-> grp[g].cfg]
    ELSE [Nothing EXCEPT !.ver = dver + 1]

(* The end of push_config_to_device: tx.send(ConfigPush) with the version   *)
(* as a u32, to a transport that may be gone.                               *)
Send(c) ==
    down' = IF link THEN Append(down, [c EXCEPT !.ver = AsU32(@)]) ELSE down

(* UPDATE devices SET group_id = g, refused by the foreign key.             *)
Assignable(g) == g = NoGroup \/ Exists(g)

Goto(p) == pc' = p /\ UNCHANGED loc
Done    == pc' = "recv" /\ loc' = Nothing

-----------------------------------------------------------------------------
(* The session: handle_client_session from the registration on.             *)

(* push_current_config_if_needed reads the row; a device without a group is *)
(* left alone ...                                                           *)
HelloRow ==
    /\ pc = "hello"
    /\ IF dgroup = NoGroup THEN Done
       ELSE pc' = "sync" /\ loc' = [Nothing EXCEPT !.ver = dver]
    /\ UNCHANGED <<grp, device, wire, has, request, history, bounds>>

(* ... then the configuration, and pushes when that is ahead.               *)
HelloSync ==
    /\ pc = "sync"
    /\ IF DeviceConfig(dgroup).ver > loc.ver THEN Goto("read") ELSE Done
    /\ UNCHANGED <<grp, device, wire, has, request, history, bounds>>

(* push_config_to_device reads the configuration ...                        *)
ReadConfig ==
    /\ pc = "read"
    /\ pc' = "send"
    /\ loc' = DeviceConfig(dgroup)
    /\ UNCHANGED <<grp, device, wire, has, request, history, bounds>>

(* ... and sends what it read, records and token reads later.               *)
SendConfig ==
    /\ pc = "send"
    /\ Send(loc)
    /\ Done
    /\ UNCHANGED <<grp, device, link, up, has, request, history, bounds>>

ReceiveAck ==
    /\ pc = "recv" /\ up # << >> /\ Head(up).type = "ConfigAck"
    /\ dver' = Head(up).conf.ver
    /\ up' = Tail(up)
    /\ UNCHANGED <<grp, dgroup, session, link, down, has, request, history, bounds>>

(* sync_reported_config_state, first statement.                             *)
ReceiveState ==
    /\ pc = "recv" /\ up # << >> /\ Head(up).type = "ConfigState"
    /\ dver' = IF Head(up).run THEN Head(up).conf.ver ELSE dver
    /\ up' = Tail(up)
    /\ pc' = "state"
    /\ loc' = Head(up).conf
    /\ UNCHANGED <<grp, dgroup, link, down, has, request, history, bounds>>

(* The device's group decides; without one, the group the client names;     *)
(* without that, a new group is made of what the client runs.               *)
StateRow ==
    /\ pc = "state"
    /\ Goto(IF dgroup # NoGroup THEN "compare" ELSE "named")
    /\ UNCHANGED <<grp, device, wire, has, request, history, bounds>>

NamedGroup ==
    /\ pc = "named"
    /\ Goto(IF Exists(loc.grp) THEN "attach" ELSE "create")
    /\ UNCHANGED <<grp, device, wire, has, request, history, bounds>>

(* Mutant of Compare: a device one version behind is left alone.            *)
CompareOffByOne ==
    /\ pc = "compare"
    /\ IF AsU32(DeviceConfig(dgroup).ver) > loc.ver + 1 THEN Goto("read") ELSE Done
    /\ UNCHANGED <<grp, device, wire, has, request, history, bounds>>

(* push_if_console_config_differs: versions are compared, nothing else.     *)
Compare ==
    /\ pc = "compare"
    /\ IF AsU32(DeviceConfig(dgroup).ver) # loc.ver THEN Goto("read") ELSE Done
    /\ UNCHANGED <<grp, device, wire, has, request, history, bounds>>

Attach ==
    /\ pc = "attach"
    /\ \/ Exists(loc.grp) /\ dgroup' = loc.grp /\ Goto("compare")
       \/ ~Exists(loc.grp) /\ UNCHANGED dgroup /\ Done
    /\ asked' = FALSE
    /\ UNCHANGED <<grp, dver, wire, has, request, raced, bounds>>

(* create_group_with_version: an INSERT at version 1 ...  When the bound on *)
(* ids is reached the INSERT fails, which the code logs.                    *)
CreateGroup(g) ==
    /\ pc = "create"
    /\ grp[g].ver = 0
    /\ grp' = [grp EXCEPT ![g] = [live |-> TRUE, ver |-> 1, cfg |-> loc.cfg]]
    /\ loc' = [loc EXCEPT !.grp = g]
    /\ pc' = "version"
    /\ UNCHANGED <<device, wire, has, request, history, bounds>>

CreateFails ==
    /\ pc = "create"
    /\ \A g \in ClientGroups : grp[g].ver > 0
    /\ Done
    /\ UNCHANGED <<grp, device, wire, has, request, history, bounds>>

(* ... and an UPDATE to the client's version, which is not below 1.         *)
CreateVersion ==
    /\ pc = "version"
    /\ grp' = IF Exists(loc.grp) /\ loc.ver > 1
              THEN [grp EXCEPT ![loc.grp].ver = loc.ver] ELSE grp
    /\ Goto("group")
    /\ UNCHANGED <<device, wire, has, request, history, bounds>>

CreateAttach ==
    /\ pc = "group"
    /\ \/ Exists(loc.grp) /\ dgroup' = loc.grp /\ Goto("dver")
       \/ ~Exists(loc.grp) /\ UNCHANGED dgroup /\ Done
    /\ asked' = FALSE
    /\ UNCHANGED <<grp, dver, wire, has, request, raced, bounds>>

CreateDver ==
    /\ pc = "dver"
    /\ dver' = loc.ver
    /\ Done
    /\ UNCHANGED <<grp, dgroup, wire, has, request, history, bounds>>

SessionEnds ==
    /\ pc = "recv" /\ ~link /\ up = << >>
    /\ Goto("off")
    /\ UNCHANGED <<grp, device, wire, has, request, history, bounds>>

SessionStep ==
    \/ HelloRow \/ HelloSync \/ ReadConfig \/ SendConfig \/ ReceiveAck \/ ReceiveState
    \/ StateRow \/ NamedGroup \/ Compare \/ Attach \/ CreateFails \/ CreateVersion
    \/ CreateAttach \/ CreateDver \/ SessionEnds
    \/ \E g \in ClientGroups : CreateGroup(g)

-----------------------------------------------------------------------------
(* Administrators.                                                          *)

Begin(a, p, c) ==
    /\ apc[a] = "idle"
    /\ apc' = [apc EXCEPT ![a] = p]
    /\ aloc' = [aloc EXCEPT ![a] = c]

Answer(a) ==
    /\ apc' = [apc EXCEPT ![a] = "idle"]
    /\ aloc' = [aloc EXCEPT ![a] = Nothing]

Change ==
    /\ changes < MaxChanges
    /\ changes' = changes + 1
    /\ UNCHANGED breaks

(* A configuration nobody has written before.                               *)
NewConfig == Cardinality(AdminGroups) + changes + 1

(* A group is listed, and can be edited, from its INSERT on, before the     *)
(* UPDATE that gives it the client's version; and nothing keeps two         *)
(* administrators from editing a group at once.                             *)
BeingCreated(g) == pc = "version" /\ loc.grp = g

BeginEdit(a, g, new) ==
    /\ Exists(g)
    /\ grp[g].ver < MaxVersion
    /\ Change
    /\ Begin(a, "write", new)
    /\ raced' = IF \/ BeingCreated(g)
                   \/ \E b \in Admins : apc[b] = "write" /\ aloc[b].grp = g
                THEN raced \cup {g} ELSE raced
    /\ UNCHANGED <<grp, device, session, wire, has, asked>>

(* Mutant of EditSelect: the version is not increased.                      *)
EditSelectSameVersion(a, g, cfg) ==
    BeginEdit(a, g, [grp |-> g, ver |-> grp[g].ver, cfg |-> cfg])

(* update_group reads the row; the request holds a new configuration, or    *)
(* none (0) when only the name changes.                                     *)
EditSelect(a, g, cfg) ==
    BeginEdit(a, g, [grp |-> g, ver |-> grp[g].ver + 1, cfg |-> cfg])

(* Its UPDATE writes the version computed from that read, and the           *)
(* configuration if the request holds one.                                  *)
EditedRow(new) ==
    [live |-> TRUE, ver |-> new.ver,
     cfg |-> IF new.cfg = 0 THEN grp[new.grp].cfg ELSE new.cfg]

EditWrite(a) ==
    /\ apc[a] = "write"
    /\ LET new == aloc[a] IN
       grp' = IF Exists(new.grp) THEN [grp EXCEPT ![new.grp] = EditedRow(new)] ELSE grp
    /\ asked' = FALSE
    /\ Answer(a)
    /\ UNCHANGED <<device, session, wire, has, raced, bounds>>

(* add_group_device checks the group; update_device of a device reads the   *)
(* row and will write back the group it read unless the request names one.  *)
MoveCheck(a, g) ==
    /\ Exists(g) \/ g = dgroup
    /\ Change
    /\ Begin(a, "move", [Nothing EXCEPT !.grp = g])
    /\ UNCHANGED <<grp, device, session, wire, has, history>>

MoveWrite(a) ==
    /\ apc[a] = "move"
    /\ dgroup' = IF Assignable(aloc[a].grp) THEN aloc[a].grp ELSE dgroup
    /\ asked' = FALSE
    /\ Answer(a)
    /\ UNCHANGED <<grp, dver, session, wire, has, raced, bounds>>

(* Mutant of RemoveFromGroup: the empty string instead of NULL.             *)
RemoveFromGroupEmpty(a) ==
    /\ apc[a] = "idle"
    /\ Change
    /\ dgroup' = ""
    /\ asked' = FALSE
    /\ UNCHANGED <<grp, dver, session, wire, has, request, raced>>

RemoveFromGroup(a) ==
    /\ apc[a] = "idle"
    /\ Change
    /\ dgroup' = NoGroup
    /\ asked' = FALSE
    /\ UNCHANGED <<grp, dver, session, wire, has, request, raced>>

DeleteGroup(a, g) ==
    /\ apc[a] = "idle"
    /\ Exists(g)
    /\ Change
    /\ grp' = [grp EXCEPT ![g].live = FALSE]
    /\ dgroup' = IF dgroup = g THEN NoGroup ELSE dgroup
    /\ asked' = FALSE
    /\ UNCHANGED <<dver, session, wire, has, request, raced>>

(* push_device (g = NoGroup), or push_group for the group the device is in  *)
(* when the members are listed.                                             *)
StartPush(a, g) ==
    /\ g \in {NoGroup, dgroup}
    /\ Len(down) < MaxWire
    /\ dgroup = NoGroup => dver < MaxVersion
    /\ Begin(a, "read", [Nothing EXCEPT !.grp = g])
    /\ UNCHANGED <<grp, device, session, wire, has, history, bounds>>

PushRead(a) ==
    /\ apc[a] = "read"
    /\ LET g == aloc[a].grp IN
       \/ /\ g = NoGroup \/ Exists(g)
          /\ apc' = [apc EXCEPT ![a] = "send"]
          /\ aloc' = [aloc EXCEPT ![a] = DeviceConfig(IF g = NoGroup THEN dgroup ELSE g)]
       \/ /\ g # NoGroup /\ ~Exists(g)
          /\ Answer(a)
    /\ UNCHANGED <<grp, device, session, wire, has, history, bounds>>

PushSend(a) ==
    /\ apc[a] = "send"
    /\ Send(aloc[a])
    /\ asked' = (asked \/ aloc[a] = DeviceConfig(dgroup))
    /\ Answer(a)
    /\ UNCHANGED <<grp, device, session, link, up, has, raced, bounds>>

AdminStep(a) == EditWrite(a) \/ MoveWrite(a) \/ PushRead(a) \/ PushSend(a)

-----------------------------------------------------------------------------
(* The client and the transport (external).                                 *)

Hello ==
    /\ pc = "off"
    /\ Goto("hello")
    /\ link' = TRUE
    /\ UNCHANGED <<grp, device, down, up, has, request, history, bounds>>

ClientApply ==
    /\ down # << >> /\ Len(up) < MaxWire
    /\ has' = Head(down)
    /\ down' = Tail(down)
    /\ up' = Append(up, [type |-> "ConfigAck", run |-> TRUE, conf |-> Head(down)])
    /\ UNCHANGED <<grp, device, session, link, request, history, bounds>>

ClientReport(run) ==
    /\ link /\ up = << >> /\ Len(down) < MaxWire
    /\ up' = <<[type |-> "ConfigState", run |-> run, conf |-> has]>>
    /\ UNCHANGED <<grp, device, session, link, down, has, request, history, bounds>>

(* The connection breaks; of the client's messages some had arrived.        *)
Break(n) ==
    /\ link /\ breaks < MaxBreaks
    /\ breaks' = breaks + 1
    /\ link' = FALSE
    /\ down' = << >>
    /\ up' = SubSeq(up, 1, n)
    /\ UNCHANGED <<grp, device, session, has, request, history, changes>>

-----------------------------------------------------------------------------
Next ==
    \/ SessionStep
    \/ \E a \in Editors :
         \/ \E g \in Groups, cfg \in {0, NewConfig} : EditSelect(a, g, cfg)
         \/ \E g \in Groups \cup {NoGroup} : MoveCheck(a, g)
         \/ \E g \in Groups : DeleteGroup(a, g)
         \/ RemoveFromGroup(a)
    \/ \E a \in Pushers, g \in Groups \cup {NoGroup} : StartPush(a, g)
    \/ \E a \in Admins : AdminStep(a)
    \/ Hello \/ ClientApply
    \/ \E run \in BOOLEAN : ClientReport(run)
    \/ \E n \in 0 .. Len(up) : Break(n)

Spec == Init /\ [][Next]_vars

(* The hub's tasks proceed; the client comes back, applies what it is sent  *)
(* and keeps reporting while it is connected.  Administrators are free.     *)
Fairness ==
    /\ WF_vars(SessionStep)
    /\ \A a \in Admins : WF_vars(AdminStep(a))
    /\ WF_vars(Hello) /\ WF_vars(ClientApply)
    /\ SF_vars(ClientReport(TRUE))

FairSpec == Spec /\ Fairness

-----------------------------------------------------------------------------
(* Properties.                                                              *)

(* Every copy of a group's configuration: the row, messages under way, what *)
(* the requests and the session hold to be sent, and what the client runs.  *)
Copies ==
    {DeviceConfig(g) : g \in {h \in Groups : Exists(h)}}
    \cup {has} \cup {down[i] : i \in 1 .. Len(down)}
    \cup (IF pc = "send" THEN {loc} ELSE {})
    \cup {aloc[a] : a \in {b \in Admins : apc[b] = "send"}}

(* A version names one configuration of a group: two copies with the same   *)
(* group and version have the same content, so that comparing versions, all *)
(* the code does, is enough within a group.  Of a group that was edited by  *)
(* two administrators at once, or by one before the hub had finished making *)
(* it, that is not true, for as long as the group lives.                    *)
VersionNamesContent ==
    \A x, y \in Copies :
        (/\ x.grp = y.grp /\ x.grp \notin raced \cup {NoGroup}
         /\ x.ver = y.ver) => x.cfg = y.cfg

(* What makes that inductive.  No version is so high that a push, whose     *)
(* version is a u32, would name another one.                                *)
VersionsFit == MaxVersion < U32

(* Versions of groups, and those the client reports, are those of a u32.    *)
Fits ==
    /\ \A g \in Groups : grp[g].ver < U32 /\ (grp[g].live => grp[g].ver > 0)
    /\ has.ver < U32
    /\ \A i \in 1 .. Len(down) : down[i].ver < U32
    /\ \A i \in 1 .. Len(up) : up[i].conf.ver < U32
    /\ pc \in {"state", "named", "attach", "create", "version", "group", "dver"}
         => loc.ver < U32

(* The version an edit will write follows the one in the row, nobody else   *)
(* is editing the group, and the hub is not making it; unless it is raced.  *)
NextVersion ==
    /\ \A a \in Admins : apc[a] = "write" =>
         LET g == aloc[a].grp IN
         /\ g \in Groups /\ grp[g].ver > 0
         /\ aloc[a].ver \in 1 .. MaxVersion
         /\ g \notin raced =>
              /\ ~BeingCreated(g)
              /\ aloc[a].ver = grp[g].ver + 1
              /\ \A b \in Admins : apc[b] = "write" /\ aloc[b].grp = g => b = a
    /\ pc = "version" =>
         /\ loc.grp \in Groups /\ grp[loc.grp].ver > 0
         /\ loc.grp \notin raced => grp[loc.grp].ver = 1

(* A copy is no newer than the row it was read from, and as good as it when *)
(* it has the same version; that stays so when the row is gone.             *)
CopiesOfRows ==
    \A x \in Copies : x.grp \notin raced \cup {NoGroup} =>
        /\ x.ver \in 1 .. grp[x.grp].ver
        /\ x.ver = grp[x.grp].ver => x.cfg = grp[x.grp].cfg

ConfigInv ==
    TypeOK /\ Fits /\ NextVersion /\ CopiesOfRows /\ VersionNamesContent

(* Whatever pushes overtake each other and whatever acknowledgements are    *)
(* lost, a client that runs a configuration of its own group ends up with   *)
(* that group's current one, if a version of it names one configuration.    *)
OwnGroupCurrent ==
    <>[](Exists(dgroup) /\ has.grp = dgroup /\ dgroup \notin raced
            => has.cfg = grp[dgroup].cfg)

(* A configuration that an administrator pushed to the members of a group,  *)
(* the device being online or not, is the one the device ends up with.      *)
PushedArrives ==
    <>[](asked /\ Exists(dgroup)) =>
        <>[](Exists(dgroup) /\ has.cfg = grp[dgroup].cfg)
=============================================================================
