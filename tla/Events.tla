-------------------------------- MODULE Events --------------------------------
(***************************************************************************)
(* What devices report, from the receive loop to those who watch: the      *)
(* runtime columns of the device's row, the table events, the broadcast    *)
(* channel behind /api/events/stream and the list of /api/events.          *)
(*                                                                         *)
(* A report is its number, in the order of reception.  Several sessions    *)
(* may report for one device.  tokio's broadcast channel is external: a    *)
(* ring of Cap messages, one position per receiver.  Filters of the list   *)
(* and the columns' values are left out.  So are imports of backups: a     *)
(* merge adds events that nobody announces, an overwrite may take events   *)
(* and columns away; what is said below holds between imports.             *)
(***************************************************************************)
EXTENDS Naturals, Sequences, FiniteSets

CONSTANTS
    Devices, Sessions, Viewers,
    Kinds,                      \* of reports: some of AllKinds
    Cap,                        \* of the broadcast channel: 1024 in the code
    Limit,                      \* of the list of events, clamped to 1 .. 1000
    MaxReports, MaxTime         \* bounds: reports received, seconds that pass

AllKinds == {"traffic_event", "vnts_event", "event", "traffic_stats"}

ASSUME KindsAssumption == Kinds \subseteq AllKinds
ASSUME CapAssumption   == Cap \in Nat \ {0} /\ Limit \in Nat \ {0}
ASSUME BoundAssumption == MaxReports \in Nat /\ MaxTime \in Nat

VARIABLES
    dev,            \* the device of a session
    rows,           \* ids in table devices
    clock,          \* db::now(), in seconds
    pc, cur, at,    \* per session: its point in handle_client_message, the
                    \* report it handles, the created_at it has computed
    shown,          \* shown[d][k]: the report in d's columns of kind k, or 0
    stored,         \* table events: [id, dev, at]
    announced,      \* what the channel was sent while somebody listened
    open, next,     \* per viewer: is there, position of its receiver
    items,          \* what its stream has yielded
    listed,         \* the rows its list of events returned
    \* history:
    received,       \* received[n]: the session and the kind of report n
    done,           \* done[s][k]: the last report of kind k that s completed
    since           \* the viewer's position when it subscribed

session  == <<pc, cur, at>>
database == <<rows, shown, stored>>
viewer   == <<open, next, items, listed, since>>
vars     == <<dev, database, clock, session, announced, viewer, received, done>>

-----------------------------------------------------------------------------
(* EventReports by their event_type: of the four traffic types with both    *)
(* counters, "vnts_status" with a status, or anything else; and the message *)
(* TrafficStats, which is no event.                                         *)
Columns == {"traffic", "vnts"}
ColumnsOf(kind) == IF kind \in {"traffic_event", "traffic_stats"} THEN {"traffic"}
                   ELSE IF kind = "vnts_event" THEN {"vnts"} ELSE {}

Reports == 1 .. MaxReports
NoList  == [taken |-> FALSE, ids |-> {}, full |-> FALSE, oldest |-> 0]
Yield   == [kind : {"event"}, id : Reports] \cup [kind : {"error"}, missed : Reports]

TypeOK ==
    /\ dev \in [Sessions -> Devices]
    /\ rows \subseteq Devices
    /\ clock \in 0 .. MaxTime
    /\ pc \in [Sessions -> {"recv", "update", "insert", "send"}]
    /\ cur \in [Sessions -> 0 .. MaxReports]
    /\ at \in [Sessions -> 0 .. MaxTime]
    /\ shown \in [Devices -> [Columns -> 0 .. MaxReports]]
    /\ stored \subseteq [id : Reports, dev : Devices, at : 0 .. MaxTime]
    /\ announced \in Seq(Reports)
    /\ open \in [Viewers -> BOOLEAN]
    /\ next \in [Viewers -> 0 .. MaxReports]
    /\ items \in [Viewers -> Seq(Yield)]
    /\ listed \in [Viewers -> [taken : BOOLEAN, ids : SUBSET Reports,
                               full : BOOLEAN, oldest : 0 .. MaxTime]]
    /\ received \in Seq([by : Sessions, kind : Kinds])
    /\ done \in [Sessions -> [Columns -> 0 .. MaxReports]]
    /\ since \in [Viewers -> 0 .. MaxReports]

Init ==
    /\ dev \in [Sessions -> Devices]
    /\ rows = Devices
    /\ clock = 0
    /\ pc = [s \in Sessions |-> "recv"]
    /\ cur = [s \in Sessions |-> 0] /\ at = [s \in Sessions |-> 0]
    /\ shown = [d \in Devices |-> [k \in Columns |-> 0]]
    /\ stored = {} /\ announced = << >>
    /\ open = [v \in Viewers |-> FALSE] /\ next = [v \in Viewers |-> 0]
    /\ items = [v \in Viewers |-> << >>]
    /\ listed = [v \in Viewers |-> NoList]
    /\ received = << >>
    /\ done = [s \in Sessions |-> [k \in Columns |-> 0]]
    /\ since = [v \in Viewers |-> 0]

-----------------------------------------------------------------------------
(* The receive loop and handle_client_message.                              *)

(* inbound.recv().  Without a column to update, created_at is computed now. *)
Receive(s, kind) ==
    /\ pc[s] = "recv"
    /\ Len(received) < MaxReports
    /\ received' = Append(received, [by |-> s, kind |-> kind])
    /\ cur' = [cur EXCEPT ![s] = Len(received) + 1]
    /\ IF ColumnsOf(kind) # {}
         THEN pc' = [pc EXCEPT ![s] = "update"] /\ UNCHANGED at
         ELSE pc' = [pc EXCEPT ![s] = "insert"] /\ at' = [at EXCEPT ![s] = clock]
    /\ UNCHANGED <<dev, database, clock, announced, viewer, done>>

KindOf(s) == received[cur[s]].kind

(* Back to inbound.recv(): the handler's locals are gone.                   *)
Loop(s) ==
    /\ pc' = [pc EXCEPT ![s] = "recv"]
    /\ cur' = [cur EXCEPT ![s] = 0]
    /\ at' = [at EXCEPT ![s] = 0]

(* Mutant of ShownAfter: COALESCE the wrong way round, the first one stays. *)
ShownAfterFirst(s) ==
    [shown EXCEPT ![dev[s]] = [k \in Columns |->
        IF k \in ColumnsOf(KindOf(s)) /\ dev[s] \in rows /\ @[k] = 0
        THEN cur[s] ELSE @[k]]]

(* UPDATE devices ... WHERE id: no row, no effect.                          *)
ShownAfter(s) ==
    [shown EXCEPT ![dev[s]] = [k \in Columns |->
        IF k \in ColumnsOf(KindOf(s)) /\ dev[s] \in rows THEN cur[s] ELSE @[k]]]

(* update_device_traffic or update_device_vnts_status; a TrafficStats is    *)
(* done with it.                                                            *)
Update(s) ==
    /\ pc[s] = "update"
    /\ shown' = ShownAfter(s)
    /\ done' = [done EXCEPT ![s] = [k \in Columns |->
                   IF k \in ColumnsOf(KindOf(s)) THEN cur[s] ELSE @[k]]]
    /\ IF KindOf(s) = "traffic_stats"
         THEN Loop(s)
         ELSE /\ pc' = [pc EXCEPT ![s] = "insert"]
              /\ at' = [at EXCEPT ![s] = clock]
              /\ UNCHANGED cur
    /\ UNCHANGED <<dev, rows, stored, clock, announced, viewer, received>>

(* INSERT INTO events; its foreign key needs the row of the device.         *)
Insert(s) ==
    /\ pc[s] = "insert"
    /\ dev[s] \in rows
    /\ stored' = stored \cup {[id |-> cur[s], dev |-> dev[s], at |-> at[s]]}
    /\ pc' = [pc EXCEPT ![s] = "send"]
    /\ UNCHANGED <<dev, rows, shown, clock, cur, at, announced, viewer, received, done>>

(* Mutant of Fail: the result of the INSERT is not looked at.               *)
FailIgnored(s) ==
    /\ pc[s] = "insert"
    /\ pc' = [pc EXCEPT ![s] = "send"]
    /\ UNCHANGED <<dev, database, clock, cur, at, announced, viewer, received, done>>

(* A statement fails: the rest of the report is dropped, the loop goes on.  *)
Fail(s) ==
    /\ pc[s] \in {"update", "insert"}
    /\ Loop(s)
    /\ UNCHANGED <<dev, database, clock, announced, viewer, received, done>>

(* Mutant of Send: it is done again.                                        *)
SendAgain(s) ==
    /\ pc[s] = "send"
    /\ \E v \in Viewers : open[v]
    /\ Len(announced) < MaxReports
    /\ announced' = Append(announced, cur[s])
    /\ UNCHANGED <<dev, database, clock, session, viewer, received, done>>

(* state.events.send: without a receiver nothing is kept.                   *)
Send(s) ==
    /\ pc[s] = "send"
    /\ announced' = IF \E v \in Viewers : open[v] THEN Append(announced, cur[s])
                                                 ELSE announced
    /\ Loop(s)
    /\ UNCHANGED <<dev, database, clock, viewer, received, done>>

(* delete_device, delete_room: one transaction.                             *)
DeleteDevice(d) ==
    /\ d \in rows
    /\ rows' = rows \ {d}
    /\ stored' = {e \in stored : e.dev # d}
    /\ UNCHANGED <<dev, clock, session, shown, announced, viewer, received, done>>

Tick ==
    /\ clock < MaxTime
    /\ clock' = clock + 1
    /\ UNCHANGED <<dev, database, session, announced, viewer, received, done>>

-----------------------------------------------------------------------------
(* Those who watch: an administrator's stream and list.                     *)

(* events_stream: state.events.subscribe().  A viewer that left may be back.*)
Subscribe(v) ==
    /\ ~open[v]
    /\ open' = [open EXCEPT ![v] = TRUE]
    /\ next' = [next EXCEPT ![v] = Len(announced)]
    /\ since' = [since EXCEPT ![v] = Len(announced)]
    /\ UNCHANGED <<dev, database, clock, session, announced, items, listed, received, done>>

(* Mutant of Missed: off by one, so that one lost message counts as none.   *)
MissedLessOne(v) == Len(announced) - Cap - next[v] - 1

Missed(v) == Len(announced) - Cap - next[v]
Behind(v) == next[v] + Cap < Len(announced)

(* Mutant of Lagged: the stream passes over the error.                      *)
LaggedSilently(v) ==
    /\ open[v] /\ Behind(v)
    /\ next' = [next EXCEPT ![v] = Len(announced) - Cap]
    /\ UNCHANGED <<dev, database, clock, session, announced, open, items, listed,
                   since, received, done>>

(* The receiver's oldest message has been overwritten: it goes on with the  *)
(* oldest there is, and the stream yields the error.                        *)
Lagged(v) ==
    /\ open[v] /\ Behind(v)
    /\ next' = [next EXCEPT ![v] = Len(announced) - Cap]
    /\ items' = [items EXCEPT ![v] = Append(@, [kind |-> "error", missed |-> Missed(v)])]
    /\ UNCHANGED <<dev, database, clock, session, announced, open, listed, since,
                   received, done>>

(* Mutant of NextItem: a message is read when there is one after it.        *)
NextItemLate(v) ==
    /\ open[v] /\ ~Behind(v)
    /\ next[v] + 1 < Len(announced)
    /\ next' = [next EXCEPT ![v] = @ + 1]
    /\ items' = [items EXCEPT ![v] =
                   Append(@, [kind |-> "event", id |-> announced[next[v] + 1]])]
    /\ UNCHANGED <<dev, database, clock, session, announced, open, listed, since,
                   received, done>>

NextItem(v) ==
    /\ open[v] /\ ~Behind(v)
    /\ next[v] < Len(announced)
    /\ next' = [next EXCEPT ![v] = @ + 1]
    /\ items' = [items EXCEPT ![v] =
                   Append(@, [kind |-> "event", id |-> announced[next[v] + 1]])]
    /\ UNCHANGED <<dev, database, clock, session, announced, open, listed, since,
                   received, done>>

Leave(v) ==
    /\ open[v]
    /\ open' = [open EXCEPT ![v] = FALSE]
    /\ next' = [next EXCEPT ![v] = 0] /\ since' = [since EXCEPT ![v] = 0]
    /\ items' = [items EXCEPT ![v] = << >>]
    /\ listed' = [listed EXCEPT ![v] = NoList]
    /\ UNCHANGED <<dev, database, clock, session, announced, received, done>>

(* Mutant of Newest: without DESC.                                          *)
OldestFirst(n) ==
    {S \in SUBSET stored :
        /\ Cardinality(S) = IF n < Cardinality(stored) THEN n ELSE Cardinality(stored)
        /\ \A e \in S, f \in stored \ S : e.at <= f.at}

(* What list_events may return: ORDER BY created_at DESC LIMIT, where rows  *)
(* of one second come in any order.                                         *)
Newest(n) ==
    {S \in SUBSET stored :
        /\ Cardinality(S) = IF n < Cardinality(stored) THEN n ELSE Cardinality(stored)
        /\ \A e \in S, f \in stored \ S : f.at <= e.at}

(* The created_at of the last row of an answer.                             *)
Oldest(S) ==
    IF S = {} THEN 0
    ELSE CHOOSE t \in 0 .. MaxTime : (\E e \in S : e.at = t) /\ \A e \in S : e.at >= t

ListOf(S) == [taken |-> TRUE, ids |-> {e.id : e \in S},
              full |-> Cardinality(S) = Limit, oldest |-> Oldest(S)]

(* A viewer that has subscribed asks for the events so far.                 *)
List(v) ==
    /\ open[v] /\ ~listed[v].taken
    /\ \E S \in Newest(Limit) : listed' = [listed EXCEPT ![v] = ListOf(S)]
    /\ UNCHANGED <<dev, database, clock, session, announced, open, next, items, since,
                   received, done>>

-----------------------------------------------------------------------------
SessionStep(s) == Update(s) \/ Insert(s) \/ Fail(s) \/ Send(s)
ViewerStep(v)  == Lagged(v) \/ NextItem(v)

Next ==
    \/ \E s \in Sessions : SessionStep(s) \/ \E kind \in Kinds : Receive(s, kind)
    \/ \E v \in Viewers : ViewerStep(v) \/ Subscribe(v) \/ Leave(v) \/ List(v)
    \/ \E d \in Devices : DeleteDevice(d)
    \/ Tick

Spec == Init /\ [][Next]_vars

(* tokio polls the tasks of the sessions; a viewer keeps reading its stream.*)
FairSpec ==
    /\ Spec
    /\ \A s \in Sessions : WF_vars(SessionStep(s))
    /\ \A v \in Viewers : WF_vars(ViewerStep(v))

-----------------------------------------------------------------------------
(* Properties.                                                              *)

Wrote(v) == {k \in 1 .. Len(items[v]) : items[v][k].kind = "event"}

(* How far an item, or the first k items, of a stream have brought a viewer *)
(* that started after so many announcements.                                *)
Advance(item) == IF item.kind = "event" THEN 1 ELSE item.missed

Brought(stream, start) ==
    LET p[k \in 0 .. Len(stream)] ==
          IF k = 0 THEN start ELSE p[k - 1] + Advance(stream[k])
    IN p

Position(v) == Brought(items[v], since[v])

(* A stream leaves nothing out in silence: every event it shows is the one  *)
(* that follows those shown before it and those the errors have counted,    *)
(* however far behind the viewer fell in the channel of 1024.               *)
NoSilentGap ==
    \A v \in Viewers :
        /\ Position(v)[Len(items[v])] = next[v]
        /\ \A k \in Wrote(v) : items[v][k].id = announced[Position(v)[k]]

Gone(n) == dev[received[n].by] \notin rows

(* Whoever subscribes and then asks for the list misses nothing: an event   *)
(* that is in the table was in the list, or is before the viewer in its     *)
(* stream, or is still to be announced; or the list was cut off no earlier. *)
CaughtUp ==
    \A v \in Viewers : open[v] /\ listed[v].taken =>
        \A e \in stored :
            \/ e.id \in listed[v].ids
            \/ \E k \in since[v] + 1 .. Len(announced) : announced[k] = e.id
            \/ \E s \in Sessions : pc[s] = "send" /\ cur[s] = e.id
            \/ listed[v].full /\ e.at <= listed[v].oldest

(* What has been announced can be looked up, as long as the device exists.  *)
AnnouncedStored ==
    \A k \in 1 .. Len(announced) :
        Gone(announced[k]) \/ \E e \in stored : e.id = announced[k]

(* The reports of one session appear in the stream in the order in which    *)
(* they were made, and none appears twice.                                  *)
SessionOrder ==
    \A j, k \in 1 .. Len(announced) :
        j < k /\ received[announced[j]].by = received[announced[k]].by
          => announced[j] < announced[k]

(* The columns of a device never show an older report of a session than the *)
(* last one which that session completed.                                   *)
LastReportShown ==
    \A s \in Sessions, k \in Columns :
        LET n == shown[dev[s]][k] IN
        dev[s] \in rows /\ done[s][k] # 0 =>
            n # 0 /\ (received[n].by = s => n >= done[s][k])

(* What a session handles is the last report it received, and what the hub  *)
(* keeps or shows was received; a report about to be announced is stored.   *)
(* With what viewers can have read, and the properties above, this is       *)
(* inductive.                                                               *)
HandlesLast ==
    \A s \in Sessions :
        IF pc[s] = "recv" THEN cur[s] = 0
        ELSE /\ cur[s] \in 1 .. Len(received) /\ received[cur[s]].by = s
             /\ \A n \in 1 .. Len(received) : received[n].by = s => n <= cur[s]

Known ==
    /\ Len(received) <= MaxReports
    /\ \A d \in Devices, k \in Columns : shown[d][k] <= Len(received)
    /\ IsFiniteSet(stored)
    /\ \A e \in stored : e.id \in 1 .. Len(received) /\ e.dev = dev[received[e.id].by]

SentOnce ==
    /\ \A k \in 1 .. Len(announced) : announced[k] \in 1 .. Len(received)
    /\ \A k \in 1 .. Len(announced), s \in Sessions :
         received[announced[k]].by = s /\ pc[s] # "recv" => announced[k] < cur[s]

SendsStored ==
    \A s \in Sessions :
        pc[s] = "send" => Gone(cur[s]) \/ \E e \in stored : e.id = cur[s]

Seats ==
    \A v \in Viewers :
        /\ next[v] <= Len(announced) /\ since[v] <= Len(announced)
        /\ ~open[v] => listed[v] = NoList /\ items[v] = << >>
        /\ \A k \in 1 .. Len(items[v]) : Position(v)[k] \in 1 .. Len(announced)

EventsInv ==
    /\ TypeOK /\ HandlesLast /\ Known /\ SentOnce /\ SendsStored /\ Seats
    /\ NoSilentGap /\ CaughtUp /\ AnnouncedStored /\ SessionOrder /\ LastReportShown

(* A viewer that stays catches up with what has been announced: with more   *)
(* reports than the channel holds under way, it is either given an event or *)
(* told that it lagged, and is not stuck on what was overwritten.  (Reports *)
(* are finitely many; sessions that never pause may stay ahead of anybody.) *)
Delivered ==
    \A v \in Viewers : []<>(~open[v] \/ next[v] = Len(announced))
=============================================================================
