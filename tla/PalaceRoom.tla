------------------------------ MODULE PalaceRoom ------------------------------
(***************************************************************************)
(* The public palace room (PalaceRoom.ts): which room is live, who is in   *)
(* it, the workshop ship its sessions build, and the raid runs they        *)
(* complete.                                                               *)
(*                                                                         *)
(* A handler runs to completion, so each is one action. Time enters        *)
(* through the expiry of the reconnection window and of the invalid-       *)
(* message window; the movement and zap limits are modelled with their     *)
(* clocks in SessionGuard. The ledger is RaidCount's log, which RaidLedger *)
(* implements: a record either appends or fails, and other processes       *)
(* append too.                                                             *)
(***************************************************************************)
EXTENDS Integers, Sequences, FiniteSets

CONSTANTS
    Session,       \* session ids; Colyseus never reuses one
    RoomId,        \* room ids
    MaxClients,    \* MAX_ROOM_CLIENTS
    MaxModules,    \* MAX_SHIP_MODULES
    InvalidLimit,  \* INVALID_MOVEMENT_LIMIT
    Seed,          \* the configured demo seed
    MaxForeign,    \* bound: runs recorded by other processes
    NoRoom, Foreign

ASSUME RoomAssumption ==
    /\ MaxClients \in Nat \ {0}
    /\ MaxModules \in Nat
    /\ InvalidLimit \in Nat \ {0}
    /\ Seed \in Nat
    /\ MaxForeign \in Nat
    /\ NoRoom \notin RoomId
    /\ Foreign \notin Session

VARIABLES
    activeRoom,  \* the static #activeRoomId
    room,        \* room[r]: absent, live, or refused when its onCreate threw
    link,        \* link[s]: the session's connection to the live room
    guard,       \* guard[s]: client.userData
    modules,     \* state.shipModules: who authored which slot
    completed,   \* state.completedRaids
    log          \* the ledger's stream: who recorded each run and with how many authors

vars == <<activeRoom, room, link, guard, modules, completed, log>>

\* A player entry exists from onJoin to onLeave; it is connected outside drops.
Present == {s \in Session : link[s] \in {"connected", "dropped", "leaving"}}
Live    == {r \in RoomId : room[r] = "live"}
Authors == {m.author : m \in modules}

FreshGuard == [closing |-> FALSE, allowReconnect |-> TRUE, invalid |-> 0,
               raidCounted |-> FALSE, hasModule |-> FALSE]

Init ==
    /\ activeRoom = NoRoom
    /\ room = [r \in RoomId |-> "absent"]
    /\ link = [s \in Session |-> "new"]
    /\ guard = [s \in Session |-> FreshGuard]
    /\ modules = {}
    /\ completed = 0
    /\ log = <<>>
-----------------------------------------------------------------------------
\* onCreate: refused while a room is active, or when the ledger cannot be read.
CreateRefused(r) ==
    /\ room[r] = "absent"
    /\ room' = [room EXCEPT ![r] = "refused"]
    /\ UNCHANGED <<activeRoom, link, guard, modules, completed, log>>

Create(r) ==
    /\ room[r] = "absent"
    /\ activeRoom = NoRoom
    /\ room' = [room EXCEPT ![r] = "live"]
    /\ activeRoom' = r
    /\ modules' = {}
    /\ completed' = Seed + Len(log)
    /\ UNCHANGED <<link, guard, log>>

\* A bug: the refused room gives the place of the live one away.
DisposeFrees(r) ==
    /\ \/ room[r] = "live" /\ Present = {}
       \/ room[r] = "refused"
    /\ activeRoom' = NoRoom
    /\ room' = [room EXCEPT ![r] = "absent"]
    /\ modules' = IF room[r] = "live" THEN {} ELSE modules
    /\ completed' = IF room[r] = "live" THEN 0 ELSE completed
    /\ UNCHANGED <<link, guard, log>>

\* onDispose: auto-disposal of an empty room, and of one whose onCreate threw. The ship and
\* the session guards are lost with the room.
Dispose(r) ==
    /\ \/ room[r] = "live" /\ Present = {}
       \/ room[r] = "refused"
    /\ activeRoom' = IF activeRoom = r THEN NoRoom ELSE activeRoom
    /\ room' = [room EXCEPT ![r] = "absent"]
    /\ modules' = IF room[r] = "live" THEN {} ELSE modules
    /\ completed' = IF room[r] = "live" THEN 0 ELSE completed
    /\ UNCHANGED <<link, guard, log>>

\* onJoin, behind maxClients.
Join(s) ==
    /\ link[s] = "new"
    /\ Live # {}
    /\ Cardinality(Present) < MaxClients
    /\ link' = [link EXCEPT ![s] = "connected"]
    /\ UNCHANGED <<activeRoom, room, guard, modules, completed, log>>

\* onDrop: the connection closed without consent. A session closed for policy may not come
\* back; every other one has ten seconds.
Drop(s) ==
    /\ link[s] = "connected"
    /\ link' = [link EXCEPT ![s] = IF guard[s].allowReconnect THEN "dropped" ELSE "leaving"]
    /\ UNCHANGED <<activeRoom, room, guard, modules, completed, log>>

\* onReconnect: the session keeps its guard.
Reconnect(s) ==
    /\ link[s] = "dropped"
    /\ link' = [link EXCEPT ![s] = "connected"]
    /\ UNCHANGED <<activeRoom, room, guard, modules, completed, log>>

ReconnectTimeout(s) ==
    /\ link[s] = "dropped"
    /\ link' = [link EXCEPT ![s] = "leaving"]
    /\ UNCHANGED <<activeRoom, room, guard, modules, completed, log>>

\* A bug: the leaver takes its module along, and the next slot is taken twice.
LeaveWithModule(s) ==
    /\ link[s] = "leaving" \/ (link[s] = "connected" /\ ~guard[s].closing)
    /\ link' = [link EXCEPT ![s] = "gone"]
    /\ guard' = [guard EXCEPT ![s] = FreshGuard]
    /\ modules' = {m \in modules : m.author # s}
    /\ UNCHANGED <<activeRoom, room, completed, log>>

\* onLeave removes the player and nothing else; the client object goes with its guard.
Leave(s) ==
    /\ link[s] = "leaving" \/ (link[s] = "connected" /\ ~guard[s].closing)
    /\ link' = [link EXCEPT ![s] = "gone"]
    /\ guard' = [guard EXCEPT ![s] = FreshGuard]
    /\ UNCHANGED <<activeRoom, room, modules, completed, log>>

\* The server process restarts: everything but the ledger is volatile.
Restart ==
    /\ Live # {}
    /\ activeRoom' = NoRoom
    /\ room' = [r \in RoomId |-> "absent"]
    /\ link' = [s \in Session |-> IF link[s] = "new" THEN "new" ELSE "gone"]
    /\ modules' = {}
    /\ completed' = 0
    /\ guard' = [s \in Session |-> FreshGuard]
    /\ UNCHANGED log
-----------------------------------------------------------------------------
\* Handlers drop what a session sends after it was told to leave.
Heard(s) == link[s] = "connected" /\ ~guard[s].closing

\* A bug: the session may still come back.
ClosedLeniently(g) == [g EXCEPT !.closing = TRUE]

\* #closeForPolicy on the guard g.
ClosedForPolicy(g) == [g EXCEPT !.closing = TRUE, !.allowReconnect = FALSE]

\* A bug: the limit is compared with the count before this message.
RecordedInvalidLate(g, expired) ==
    LET n == IF expired THEN 1 ELSE g.invalid + 1
    IN  IF g.invalid >= InvalidLimit THEN ClosedForPolicy([g EXCEPT !.invalid = n])
                                     ELSE [g EXCEPT !.invalid = n]

\* #recordInvalidMessage on the guard g; the window may have run out.
RecordedInvalid(g, expired) ==
    LET n == IF expired THEN 1 ELSE g.invalid + 1
    IN  IF n >= InvalidLimit THEN ClosedForPolicy([g EXCEPT !.invalid = n])
                             ELSE [g EXCEPT !.invalid = n]

\* A malformed move, module or raid message, and a move beyond the distance budget.
InvalidMessage(s) ==
    /\ Heard(s)
    /\ \E expired \in BOOLEAN : guard' = [guard EXCEPT ![s] = RecordedInvalid(@, expired)]
    /\ UNCHANGED <<activeRoom, room, link, modules, completed, log>>

\* A move message beyond the rate of consumeMoveToken.
MoveRateExceeded(s) ==
    /\ Heard(s)
    /\ guard' = [guard EXCEPT ![s] = ClosedForPolicy(@)]
    /\ UNCHANGED <<activeRoom, room, link, modules, completed, log>>

\* #handleShipModule
PlaceModule(s) ==
    /\ Heard(s)
    /\ ~guard[s].hasModule
    /\ Cardinality(modules) < MaxModules
    /\ modules' = modules \union {[author |-> s, slot |-> Cardinality(modules) + 1]}
    /\ guard' = [guard EXCEPT ![s].hasModule = TRUE]
    /\ UNCHANGED <<activeRoom, room, link, completed, log>>

\* What #handleRaidComplete verifies of a claim.
Verified(s) ==
    /\ Heard(s)
    /\ ~guard[s].raidCounted
    /\ guard[s].hasModule
    /\ s \in Authors
    /\ Cardinality(Authors) >= 2

\* A bug: the session is not marked as counted.
RaidCompleteAgain(s) ==
    /\ Verified(s)
    /\ log' = Append(log, [by |-> s, coAuthors |-> Cardinality(Authors)])
    /\ completed' = Seed + Len(log')
    /\ UNCHANGED <<activeRoom, room, link, guard, modules>>

\* A verified claim is recorded and the new total published.
RaidComplete(s) ==
    /\ Verified(s)
    /\ guard' = [guard EXCEPT ![s].raidCounted = TRUE]
    /\ log' = Append(log, [by |-> s, coAuthors |-> Cardinality(Authors)])
    /\ completed' = Seed + Len(log')
    /\ UNCHANGED <<activeRoom, room, link, modules>>

\* A bug: the total advances without the ledger.
RaidRecordMints(s) ==
    /\ Verified(s)
    /\ guard' = [guard EXCEPT ![s].raidCounted = TRUE]
    /\ completed' = completed + 1
    /\ UNCHANGED <<activeRoom, room, link, modules, log>>

\* The ledger throws: the run stays counted for the session, the total stays.
RaidRecordFails(s) ==
    /\ Verified(s)
    /\ guard' = [guard EXCEPT ![s].raidCounted = TRUE]
    /\ UNCHANGED <<activeRoom, room, link, modules, completed, log>>

\* Another process records a run on the shared stream.
ForeignRecord ==
    /\ Len(SelectSeq(log, LAMBDA e : e.by = Foreign)) < MaxForeign
    /\ log' = Append(log, [by |-> Foreign, coAuthors |-> 2])
    /\ UNCHANGED <<activeRoom, room, link, guard, modules, completed>>

Next ==
    \/ \E r \in RoomId : Create(r) \/ CreateRefused(r) \/ Dispose(r)
    \/ \E s \in Session :
        \/ Join(s) \/ Drop(s) \/ Reconnect(s) \/ ReconnectTimeout(s) \/ Leave(s)
        \/ InvalidMessage(s) \/ MoveRateExceeded(s)
        \/ PlaceModule(s) \/ RaidComplete(s) \/ RaidRecordFails(s)
    \/ Restart
    \/ ForeignRecord

\* client.leave closes the socket, Colyseus runs onDrop and onLeave and times a reconnection
\* out, and disposes an empty room. Players owe the room nothing.
Fairness ==
    /\ \A s \in Session :
        /\ WF_vars(guard[s].closing /\ Drop(s))
        /\ WF_vars(ReconnectTimeout(s))
        /\ WF_vars(link[s] = "leaving" /\ Leave(s))
    /\ \A r \in RoomId : WF_vars(Dispose(r))

Spec == Init /\ [][Next]_vars /\ Fairness
-----------------------------------------------------------------------------
\* Type invariant of the room.
TypeOK ==
    /\ activeRoom \in RoomId \union {NoRoom}
    /\ room \in [RoomId -> {"absent", "live", "refused"}]
    /\ link \in [Session -> {"new", "connected", "dropped", "leaving", "gone"}]
    /\ guard \in [Session -> [closing : BOOLEAN, allowReconnect : BOOLEAN,
                              invalid : 0..InvalidLimit, raidCounted : BOOLEAN,
                              hasModule : BOOLEAN]]
    /\ modules \subseteq [author : Session, slot : 1..MaxModules]
    /\ completed \in Nat
    /\ log \in Seq([by : Session \union {Foreign}, coAuthors : Nat])

\* There is one public palace: a room that was refused, or disposed late, never frees the
\* place of the live one.
OneLiveRoom == \A r \in RoomId : room[r] = "live" <=> activeRoom = r

\* The workshop ship: every author has one module, slots are 1..n without a gap although
\* players leave, and a session's guard agrees with the replicated state.
ShipIsConsistent ==
    /\ {m.slot : m \in modules} = 1..Cardinality(modules)
    /\ Cardinality(Authors) = Cardinality(modules)
    /\ \A s \in Present : guard[s].hasModule <=> s \in Authors

\* What the room keeps in several places agrees, whoever joins, leaves or is refused.
RoomIsConsistent == OneLiveRoom /\ ShipIsConsistent

\* The ledger counts a session at most once, however often it drops, returns and reports
\* again, and only for a ship at least two sessions built.
RunsAreCoCreated ==
    /\ \A i, j \in DOMAIN log : log[i].by = log[j].by /\ log[i].by # Foreign => i = j
    /\ \A i \in DOMAIN log : log[i].coAuthors >= 2
    /\ \A i \in DOMAIN log : log[i].by \in Present => guard[log[i].by].raidCounted

\* The published total never runs ahead of the ledger and never misses a run of a session
\* that is still here.
TotalIsHonest ==
    Live # {} =>
        /\ completed <= Seed + Len(log)
        /\ \A i \in DOMAIN log : log[i].by \in Present => completed >= Seed + i

\* A run is counted for what was built together, and its total is shown as it is.
RunsAreHonest == RunsAreCoCreated /\ TotalIsHonest

\* A session told to leave changes nothing any more and never comes back connected.
ClosedIsFinal ==
    [][\A s \in Session : guard[s].closing =>
        /\ guard'[s].closing \/ link'[s] = "gone"
        /\ \A m \in modules' \ modules : m.author # s
        /\ Len(log') > Len(log) => log'[Len(log')].by # s
        /\ link[s] # "connected" => link'[s] # "connected"]_vars

\* A session closed for policy is evicted, and a dropped one does not stay a ghost.
GhostsResolve ==
    \A s \in Session :
        /\ guard[s].closing ~> link[s] = "gone"
        /\ link[s] = "dropped" ~> link[s] \in {"connected", "gone"}

\* packages/multiplayer/src/index.ts:317: a run counts when "another live session answered".
AnotherLiveSessionAnswered ==
    [][\A s \in Session :
        Len(log') > Len(log) /\ log'[Len(log')].by = s =>
            \E t \in Authors \ {s} : link[t] = "connected"]_vars
===============================================================================
