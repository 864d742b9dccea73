---------------------------- MODULE PalaceTransport ---------------------------
(***************************************************************************)
(* The browser's side of public presence: one PalaceMultiplayerTransport   *)
(* (net/multiplayer.ts) from connect() to leave(). A join runs in an       *)
(* operation of its own; the SDK may settle it long after the transport    *)
(* has given it up. Promise continuations run before the next event, so a  *)
(* settled join and what open() does with it are one action. Delays are    *)
(* left out: a timer fires some time after it was set.                     *)
(***************************************************************************)
EXTENDS Integers, FiniteSets

CONSTANTS
    Operation,       \* bound: joins the SDK may be working on at once
    MaxJoinAttempts, \* MAX_JOIN_ATTEMPTS
    MaxRaids,        \* bound: the world's completed raids
    None

\* What an operation is opened for: the first joins, a token to resume with, or a fresh join.
Mode == {"join", "reconnect", "fresh"}

ASSUME TransportAssumption ==
    /\ MaxJoinAttempts \in Nat \ {0}
    /\ MaxRaids \in Nat
    /\ None \notin Operation \union Mode
    /\ None \notin [room : Operation, operation : Operation]

VARIABLES
    started, disposed, status,
    activeJoin,     \* the operation open() waits for
    pendingRoom,    \* [room, operation]: the room created and not joined
    room,           \* the operation whose room is attached
    observed,       \* firstStateObserved of the attached room
    retryTimer,     \* the mode the pending timer opens
    afterClose,     \* the mode to retry once a room without state is closed
    attempts,       \* counted to MaxJoinAttempts, beyond which nothing differs
    completedRaids, \* of the published view
    \* the SDK and the server
    mode,           \* mode[o]: what operation o was opened for
    sdk,            \* sdk[o]: how far the SDK is with it
    socket,         \* socket[o]: the connection of its room
    world           \* the completed raids of the room state

client   == <<started, disposed, status, retryTimer, afterClose, attempts, completedRaids>>
joining  == <<activeJoin, pendingRoom>>
attached == <<room, observed>>
transportVars == <<started, disposed, status, activeJoin, pendingRoom, room, observed,
                   retryTimer, afterClose, attempts, completedRaids, mode, sdk, socket, world>>

TransportInit ==
    /\ started = FALSE /\ disposed = FALSE /\ status = "offline"
    /\ activeJoin = None /\ pendingRoom = None
    /\ room = None /\ observed = FALSE
    /\ retryTimer = None /\ afterClose = None
    /\ attempts = 0 /\ completedRaids = 0
    /\ mode = [o \in Operation |-> "join"]
    /\ sdk = [o \in Operation |-> "idle"]
    /\ socket = [o \in Operation |-> "none"]
    /\ world \in 0..MaxRaids
-----------------------------------------------------------------------------
\* open() up to its first await: an operation begins and the SDK asks the matchmaker.
Open(o, m) ==
    /\ sdk[o] = "idle" /\ socket[o] = "none"
    /\ sdk' = [sdk EXCEPT ![o] = "fetching"]
    /\ mode' = [mode EXCEPT ![o] = m]
    /\ activeJoin' = o

Connect(o) ==
    /\ ~started /\ ~disposed
    /\ started' = TRUE
    /\ status' = "connecting"
    /\ Open(o, "join")
    /\ UNCHANGED <<disposed, pendingRoom, attached, retryTimer, afterClose, attempts,
                   completedRaids, socket, world>>

TimerFires(o) ==
    /\ retryTimer # None
    /\ retryTimer' = None
    /\ Open(o, retryTimer)
    /\ UNCHANGED <<started, disposed, status, pendingRoom, attached, afterClose, attempts,
                   completedRaids, socket, world>>

\* What is more than MaxJoinAttempts makes no difference.
Capped(n) == IF n <= MaxJoinAttempts THEN n ELSE MaxJoinAttempts

\* scheduleFreshJoin
ScheduleFreshJoin ==
    /\ attempts' = 0
    /\ retryTimer' = "fresh"
    /\ status' = "reconnecting"

\* A bug: the limit is compared with the attempts before this one.
ScheduleRetryLate(m) ==
    IF m = "join" /\ attempts >= MaxJoinAttempts
    THEN ScheduleFreshJoin
    ELSE /\ attempts' = Capped(attempts + 1)
         /\ retryTimer' = m
         /\ status' = "reconnecting"

\* scheduleRetry: after MaxJoinAttempts joins the slow cycle begins; a token is tried for ever.
ScheduleRetry(m) ==
    IF m = "join" /\ attempts + 1 >= MaxJoinAttempts
    THEN ScheduleFreshJoin
    ELSE /\ attempts' = Capped(attempts + 1)
         /\ retryTimer' = m
         /\ status' = "reconnecting"

\* What follows a failed operation of mode m.
Reschedule(m, definitive) ==
    IF m = "fresh" \/ (m = "reconnect" /\ definitive) THEN ScheduleFreshJoin
                                                        ELSE ScheduleRetry(m)
-----------------------------------------------------------------------------
\* A bug: a room that nobody waits for is left open.
RoomCreatedUntracked(o) ==
    /\ sdk[o] = "fetching"
    /\ sdk' = [sdk EXCEPT ![o] = "connecting"]
    /\ socket' = [socket EXCEPT ![o] = "open"]
    /\ pendingRoom' = IF activeJoin = None THEN pendingRoom
                      ELSE [room |-> o, operation |-> activeJoin]
    /\ UNCHANGED <<client, activeJoin, attached, mode, world>>

\* trackPendingRoom: the SDK created a room for o, which is booked on whatever operation is
\* active now, and closed when there is none.
RoomCreated(o) ==
    /\ sdk[o] = "fetching"
    /\ sdk' = [sdk EXCEPT ![o] = "connecting"]
    /\ IF activeJoin = None \/ disposed
       THEN /\ socket' = [socket EXCEPT ![o] = "closed"]
            /\ UNCHANGED pendingRoom
       ELSE /\ pendingRoom' = [room |-> o, operation |-> activeJoin]
            /\ socket' = [x \in Operation |->
                 IF x = o THEN "open"
                 ELSE IF /\ pendingRoom # None
                         /\ pendingRoom.operation # activeJoin
                         /\ pendingRoom.room = x THEN "closed"
                 ELSE socket[x]]
    /\ UNCHANGED <<client, activeJoin, attached, mode, world>>

\* finishJoinOperation and cancelJoinOperation: the pending room of o is forgotten, and closed
\* unless it is the joined one.
ClosePendingOf(o, joined) ==
    IF pendingRoom # None /\ pendingRoom.operation = o
    THEN /\ pendingRoom' = None
         /\ socket' = IF pendingRoom.room = joined THEN socket
                      ELSE [socket EXCEPT ![pendingRoom.room] = "closed"]
    ELSE UNCHANGED <<pendingRoom, socket>>

\* The SDK rejects the join of o: no answer in time, an error, or a definite refusal of the
\* token. If o was given up before, nobody listens.
JoinFails(o, definitive) ==
    /\ sdk[o] \in {"fetching", "connecting"}
    /\ definitive => mode[o] = "reconnect"
    /\ sdk' = [sdk EXCEPT ![o] = "settled"]
    /\ IF activeJoin = o
       THEN /\ activeJoin' = None
            /\ ClosePendingOf(o, None)
            /\ Reschedule(mode[o], definitive)
       ELSE UNCHANGED <<joining, socket, attempts, retryTimer, status>>
    /\ UNCHANGED <<started, disposed, attached, afterClose, completedRaids, mode, world>>

\* A bug: the operation is given up without telling open().
JoinRoomTimeoutUnheard(o) ==
    /\ activeJoin = o
    /\ pendingRoom # None /\ pendingRoom.operation = o
    /\ activeJoin' = None
    /\ ClosePendingOf(o, None)
    /\ UNCHANGED <<client, attached, mode, sdk, world>>

\* The socket did not complete JOIN_ROOM: the operation is cancelled, open() schedules again,
\* and the SDK is not told.
JoinRoomTimeout(o) ==
    /\ activeJoin = o
    /\ pendingRoom # None /\ pendingRoom.operation = o
    /\ activeJoin' = None
    /\ ClosePendingOf(o, None)
    /\ Reschedule(mode[o], FALSE)
    /\ UNCHANGED <<started, disposed, attached, afterClose, completedRaids, mode, sdk, world>>

\* closeJoinedRoom: a consented leave if the socket is open, then close.
Closing(o) == IF socket[o] = "open" THEN "closing" ELSE socket[o]

\* The SDK resolves the join of o: the room is attached if open() still waits for it, and
\* closed otherwise.
JoinRoom(o) ==
    /\ sdk[o] = "connecting"
    /\ sdk' = [sdk EXCEPT ![o] = "settled"]
    /\ IF activeJoin = o /\ ~disposed
       THEN /\ activeJoin' = None
            /\ ClosePendingOf(o, o)
            /\ room' = o /\ observed' = FALSE
       ELSE /\ socket' = [socket EXCEPT ![o] = Closing(o)]
            /\ UNCHANGED <<joining, attached>>
    /\ UNCHANGED <<client, mode, world>>
-----------------------------------------------------------------------------
\* room = null, with the listeners of the room detached.
Detach ==
    /\ room' = None
    /\ observed' = FALSE

\* AUTHORITATIVE_STATE_TIMEOUT_MS without a state: the retry waits for the room to close.
StateTimeout ==
    /\ room # None /\ ~observed
    /\ Detach
    /\ socket' = [socket EXCEPT ![room] = Closing(room)]
    /\ afterClose' = mode[room]
    /\ UNCHANGED <<started, disposed, status, joining, retryTimer, attempts, completedRaids,
                   mode, sdk, world>>

\* The leave was answered or timed out.
RetryAfterClose ==
    /\ afterClose # None
    /\ afterClose' = None
    /\ IF disposed THEN UNCHANGED <<attempts, retryTimer, status>>
                   ELSE Reschedule(afterClose, FALSE)
    /\ UNCHANGED <<started, disposed, joining, attached, completedRaids, mode, sdk, socket, world>>

\* The first state of the attached room and every later patch, published with its total.
StateChange ==
    /\ room # None
    /\ observed' = TRUE
    /\ attempts' = IF observed THEN attempts ELSE 0
    /\ status' = "connected"
    /\ completedRaids' = world
    /\ UNCHANGED <<started, disposed, joining, room, retryTimer, afterClose, mode, sdk, socket,
                   world>>

\* The first state is of another protocol: offline for good.
ProtocolError ==
    /\ room # None /\ ~observed
    /\ Detach
    /\ socket' = [socket EXCEPT ![room] = Closing(room)]
    /\ status' = "offline"
    /\ UNCHANGED <<started, disposed, joining, retryTimer, afterClose, attempts, completedRaids,
                   mode, sdk, world>>

\* A bug: the view without a total shows none.
OnDropBlank(token) ==
    /\ room # None
    /\ Detach
    /\ socket' = [socket EXCEPT ![room] = "closed"]
    /\ completedRaids' = 0
    /\ IF token THEN ScheduleRetry("reconnect")
                ELSE status' = "offline" /\ UNCHANGED <<attempts, retryTimer>>
    /\ UNCHANGED <<started, disposed, joining, afterClose, mode, sdk, world>>

\* A bug: the broken room stays attached.
OnDropKept(token) ==
    /\ room # None
    /\ socket' = [socket EXCEPT ![room] = "closed"]
    /\ IF token THEN ScheduleRetry("reconnect")
                ELSE status' = "offline" /\ UNCHANGED <<attempts, retryTimer>>
    /\ UNCHANGED <<started, disposed, joining, attached, afterClose, completedRaids, mode, sdk,
                   world>>

\* onDrop: the connection broke; with a token the session is resumed.
OnDrop(token) ==
    /\ room # None
    /\ Detach
    /\ socket' = [socket EXCEPT ![room] = "closed"]
    /\ IF token THEN ScheduleRetry("reconnect")
                ELSE status' = "offline" /\ UNCHANGED <<attempts, retryTimer>>
    /\ UNCHANGED <<started, disposed, joining, afterClose, completedRaids, mode, sdk, world>>

\* onLeave: the server closed the room, for a restart or for good.
OnLeave(shutdown) ==
    /\ room # None
    /\ Detach
    /\ socket' = [socket EXCEPT ![room] = "closed"]
    /\ IF shutdown THEN ScheduleFreshJoin
                   ELSE status' = "offline" /\ UNCHANGED <<attempts, retryTimer>>
    /\ UNCHANGED <<started, disposed, joining, afterClose, completedRaids, mode, sdk, world>>

\* leave(): timer, join, pending room and room are all given up at once. Aborted fetches fail
\* later.
Leave ==
    /\ ~disposed
    /\ disposed' = TRUE
    /\ retryTimer' = None
    /\ activeJoin' = None /\ pendingRoom' = None
    /\ socket' = [o \in Operation |->
         IF o = room THEN Closing(o)
         ELSE IF pendingRoom # None /\ pendingRoom.room = o THEN "closed"
         ELSE socket[o]]
    /\ Detach
    /\ status' = "offline" /\ completedRaids' = 0
    /\ UNCHANGED <<started, afterClose, attempts, mode, sdk, world>>
-----------------------------------------------------------------------------
\* A consented leave is answered, or the socket closed after its timeout.
SocketCloses(o) ==
    /\ socket[o] = "closing"
    /\ socket' = [socket EXCEPT ![o] = "closed"]
    /\ UNCHANGED <<client, joining, attached, mode, sdk, world>>

\* Nothing refers to the operation any more.
Forget(o) ==
    /\ sdk[o] = "settled" /\ socket[o] \in {"none", "closed"}
    /\ sdk' = [sdk EXCEPT ![o] = "idle"]
    /\ socket' = [socket EXCEPT ![o] = "none"]
    /\ mode' = [mode EXCEPT ![o] = "join"]
    /\ UNCHANGED <<client, joining, attached, world>>

RaidCompleted ==
    /\ world < MaxRaids
    /\ world' = world + 1
    /\ UNCHANGED <<client, joining, attached, mode, sdk, socket>>

TransportNext ==
    \/ \E o \in Operation :
        \/ Connect(o) \/ TimerFires(o)
        \/ RoomCreated(o) \/ JoinRoom(o) \/ JoinRoomTimeout(o)
        \/ \E definitive \in BOOLEAN : JoinFails(o, definitive)
        \/ SocketCloses(o) \/ Forget(o)
    \/ StateTimeout \/ RetryAfterClose \/ StateChange \/ ProtocolError
    \/ \E token \in BOOLEAN : OnDrop(token)
    \/ \E shutdown \in BOOLEAN : OnLeave(shutdown)
    \/ Leave
    \/ RaidCompleted

Answered == \E o \in Operation : activeJoin = o /\ JoinRoom(o)

\* Timers fire, sockets close and the SDK settles what it was asked; a server that is asked
\* again and again answers in the end, and a room that is joined again and again shows its
\* state.
Fairness ==
    /\ \A o \in Operation :
        /\ WF_transportVars(TimerFires(o)) /\ WF_transportVars(SocketCloses(o))
        /\ WF_transportVars(Forget(o))
        /\ WF_transportVars(RoomCreated(o) \/ JoinFails(o, FALSE) \/ JoinRoom(o))
        /\ WF_transportVars(JoinRoomTimeout(o))
    /\ WF_transportVars(StateTimeout) /\ WF_transportVars(RetryAfterClose)
    /\ SF_transportVars(\E o \in Operation : activeJoin = o /\ RoomCreated(o))
    /\ SF_transportVars(Answered)
    /\ SF_transportVars(StateChange)

TransportSpec == TransportInit /\ [][TransportNext]_transportVars /\ Fairness
-----------------------------------------------------------------------------
\* Type invariant of the transport; the fast cycle of joins is finite.
TransportTypeOK ==
    /\ started \in BOOLEAN /\ disposed \in BOOLEAN /\ observed \in BOOLEAN
    /\ status \in {"offline", "connecting", "connected", "reconnecting"}
    /\ activeJoin \in Operation \union {None}
    /\ pendingRoom \in {None} \union [room : Operation, operation : Operation]
    /\ room \in Operation \union {None}
    /\ retryTimer \in Mode \union {None} /\ afterClose \in Mode \union {None}
    /\ attempts \in 0..MaxJoinAttempts
    /\ retryTimer = "join" => attempts < MaxJoinAttempts
    /\ completedRaids \in 0..MaxRaids /\ world \in 0..MaxRaids
    /\ mode \in [Operation -> Mode]
    /\ sdk \in [Operation -> {"idle", "fetching", "connecting", "settled"}]
    /\ socket \in [Operation -> {"none", "open", "closing", "closed"}]

Driver == {d \in {"join", "room", "timer", "close"} :
             \/ d = "join" /\ activeJoin # None
             \/ d = "room" /\ room # None
             \/ d = "timer" /\ retryTimer # None
             \/ d = "close" /\ afterClose # None}

\* Exactly one thing moves a transport on that says it is connecting or connected, and
\* nothing one that is offline: a join, the attached room, a timer or a room being closed
\* (open, attachRoom, scheduleRetry, leave). It is never stuck and never joins twice.
OneDriver ==
    IF status # "offline" THEN Cardinality(Driver) = 1
    ELSE Driver \subseteq (IF disposed THEN {"close"} ELSE {})

\* No connection stays open that the transport has lost sight of, however late the SDK
\* settles a join (trackPendingRoom, closePendingRoom, closeJoinedRoom).
NoLeakedSocket ==
    \A o \in Operation :
        socket[o] = "open" =>
            o = room \/ (pendingRoom # None /\ pendingRoom.room = o /\ activeJoin # None)

\* Whatever is under way has exactly one owner: the next attempt a driver, an open connection
\* a place in the transport's books.
ConnectionsAreOwned == OneDriver /\ NoLeakedSocket

\* multiplayer.ts:853: the last authoritative total sticks, so a reconnect never shows the
\* foundation shrinking; only leave() ends the view.
RaidsNeverShrink == [][~disposed' => completedRaids' >= completedRaids]_transportVars

\* Until it is left or turned away for good, a transport gets connected again, whatever it
\* loses on the way (scheduleRetry, scheduleFreshJoin, the timeouts).
Recovers == status \in {"connecting", "reconnecting"} ~> status \in {"connected", "offline"}
===============================================================================
