----------------------------- MODULE ServerProcess ----------------------------
(***************************************************************************)
(* One server process from start to end (index.ts, multiplayer/server.ts): *)
(* the audit store, the feed proxy's listener and the multiplayer listener *)
(* with its rooms are started in order, and shut down together on a        *)
(* signal, a failed listener or a start that fails.                        *)
(*                                                                         *)
(* The listeners' "close" event comes when the last connection is gone.    *)
(* Rooms are reduced to their visitors, who may report a raid run to the   *)
(* store as long as they are in. Colyseus and node:http are external.      *)
(***************************************************************************)
EXTENDS FeedProxy

CONSTANT
    Visitor           \* visitors of the rooms and their matchmaking connections

VARIABLES
    phase,            \* of the process
    store,            \* the AuditStore: new, open or closed
    rooms,            \* visitors in a room
    matchmaking,      \* visitors with a connection to the multiplayer listener
    listener,         \* of the multiplayer server: down, listening, closing or closed
    drain,            \* gracefullyShutdown: none, draining, drained
    awaited,          \* what #shutdown waits for besides the rooms: nothing or the close event
    forceCloseTimer,  \* off, set or fired
    failed,           \* the argument of the shutdown that counts
    exitCode,
    signalled         \* signals whose once-handler has been used

process == <<phase, forceCloseTimer, failed, exitCode, signalled>>
multiplayer == <<rooms, matchmaking, listener, drain, awaited>>
vars == <<feedVars, store, process, multiplayer>>

Signal == {"SIGINT", "SIGTERM"}

Init ==
    /\ FeedInit
    /\ phase = "starting"
    /\ store = "new"
    /\ rooms = {} /\ matchmaking = {}
    /\ listener = "down" /\ drain = "none" /\ awaited = "nothing"
    /\ forceCloseTimer = "off"
    /\ failed = FALSE /\ exitCode = 0
    /\ signalled = {}
-----------------------------------------------------------------------------
\* A bug: a listener that never listened is waited for.
AwaitCloseAlways == awaited' = "close"

\* The listener's close event, which #shutdown asks for before it drains the rooms.
AwaitClose == awaited' = IF listener = "listening" THEN "close" ELSE "nothing"

\* MultiplayerServer.shutdown up to its first await.
MultiplayerShutdown ==
    /\ drain = "none"
    /\ AwaitClose
    /\ drain' = "draining"
    /\ UNCHANGED <<rooms, matchmaking, listener>>

\* It has resolved.
MultiplayerClosed == drain = "drained" /\ (awaited = "close" => listener = "closed")

\* Store and servers are made, and the multiplayer server listens.
Start ==
    /\ phase = "starting"
    /\ phase' = "binding"
    /\ store' = "open"
    /\ listener' = "listening"
    /\ UNCHANGED <<feedVars, forceCloseTimer, failed, exitCode, signalled, rooms, matchmaking,
                   drain, awaited>>

\* The configuration, the store or a server is refused before anything listens.
StartRefused ==
    /\ phase = "starting"
    /\ phase' = "ended"
    /\ store' \in {"new", "closed"}
    /\ exitCode' = 1
    /\ UNCHANGED <<feedVars, forceCloseTimer, failed, signalled, multiplayer>>

\* The multiplayer port is taken.
ListenFails ==
    /\ phase = "starting"
    /\ phase' = "failing"
    /\ store' = "open"
    /\ MultiplayerShutdown
    /\ UNCHANGED <<feedVars, forceCloseTimer, failed, exitCode, signalled>>

\* The feed proxy's listener is bound, and the handlers of signals and errors are installed.
Bind ==
    /\ phase = "binding"
    /\ phase' = "running"
    /\ listening' = TRUE
    /\ UNCHANGED <<connection, client, slots, fetch, pooled, store, forceCloseTimer, failed,
                   exitCode, signalled, multiplayer>>

\* The feed proxy's port is taken: the multiplayer server, already open, is shut down.
BindFails ==
    /\ phase = "binding"
    /\ phase' = "failing"
    /\ MultiplayerShutdown
    /\ UNCHANGED <<feedVars, store, forceCloseTimer, failed, exitCode, signalled>>

\* The catch of startServer once everything is closed; there is no timer to force it.
StartFailed ==
    /\ phase = "failing"
    /\ MultiplayerClosed
    /\ phase' = "ended"
    /\ store' = "closed"
    /\ exitCode' = 1
    /\ UNCHANGED <<feedVars, forceCloseTimer, failed, signalled, multiplayer>>

\* shutdown(), whose first caller counts: the timer is set, the feed proxy stops listening
\* and lets its idle connections go, the multiplayer server begins to drain.
Shutdown(failure) ==
    IF phase = "closing" THEN
        UNCHANGED <<feedVars, store, phase, forceCloseTimer, failed, exitCode, multiplayer>>
    ELSE
        /\ phase' = "closing"
        /\ failed' = failure
        /\ forceCloseTimer' = "set"
        /\ listening' = FALSE
        /\ Disconnect({q \in Request : connection[q] = "idle"})
        /\ MultiplayerShutdown
        /\ UNCHANGED <<store, exitCode>>

\* A signal with its handler.
SignalArrives(s) ==
    /\ phase \in {"running", "closing"}
    /\ s \notin signalled
    /\ signalled' = signalled \union {s}
    /\ Shutdown(FALSE)

\* A signal without a handler (during the start, or the same one again) ends the process.
SignalKills(s) ==
    /\ phase \notin {"ended", "killed"}
    /\ phase \in {"running", "closing"} => s \in signalled
    /\ phase' = "killed"
    /\ UNCHANGED <<feedVars, store, forceCloseTimer, failed, exitCode, signalled, multiplayer>>

\* An error of the feed proxy's listener.
FeedListenerFails ==
    /\ phase = "running" /\ listening
    /\ Shutdown(TRUE)
    /\ UNCHANGED signalled

\* An error of the multiplayer listener, which still listens while the rooms drain: then it
\* rejects the promise of the close event, which nobody awaits yet, and that ends the process.
ListenerFails ==
    /\ listener = "listening"
    /\ \/ /\ phase = "running"
          /\ Shutdown(TRUE)
          /\ UNCHANGED signalled
       \/ /\ awaited = "close"
          /\ phase' = "killed"
          /\ UNCHANGED <<feedVars, store, forceCloseTimer, failed, exitCode, signalled,
                         multiplayer>>

\* The grace period is over: every HTTP connection is closed, on both listeners.
ForceClose ==
    /\ forceCloseTimer = "set"
    /\ forceCloseTimer' = "fired"
    /\ Disconnect({q \in Request : connection[q] # "closed"})
    /\ matchmaking' = {}
    /\ UNCHANGED <<listening, store, phase, failed, exitCode, signalled, rooms, listener, drain,
                   awaited>>

FeedClosed == ~listening /\ \A q \in Request : connection[q] = "closed"

\* A bug: the store is closed with the feed proxy.
ServicesClosedEarly == FeedClosed

\* Promise.allSettled of shutdownServices.
ServicesClosed == FeedClosed /\ MultiplayerClosed

\* The end of shutdownServices.
ShutdownEnds ==
    /\ phase = "closing"
    /\ ServicesClosed
    /\ phase' = "ended"
    /\ forceCloseTimer' = "off"
    /\ store' = "closed"
    /\ exitCode' = IF failed THEN 1 ELSE 0
    /\ UNCHANGED <<feedVars, failed, signalled, multiplayer>>
-----------------------------------------------------------------------------
\* Matchmaking over HTTP, a seat in a room, and leaving again.
MatchmakingOpens(v) ==
    /\ listener = "listening"
    /\ matchmaking' = matchmaking \union {v}
    /\ UNCHANGED <<feedVars, store, process, rooms, listener, drain, awaited>>

MatchmakingEnds(v) ==
    /\ v \in matchmaking
    /\ matchmaking' = matchmaking \ {v}
    /\ UNCHANGED <<feedVars, store, process, rooms, listener, drain, awaited>>

Enter(v) ==
    /\ v \in matchmaking /\ listener = "listening" /\ drain = "none"
    /\ rooms' = rooms \union {v}
    /\ UNCHANGED <<feedVars, store, process, matchmaking, listener, drain, awaited>>

Leave(v) ==
    /\ v \in rooms
    /\ rooms' = rooms \ {v}
    /\ UNCHANGED <<feedVars, store, process, matchmaking, listener, drain, awaited>>

\* gracefullyShutdown has disposed of the rooms and shuts the transport down.
Drained ==
    /\ drain = "draining" /\ rooms = {}
    /\ drain' = "drained"
    /\ listener' = IF listener = "listening" THEN "closing" ELSE listener
    /\ UNCHANGED <<feedVars, store, process, rooms, matchmaking, awaited>>

ListenerCloses ==
    /\ listener = "closing" /\ matchmaking = {}
    /\ listener' = "closed"
    /\ UNCHANGED <<feedVars, store, process, rooms, matchmaking, drain, awaited>>

\* The feed proxy's own steps, while there is a process.
Feed == FeedNext /\ UNCHANGED <<store, process, multiplayer>>

Next ==
    /\ phase # "killed"
    /\ \/ Start \/ StartRefused \/ ListenFails \/ Bind \/ BindFails \/ StartFailed
       \/ \E s \in Signal : SignalArrives(s) \/ SignalKills(s)
       \/ FeedListenerFails \/ ListenerFails \/ ForceClose \/ ShutdownEnds
       \/ \E v \in Visitor : MatchmakingOpens(v) \/ MatchmakingEnds(v) \/ Enter(v) \/ Leave(v)
       \/ Drained \/ ListenerCloses
       \/ Feed

Live(A) == A /\ phase # "killed"

\* Timers fire, Colyseus sends visitors out of a room that is drained, and a connection to the
\* multiplayer listener ends by its timeouts or after maxRequestsPerSocket. Clients of the
\* feed proxy owe it nothing.
Fairness ==
    /\ WF_vars(Live(ForceClose)) /\ WF_vars(Live(ShutdownEnds)) /\ WF_vars(Live(StartFailed))
    /\ WF_vars(Live(Drained)) /\ WF_vars(Live(ListenerCloses))
    /\ \A v \in Visitor :
        /\ WF_vars(Live(drain = "draining" /\ Leave(v)))
        /\ WF_vars(Live(MatchmakingEnds(v)))
    /\ \A q \in Request : WF_vars(Live(Timeout(q) /\ UNCHANGED <<store, process, multiplayer>>))

Spec == Init /\ [][Next]_vars /\ Fairness
-----------------------------------------------------------------------------
\* Type invariant of the process and its proxy.
TypeOK ==
    /\ FeedTypeOK
    /\ phase \in {"starting", "binding", "running", "failing", "closing", "ended", "killed"}
    /\ store \in {"new", "open", "closed"}
    /\ rooms \subseteq Visitor /\ matchmaking \subseteq Visitor
    /\ listener \in {"down", "listening", "closing", "closed"}
    /\ drain \in {"none", "draining", "drained"}
    /\ awaited \in {"nothing", "close"}
    /\ forceCloseTimer \in {"off", "set", "fired"}
    /\ failed \in BOOLEAN /\ exitCode \in {0, 1}
    /\ signalled \subseteq Signal

\* The store is there for every visitor who may still report a run, and closed with nothing
\* left that could use it: no room, no connection, no listener (index.ts shutdownServices).
StoreOutlivesItsUsers ==
    /\ rooms # {} => store = "open"
    /\ store = "closed" => FeedClosed /\ active = {} /\ listener \in {"down", "closed"}
    /\ forceCloseTimer = "fired" => FeedClosed

\* A process that begins to shut down, or whose start fails, ends, whatever the clients of
\* its feed proxy do; requests in progress end with it.
ProcessEnds == phase \in {"failing", "closing"} ~> phase \in {"ended", "killed"}

\* Every request that got a slot gives it back, whatever its client and its feed's server do.
RequestsEnd == \A q \in Request : q \in active ~> q \notin active \/ phase = "killed"

\* Neither a request nor the process as a whole hangs.
NothingHangs == RequestsEnd /\ ProcessEnds
===============================================================================
