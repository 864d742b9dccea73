------------------------------- MODULE FeedProxy ------------------------------
(***************************************************************************)
(* The podcast feed proxy (app.ts, podcasts.ts): connections that ask for  *)
(* a feed, the slots a request has to get, and the fetch done for it,      *)
(* which resolves, connects, follows redirects and reads under a timeout.  *)
(*                                                                         *)
(* A request is raced by its fetch, its timeout and its client, who may    *)
(* go away. What one of them settles is carried through in the same turn   *)
(* of the event loop, so it is one action: the answer, the abort of the    *)
(* fetch and the release of the slot. Only a name lookup cannot be         *)
(* aborted; it goes on without its request, and its connection may ask     *)
(* again meanwhile. The fetch names no agent, so a feed read to its end    *)
(* leaves its connection to the pool of Node's own. Contents, names and    *)
(* the rate limit (TokenBuckets) are left out: a request that is refused   *)
(* leaves the state as it is.                                              *)
(***************************************************************************)
EXTENDS Integers, FiniteSets, Functions

CONSTANTS
    Request,          \* connections, each with the fetch of its latest request
    Client,           \* client addresses
    MaxPerClient,     \* maxConcurrentPerIp
    MaxTotal,         \* maxConcurrentGlobal
    MaxRedirects,     \* maxRedirects
    MaxLate,          \* bound: lookups a connection leaves behind
    MaxPooled,        \* bound: free connections in the pool, of which an agent keeps
                      \* many more (256 to a host)
    NoClient

ASSUME FeedAssumption ==
    /\ MaxPerClient \in Nat \ {0}
    /\ MaxTotal \in Nat /\ MaxTotal >= MaxPerClient
    /\ MaxRedirects \in Nat
    /\ MaxLate \in Nat \ {0} /\ MaxPooled \in Nat
    /\ NoClient \notin Client

VARIABLES
    listening,        \* server.listening
    connection,       \* connection[q]: closed, idle (kept alive) or waiting for an answer
    client,           \* client[q]: who opened it
    active,           \* requests whose handler has not ended
    activeTotal, activeByClient,
    chain,            \* chain[q]: where fetchFeedChain is
    redirects,        \* redirects[q]: redirectCount
    upstream,         \* upstream[q]: connections its fetch uses
    late,             \* late[q]: lookups of earlier requests whose fetch was aborted
    pooled            \* free connections in the pool of Node's agent

slots == <<active, activeTotal, activeByClient>>
fetch == <<chain, redirects, upstream, late>>
feedVars == <<listening, connection, client, slots, fetch, pooled>>

FeedInit ==
    /\ listening = FALSE
    /\ connection = [q \in Request |-> "closed"]
    /\ client = [q \in Request |-> NoClient]
    /\ active = {} /\ activeTotal = 0 /\ activeByClient = [i \in {} |-> 0]
    /\ chain = [q \in Request |-> "none"]
    /\ redirects = [q \in Request |-> 0]
    /\ upstream = [q \in Request |-> 0]
    /\ late = [q \in Request |-> 0]
    /\ pooled = 0
-----------------------------------------------------------------------------
ActiveFor(i) == IF i \in DOMAIN activeByClient THEN activeByClient[i] ELSE 0

\* A bug: the client's requests are not counted against it.
HasSlotUncounted(i) == activeTotal < MaxTotal

\* acquireFeedSlot: whether there is a slot.
HasSlot(i) == ActiveFor(i) < MaxPerClient /\ activeTotal < MaxTotal

Connect(q, i) ==
    /\ listening
    /\ connection[q] = "closed"
    /\ connection' = [connection EXCEPT ![q] = "idle"]
    /\ client' = [client EXCEPT ![q] = i]
    /\ UNCHANGED <<listening, slots, fetch, pooled>>

\* handleFeedRequest up to its await: a slot is taken and the fetch starts with a lookup.
Accept(q) ==
    /\ connection[q] = "idle" /\ late[q] < MaxLate
    /\ HasSlot(client[q])
    /\ connection' = [connection EXCEPT ![q] = "waiting"]
    /\ active' = active \union {q}
    /\ activeTotal' = activeTotal + 1
    /\ activeByClient' = [i \in DOMAIN activeByClient \union {client[q]} |->
                            IF i = client[q] THEN ActiveFor(i) + 1 ELSE activeByClient[i]]
    /\ chain' = [chain EXCEPT ![q] = "resolving"]
    /\ redirects' = [redirects EXCEPT ![q] = 0]
    /\ UNCHANGED <<listening, client, upstream, late, pooled>>

\* slot.release and the end of the handlers of qs.
Release(qs) ==
    LET left(i) == activeByClient[i] - Cardinality({q \in qs : client[q] = i}) IN
    /\ active' = active \ qs
    /\ activeTotal' = activeTotal - Cardinality(qs)
    /\ activeByClient' = [i \in {j \in DOMAIN activeByClient : left(j) > 0} |-> left(i)]

\* fetchFeedChain returns or throws for qs, with no connection left in use.
ChainEnds(qs) ==
    /\ chain' = [q \in Request |-> IF q \in qs THEN "none" ELSE chain[q]]
    /\ redirects' = [q \in Request |-> IF q \in qs THEN 0 ELSE redirects[q]]
    /\ upstream' = [q \in Request |-> IF q \in qs THEN 0 ELSE upstream[q]]

\* controller.abort: what is connected is destroyed; a lookup goes on and finds the signal.
Abort(qs) ==
    /\ ChainEnds(qs)
    /\ late' = [q \in Request |->
                  IF q \in qs /\ chain[q] = "resolving" THEN late[q] + 1 ELSE late[q]]
    /\ UNCHANGED pooled

\* The connections qs close; those that wait have their request aborted.
Disconnect(qs) ==
    /\ connection' = [q \in Request |-> IF q \in qs THEN "closed" ELSE connection[q]]
    /\ Release(qs \intersect active)
    /\ Abort(qs \intersect active)
    /\ UNCHANGED client

\* The client goes away, or the server closes a connection that is idle.
Close(q) ==
    /\ connection[q] # "closed"
    /\ Disconnect({q})
    /\ UNCHANGED listening

\* The answer is sent and the connection kept: 200, or the error the fetch ended with.
Answer(q) ==
    /\ connection' = [connection EXCEPT ![q] = "idle"]
    /\ Release({q})
    /\ UNCHANGED <<listening, client>>

\* The 504 of fetchFeed's timer.
Timeout(q) ==
    /\ q \in active
    /\ Answer(q)
    /\ Abort({q})

\* The lookup returns an address that may be asked: only then is a connection opened, or one
\* to that host taken from the pool.
Resolved(q) ==
    /\ chain[q] = "resolving"
    /\ chain' = [chain EXCEPT ![q] = "connecting"]
    /\ upstream' = [upstream EXCEPT ![q] = @ + 1]
    /\ \/ UNCHANGED pooled
       \/ pooled > 0 /\ pooled' = pooled - 1
    /\ UNCHANGED <<listening, connection, client, slots, redirects, late>>

\* A bug: the signal is not looked at after the lookup.
ResolvedTooLateOpens(q) ==
    /\ late[q] > 0
    /\ late' = [late EXCEPT ![q] = @ - 1]
    /\ upstream' = [upstream EXCEPT ![q] = @ + 1]
    /\ UNCHANGED <<listening, connection, client, slots, chain, redirects, pooled>>

\* The lookup returns to a fetch that was given up meanwhile.
ResolvedTooLate(q) ==
    /\ late[q] > 0
    /\ late' = [late EXCEPT ![q] = @ - 1]
    /\ UNCHANGED <<listening, connection, client, slots, chain, redirects, upstream, pooled>>

\* A bug: the answer that redirects is not closed.
RedirectOpen(q) ==
    /\ chain[q] = "connecting" /\ redirects[q] < MaxRedirects
    /\ chain' = [chain EXCEPT ![q] = "resolving"]
    /\ redirects' = [redirects EXCEPT ![q] = @ + 1]
    /\ UNCHANGED <<listening, connection, client, slots, upstream, late, pooled>>

\* A redirect is followed from the lookup on, its connection destroyed.
Redirect(q) ==
    /\ chain[q] = "connecting" /\ redirects[q] < MaxRedirects
    /\ chain' = [chain EXCEPT ![q] = "resolving"]
    /\ redirects' = [redirects EXCEPT ![q] = @ + 1]
    /\ upstream' = [upstream EXCEPT ![q] = 0]
    /\ UNCHANGED <<listening, connection, client, slots, late, pooled>>

\* A successful status and acceptable headers: the body is read.
Headers(q) ==
    /\ chain[q] = "connecting"
    /\ chain' = [chain EXCEPT ![q] = "reading"]
    /\ UNCHANGED <<listening, connection, client, slots, redirects, upstream, late, pooled>>

\* The feed is read to its end: its connection goes to the pool, or is closed because the
\* feed's server said so.
FeedRead(q) ==
    /\ chain[q] = "reading"
    /\ ChainEnds({q})
    /\ \/ UNCHANGED pooled
       \/ pooled < MaxPooled /\ pooled' = pooled + 1
    /\ Answer(q)
    /\ UNCHANGED late

\* The fetch ends in one of its errors (lookup, target, network, redirect, status, headers,
\* size), its connection destroyed.
FetchFails(q) ==
    /\ chain[q] # "none"
    /\ ChainEnds({q})
    /\ Answer(q)
    /\ UNCHANGED <<late, pooled>>

\* A free connection is closed by the agent's timeout or by the other side.
PooledCloses ==
    /\ pooled > 0
    /\ pooled' = pooled - 1
    /\ UNCHANGED <<listening, connection, client, slots, fetch>>

\* What is done for q without its client: the timer, the resolver and the upstream server.
Work(q) ==
    \/ Timeout(q) \/ Resolved(q) \/ ResolvedTooLate(q) \/ Redirect(q) \/ Headers(q)
    \/ FeedRead(q) \/ FetchFails(q)

FeedNext ==
    \/ \E q \in Request :
        \/ \E i \in Client : Connect(q, i)
        \/ Accept(q) \/ Close(q) \/ Work(q)
    \/ PooledCloses
-----------------------------------------------------------------------------
\* Type of the proxy's state.
FeedTypeOK ==
    /\ listening \in BOOLEAN
    /\ connection \in [Request -> {"closed", "idle", "waiting"}]
    /\ client \in [Request -> Client \union {NoClient}]
    /\ active \subseteq Request
    /\ activeTotal \in 0..MaxTotal
    /\ DOMAIN activeByClient \subseteq Client
    /\ \A i \in DOMAIN activeByClient : activeByClient[i] \in 1..MaxPerClient
    /\ chain \in [Request -> {"none", "resolving", "connecting", "reading"}]
    /\ redirects \in [Request -> 0..MaxRedirects]
    /\ upstream \in [Request -> Nat]
    /\ late \in [Request -> 0..MaxLate]
    /\ pooled \in 0..MaxPooled

\* The slots taken are those of the requests being handled, and a client that waits has its
\* request handled (acquireFeedSlot, the finally of handleFeedRequest).
SlotsMatchHandlers ==
    /\ activeTotal = Cardinality(active)
    /\ \A i \in Client : ActiveFor(i) = Cardinality({q \in active : client[q] = i})
    /\ \A q \in Request : connection[q] = "waiting" <=> q \in active

\* A connection in use for a feed belongs to a request that holds a slot, one to each: it is
\* in use no longer than its timeout, its client, its answer or a redirect, and a lookup that
\* outlives them opens none (fetchFeed, fetchFeedChain). The free connections of the pool are
\* Node's and are not spoken of.
UpstreamIsOwned ==
    \A q \in Request :
        /\ upstream[q] = IF chain[q] \in {"connecting", "reading"} THEN 1 ELSE 0
        /\ upstream[q] > 0 => q \in active

\* What the proxy is doing for its clients is bounded by its slots.
FeedIsBounded == SlotsMatchHandlers /\ UpstreamIsOwned
===============================================================================
