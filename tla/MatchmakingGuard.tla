---------------------------- MODULE MatchmakingGuard ---------------------------
(***************************************************************************)
(* The guard before Colyseus' matchmaking (MatchmakingHttpGuard in         *)
(* httpGuard.ts): two token buckets and a bounded number of requests       *)
(* between admission and the end of their response. Requests to other      *)
(* routes, of other origins and of other methods pass or are refused       *)
(* before any state is touched. The clock is the wall clock and may jump.  *)
(***************************************************************************)
EXTENDS Integers, Sequences, FiniteSets

CONSTANTS
    Request,                    \* bound: requests in progress at once
    Ip,                         \* client addresses
    MaxActive, MaxActivePerIp,  \* MAX_ACTIVE_MATCHMAKE_GLOBAL and _PER_IP
    IpLimit, GlobalLimit,       \* the rates per Window
    Window,                     \* MATCHMAKE_RATE_WINDOW_MS
    MaxEntries, Ttl,            \* MAX_RETAINED_IPS, the default of entryTtlMs
    MaxClock,                   \* bound: the clock
    NoIp

ASSUME AdmissionAssumption ==
    /\ IsFiniteSet(Request)
    /\ MaxActive \in Nat \ {0} /\ MaxActivePerIp \in Nat \ {0}
    /\ IpLimit \in Nat \ {0} /\ GlobalLimit \in Nat \ {0}
    /\ Window \in Nat \ {0} /\ MaxEntries \in Nat \ {0}
    /\ Ttl \in Nat /\ Ttl >= 2 * Window
    /\ MaxClock \in Nat
    /\ NoIp \notin Ip

VARIABLES
    ipTable, globalTable,  \* #ipRateLimiter, #globalRateLimiter
    activeGlobal,
    activeByIp,            \* a Map: [a set of addresses -> how many]
    request,               \* request[r]: [stage, ip, released]
    \* history
    ipExcess,              \* ipExcess[i]: how far any interval up to now beats i's refill
    globalExcess

tables    == <<ipTable, globalTable, ipExcess, globalExcess>>
slots     == <<activeGlobal, activeByIp>>
guardVars == <<ipTable, globalTable, activeGlobal, activeByIp, request, ipExcess,
               globalExcess>>

Rate(limit, max) == INSTANCE TokenBuckets WITH Limit <- limit, MaxEntries <- max

NoRequest == [stage |-> "none", ip |-> NoIp, released |-> TRUE]

GuardInit ==
    /\ ipTable = Rate(IpLimit, MaxEntries)!NewTable /\ globalTable = Rate(GlobalLimit, 1)!NewTable
    /\ activeGlobal = 0
    /\ activeByIp = [i \in {} |-> 0]
    /\ request = [r \in Request |-> NoRequest]
    /\ ipExcess = [i \in Ip |-> 0] /\ globalExcess = 0
-----------------------------------------------------------------------------
FromZero(n) == IF n < 0 THEN 0 ELSE n

HasBucket(entries, ip) == Rate(IpLimit, MaxEntries)!Known(entries, ip)

Drained(excess, table, later, limit) ==
    FromZero(excess - (later.lastTimestamp - table.lastTimestamp) * limit)

\* An address whose bucket was evicted starts over.
IpExcessAfter(ip, answer) ==
    LET kept == Rate(IpLimit, MaxEntries)!Pruned(ipTable, answer.table.lastTimestamp).entries IN
    [i \in Ip |->
        IF HasBucket(kept, i) /\ ~HasBucket(answer.table.entries, i) THEN 0
        ELSE Drained(ipExcess[i], ipTable, answer.table, IpLimit)
             + IF i = ip /\ answer.allowed THEN Window ELSE 0]

GlobalExcessAfter(answer) ==
    Drained(globalExcess, globalTable, answer.table, GlobalLimit)
    + IF answer.allowed THEN Window ELSE 0

ActiveFor(ip) == IF ip \in DOMAIN activeByIp THEN activeByIp[ip] ELSE 0

\* A bug: one request too many.
HasCapacityForOneMore(ip) == activeGlobal < MaxActive /\ ActiveFor(ip) <= MaxActivePerIp

HasCapacity(ip) == activeGlobal < MaxActive /\ ActiveFor(ip) < MaxActivePerIp

\* The request gets its slot before its body is read.
Admit(ip) ==
    /\ activeGlobal' = activeGlobal + 1
    /\ activeByIp' = [i \in DOMAIN activeByIp \union {ip} |->
                        IF i = ip THEN ActiveFor(ip) + 1 ELSE activeByIp[i]]
    /\ \E r \in Request :
        /\ request[r].stage = "none"
        /\ request' = [request EXCEPT ![r] = [stage |-> "reading", ip |-> ip,
                                             released |-> FALSE]]

\* A request comes in and is admitted or answered 429: beyond the rate of its address, which
\* costs the others nothing, beyond the rate of all, or beyond the capacity.
Arrive(ip, now) ==
    LET own    == Rate(IpLimit, MaxEntries)!Consume(ipTable, ip, now)
        shared == Rate(GlobalLimit, 1)!Consume(globalTable, "global", now)
    IN
    /\ ipTable' = own.table
    /\ ipExcess' = IpExcessAfter(ip, own)
    /\ IF own.allowed
       THEN globalTable' = shared.table /\ globalExcess' = GlobalExcessAfter(shared)
       ELSE UNCHANGED <<globalTable, globalExcess>>
    /\ IF own.allowed /\ shared.allowed /\ HasCapacity(ip)
       THEN Admit(ip)
       ELSE UNCHANGED <<slots, request>>
-----------------------------------------------------------------------------
\* A bug: finish and close both give the slot back.
ReleaseTwice(r) ==
    LET ip        == request[r].ip
        remaining == ActiveFor(ip) - 1
    IN
    /\ activeGlobal' = FromZero(activeGlobal - 1)
    /\ activeByIp' = IF remaining <= 0 THEN [i \in DOMAIN activeByIp \ {ip} |-> activeByIp[i]]
                                       ELSE [activeByIp EXCEPT ![ip] = remaining]

\* release, which runs once.
Release(r) ==
    LET ip        == request[r].ip
        remaining == ActiveFor(ip) - 1
    IN
    IF request[r].released THEN UNCHANGED slots
    ELSE /\ activeGlobal' = FromZero(activeGlobal - 1)
         /\ activeByIp' = IF remaining <= 0
                          THEN [i \in DOMAIN activeByIp \ {ip} |-> activeByIp[i]]
                          ELSE [activeByIp EXCEPT ![ip] = remaining]

\* An event of request r between stages, which the first of several settles.
Step(r, from, to) ==
    /\ request[r].stage = from
    /\ request' = [request EXCEPT ![r].stage = to]
    /\ UNCHANGED <<tables, slots>>

\* The body is complete and goes to Colyseus' listeners.
BodyEnds(r) == Step(r, "reading", "handling")

\* 400, 408 or 413: a declared or real length too large, a read error, three seconds over.
BodyRefused(r) == Step(r, "reading", "ended")

\* The client breaks off: nothing is answered, and the response will close.
Aborted(r) == Step(r, "reading", "aborted")

\* A listener ends the response, or the catch of install answers 500.
Respond(r) == Step(r, "handling", "ended")

\* "finish": the response has been handed over.
Finish(r) ==
    /\ request[r].stage = "ended"
    /\ Release(r)
    /\ request' = [request EXCEPT ![r].stage = "finished", ![r].released = TRUE]
    /\ UNCHANGED tables

\* "close": the connection is gone, at any time, also after finish. What the body or the
\* listeners still do has no response to act on.
Close(r) ==
    /\ request[r].stage # "none"
    /\ Release(r)
    /\ request' = [request EXCEPT ![r] = NoRequest]
    /\ UNCHANGED tables

GuardNext ==
    \/ \E ip \in Ip, now \in 0..MaxClock : Arrive(ip, now)
    \/ \E r \in Request :
        \/ BodyEnds(r) \/ BodyRefused(r) \/ Aborted(r) \/ Respond(r)
        \/ Finish(r) \/ Close(r)

GuardSpec == GuardInit /\ [][GuardNext]_guardVars
-----------------------------------------------------------------------------
Entry(keys, limit) ==
    [key : keys, tokens : 0..(limit * Window),
     updatedAt : 0..MaxClock, lastSeenAt : 0..MaxClock]

\* Type invariant of the guard, with its limits on requests in progress.
GuardTypeOK ==
    /\ ipTable.entries \in Seq(Entry(Ip, IpLimit)) /\ Len(ipTable.entries) <= MaxEntries
    /\ globalTable.entries \in Seq(Entry({"global"}, GlobalLimit))
    /\ Len(globalTable.entries) <= 1
    /\ activeGlobal \in 0..MaxActive
    /\ DOMAIN activeByIp \subseteq Ip
    /\ \A i \in DOMAIN activeByIp : activeByIp[i] \in 1..MaxActivePerIp
    /\ request \in [Request -> [stage : {"none", "reading", "aborted", "handling", "ended",
                                         "finished"},
                                ip : Ip \union {NoIp}, released : BOOLEAN]]

\* The requests whose response is neither finished nor closed.
Waiting == {r \in Request : request[r].stage \in {"reading", "aborted", "handling", "ended"}}

\* The counts are those of the requests in progress (activeRequestCount), whichever of body,
\* timeout, abort, finish and close come in whichever order: no slot leaks, none is given back
\* twice, and no address is left in the Map.
SlotsMatchRequests ==
    /\ activeGlobal = Cardinality(Waiting)
    /\ DOMAIN activeByIp = {request[r].ip : r \in Waiting}
    /\ \A i \in DOMAIN activeByIp :
         activeByIp[i] = Cardinality({r \in Waiting : request[r].ip = i})

\* Over any interval, all together and each address that stays in the table get at most a
\* full bucket and the refill: the clock's jumps and the pruning of idle entries give nothing
\* away (TokenBucketRateLimiter.consume).
BucketsHold ==
    /\ globalExcess <= Rate(GlobalLimit, 1)!Full
    /\ \A i \in Ip : ipExcess[i] <= Rate(IpLimit, MaxEntries)!Full

\* Admission is bounded at one moment by the slots and over time by the buckets.
AdmissionIsBounded == SlotsMatchRequests /\ BucketsHold

\* Only the address that was quiet for longest is evicted, and only from a full table: one
\* that keeps asking cannot win a new bucket (the order of the Map).
EvictionIsFair ==
    [][\A i \in Ip :
         LET before == ipTable.entries
             after  == ipTable'.entries
         IN
         HasBucket(before, i) /\ ~HasBucket(after, i) =>
            LET seenAt == before[Rate(IpLimit, MaxEntries)!PlaceOf(before, i)].lastSeenAt IN
            \/ seenAt + Ttl <= ipTable'.lastTimestamp
            \/ /\ Len(after) = MaxEntries
               /\ \A n \in DOMAIN after : after[n].lastSeenAt >= seenAt]_guardVars
===============================================================================
