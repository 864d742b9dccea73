-------------------------- MODULE ServerProcessProofs --------------------------
(***************************************************************************)
(* The server process and its feed proxy, for any number of connections,   *)
(* clients and visitors. Of the proxy: a request holds a slot exactly as   *)
(* long as its fetch runs, so what is counted and what is in use belongs   *)
(* to it; a lookup that a fetch left behind has neither. Of the process:   *)
(* each phase of start and shutdown has its store, its listeners and its   *)
(* rooms, and the store is closed by the phases that come after all of     *)
(* them.                                                                   *)
(***************************************************************************)
EXTENDS ServerProcess, FiniteSetTheorems, TLAPS

\* The requests of a client that hold a slot.
Held(i) == {q \in active : client[q] = i}

\* A handler and its fetch begin together and end together.
FetchHasHandler == \A q \in Request : q \in active <=> chain[q] # "none"

\* The bound on lookups left behind has room for that of the request in hand.
LookupsFit == \A q \in active : late[q] < MaxLate

ClientsAreKnown == \A q \in Request : connection[q] # "closed" => client[q] \in Client

FeedInv ==
    /\ FeedTypeOK /\ IsFiniteSet(active)
    /\ FetchHasHandler /\ LookupsFit /\ ClientsAreKnown
    /\ SlotsMatchHandlers /\ UpstreamIsOwned

\* What each phase has made and what it has let go.
PhaseInv ==
    /\ phase = "starting" => store = "new" /\ listener = "down" /\ drain = "none" /\ rooms = {}
    /\ phase \in {"binding", "running"} =>
          store = "open" /\ listener = "listening" /\ drain = "none"
    /\ phase \in {"failing", "closing"} => store = "open" /\ drain # "none"
    /\ phase = "ended" => listener \in {"down", "closed"} /\ rooms = {}
    /\ phase \in {"starting", "binding", "failing", "ended"} => FeedClosed
    /\ listening => phase \in {"running", "killed"}
    /\ store = "closed" => phase = "ended"
    /\ forceCloseTimer # "off" => phase \in {"closing", "killed"}

\* The rooms are drained before the listener goes, and the store outlasts them.
DrainInv ==
    /\ rooms # {} => store = "open"
    /\ drain = "drained" => rooms = {}
    /\ drain # "none" /\ awaited = "nothing" => listener = "down"
    /\ forceCloseTimer = "fired" => FeedClosed

ProcessTyped ==
    /\ phase \in {"starting", "binding", "running", "failing", "closing", "ended", "killed"}
    /\ store \in {"new", "open", "closed"}
    /\ rooms \subseteq Visitor /\ matchmaking \subseteq Visitor
    /\ listener \in {"down", "listening", "closing", "closed"}
    /\ drain \in {"none", "draining", "drained"}
    /\ awaited \in {"nothing", "close"}
    /\ forceCloseTimer \in {"off", "set", "fired"}
    /\ failed \in BOOLEAN /\ exitCode \in {0, 1}
    /\ signalled \subseteq Signal

LifeInv == ProcessTyped /\ PhaseInv /\ DrainInv

ProcessInv == FeedInv /\ LifeInv
-----------------------------------------------------------------------------
LEMMA FeedInitOK == FeedInit => FeedInv
<1> SUFFICES ASSUME FeedInit PROVE FeedInv
  OBVIOUS
<1> USE FeedAssumption DEF FeedInit
<1>1. FeedTypeOK
  <2>1. DOMAIN activeByClient = {}
    OBVIOUS
  <2>2. /\ redirects \in [Request -> 0..MaxRedirects] /\ activeTotal \in 0..MaxTotal
        /\ late \in [Request -> 0..MaxLate] /\ pooled \in 0..MaxPooled
    OBVIOUS
  <2> QED
    BY <2>1, <2>2 DEF FeedTypeOK
<1>2. IsFiniteSet(active) /\ Cardinality(active) = 0
  BY FS_EmptySet
<1>3. FetchHasHandler /\ LookupsFit /\ ClientsAreKnown
  BY DEF FetchHasHandler, LookupsFit, ClientsAreKnown
<1>4. ASSUME NEW i \in Client PROVE ActiveFor(i) = Cardinality({q \in active : client[q] = i})
  <2>1. {q \in active : client[q] = i} = {} /\ ActiveFor(i) = 0
    BY DEF ActiveFor
  <2> QED
    BY <2>1, FS_EmptySet
<1>5. SlotsMatchHandlers
  BY <1>2, <1>4 DEF SlotsMatchHandlers
<1>6. UpstreamIsOwned
  BY DEF UpstreamIsOwned
<1> QED
  BY <1>1, <1>2, <1>3, <1>5, <1>6 DEF FeedInv

LEMMA HeldIsFinite ==
    ASSUME FeedInv, NEW i
    PROVE  /\ IsFiniteSet(Held(i)) /\ Cardinality(Held(i)) \in Nat
           /\ Cardinality(Held(i)) = 0 <=> Held(i) = {}
BY FS_Subset, FS_CardinalityType, FS_EmptySet DEF Held, FeedInv

\* The slots of what is counted, of the whole and of one client.
SlotsTyped ==
    /\ active \subseteq Request /\ IsFiniteSet(active)
    /\ activeTotal = Cardinality(active) /\ activeTotal \in 0..MaxTotal
    /\ DOMAIN activeByClient \subseteq Client
    /\ \A i \in DOMAIN activeByClient : activeByClient[i] \in 1..MaxPerClient
    /\ \A i \in Client : ActiveFor(i) = Cardinality(Held(i))

\* Giving back the slots of some requests leaves the counts of the others: a client with none
\* left loses its entry.
LEMMA ReleaseEffect ==
    ASSUME FeedInv, NEW qs \in SUBSET active, Release(qs), client' = client
    PROVE  active' = active \ qs /\ SlotsTyped'
<1> DEFINE mine(i) == {q \in qs : client[q] = i}
<1>1. /\ active \subseteq Request /\ IsFiniteSet(active) /\ activeTotal = Cardinality(active)
      /\ activeTotal \in 0..MaxTotal /\ MaxTotal \in Nat /\ MaxPerClient \in Nat
      /\ DOMAIN activeByClient \subseteq Client
      /\ \A i \in DOMAIN activeByClient : activeByClient[i] \in 1..MaxPerClient
      /\ \A i \in Client : ActiveFor(i) = Cardinality(Held(i))
  BY FeedAssumption DEF FeedInv, FeedTypeOK, SlotsMatchHandlers, Held
<1>2. /\ active' = active \ qs /\ activeTotal' = activeTotal - Cardinality(qs)
      /\ activeByClient' = [i \in {j \in DOMAIN activeByClient :
                                      activeByClient[j] - Cardinality(mine(j)) > 0} |->
                              activeByClient[i] - Cardinality(mine(i))]
  BY DEF Release
<1>3. /\ IsFiniteSet(active') /\ activeTotal' = Cardinality(active') /\ activeTotal' \in 0..MaxTotal
  <2>1. active \cap qs = qs /\ IsFiniteSet(qs) /\ Cardinality(qs) \in Nat
    BY <1>1, FS_Subset, FS_CardinalityType
  <2>2. IsFiniteSet(active') /\ Cardinality(active') = Cardinality(active) - Cardinality(qs)
    <3>1. /\ IsFiniteSet(active \ qs)
          /\ Cardinality(active \ qs) = Cardinality(active) - Cardinality(active \cap qs)
      BY <1>1, FS_Difference
    <3> QED
      BY <1>2, <2>1, <3>1
  <2>3. Cardinality(active') \in Nat
    BY <2>2, FS_CardinalityType
  <2> QED
    BY <1>1, <1>2, <2>1, <2>2, <2>3
<1>4. ASSUME NEW i \in Client
      PROVE  /\ Cardinality(Held(i)') = ActiveFor(i) - Cardinality(mine(i))
             /\ Cardinality(Held(i)') \in Nat /\ Cardinality(mine(i)) \in Nat
  <2>1. Held(i)' = Held(i) \ mine(i) /\ Held(i) \cap mine(i) = mine(i)
    BY <1>2 DEF Held
  <2>2. IsFiniteSet(Held(i))
    BY HeldIsFinite
  <2>3. /\ IsFiniteSet(Held(i)')
        /\ Cardinality(Held(i)') = Cardinality(Held(i)) - Cardinality(mine(i))
    <3>1. /\ IsFiniteSet(Held(i) \ mine(i))
          /\ Cardinality(Held(i) \ mine(i)) = Cardinality(Held(i)) - Cardinality(Held(i) \cap mine(i))
      BY <2>2, FS_Difference
    <3> QED
      BY <2>1, <3>1
  <2>4. IsFiniteSet(mine(i))
    BY <2>1, <2>2, FS_Subset
  <2> QED
    BY <1>1, <2>3, <2>4, FS_CardinalityType
<1> HIDE DEF mine
<1>5. ASSUME NEW i \in Client PROVE ActiveFor(i)' = Cardinality(Held(i)')
  <2>1. CASE i \in DOMAIN activeByClient
    <3>1. ActiveFor(i) = activeByClient[i]
      BY <2>1 DEF ActiveFor
    <3>2. ActiveFor(i)' = IF activeByClient[i] - Cardinality(mine(i)) > 0
                          THEN activeByClient[i] - Cardinality(mine(i)) ELSE 0
      BY <1>2, <2>1 DEF ActiveFor
    <3> QED
      BY <1>1, <1>4, <2>1, <3>1, <3>2
  <2>2. CASE i \notin DOMAIN activeByClient
    <3>1. ActiveFor(i) = 0 /\ ActiveFor(i)' = 0
      BY <1>2, <2>2 DEF ActiveFor
    <3> QED
      BY <1>4, <3>1
  <2> QED
    BY <2>1, <2>2
<1>6. ASSUME NEW i \in DOMAIN activeByClient'
      PROVE  i \in Client /\ activeByClient'[i] \in 1..MaxPerClient
  <2>1. /\ i \in DOMAIN activeByClient
        /\ activeByClient'[i] = activeByClient[i] - Cardinality(mine(i))
        /\ activeByClient[i] - Cardinality(mine(i)) > 0
    BY <1>2
  <2>2. i \in Client /\ activeByClient[i] \in 1..MaxPerClient
    BY <1>1, <2>1
  <2> QED
    BY <1>1, <1>4, <2>1, <2>2
<1> QED
  BY <1>1, <1>2, <1>3, <1>5, <1>6 DEF SlotsTyped

\* A request that finds a slot takes it.
LEMMA AcceptEffect ==
    ASSUME FeedInv, NEW q \in Request, Accept(q)
    PROVE  active' = active \union {q} /\ q \notin active /\ SlotsTyped'
<1>1. /\ active \subseteq Request /\ IsFiniteSet(active) /\ activeTotal = Cardinality(active)
      /\ activeTotal \in 0..MaxTotal /\ MaxTotal \in Nat /\ MaxPerClient \in Nat \ {0}
      /\ DOMAIN activeByClient \subseteq Client
      /\ \A i \in DOMAIN activeByClient : activeByClient[i] \in 1..MaxPerClient
      /\ \A i \in Client : ActiveFor(i) = Cardinality(Held(i))
  BY FeedAssumption DEF FeedInv, FeedTypeOK, SlotsMatchHandlers, Held
<1>2. /\ active' = active \union {q} /\ activeTotal' = activeTotal + 1 /\ client' = client
      /\ activeByClient' = [i \in DOMAIN activeByClient \union {client[q]} |->
                              IF i = client[q] THEN ActiveFor(i) + 1 ELSE activeByClient[i]]
      /\ ActiveFor(client[q]) < MaxPerClient /\ activeTotal < MaxTotal
  BY DEF Accept, HasSlot
<1>3. q \notin active /\ client[q] \in Client
  BY DEF Accept, FeedInv, SlotsMatchHandlers, ClientsAreKnown
<1>4. /\ IsFiniteSet(active') /\ activeTotal' = Cardinality(active') /\ activeTotal' \in 0..MaxTotal
  BY <1>1, <1>2, <1>3, FS_AddElement
<1>5. \A i \in Client : ActiveFor(i) \in Nat
  BY <1>1, HeldIsFinite
<1>6. ASSUME NEW i \in Client PROVE ActiveFor(i)' = Cardinality(Held(i)')
  <2>1. CASE i = client[q]
    <3>1. Held(i)' = Held(i) \union {q} /\ q \notin Held(i)
      BY <1>2, <1>3, <2>1 DEF Held
    <3>2. Cardinality(Held(i)') = Cardinality(Held(i)) + 1
      BY <3>1, HeldIsFinite, FS_AddElement
    <3>3. ActiveFor(i)' = ActiveFor(i) + 1
      BY <1>2, <2>1 DEF ActiveFor
    <3> QED
      BY <1>1, <3>2, <3>3
  <2>2. CASE i # client[q]
    <3>1. Held(i)' = Held(i)
      BY <1>2, <2>2 DEF Held
    <3>2. ActiveFor(i)' = ActiveFor(i)
      BY <1>2, <2>2 DEF ActiveFor
    <3> QED
      BY <1>1, <3>1, <3>2
  <2> QED
    BY <2>1, <2>2
<1>7. ASSUME NEW i \in DOMAIN activeByClient'
      PROVE  i \in Client /\ activeByClient'[i] \in 1..MaxPerClient
  <2>1. CASE i = client[q]
    <3>1. activeByClient'[i] = ActiveFor(i) + 1
      BY <1>2, <2>1
    <3> QED
      BY <1>1, <1>2, <1>3, <1>5, <2>1, <3>1
  <2>2. CASE i # client[q]
    BY <1>1, <1>2, <2>2
  <2> QED
    BY <2>1, <2>2
<1> QED
  BY <1>1, <1>2, <1>3, <1>4, <1>6, <1>7 DEF SlotsTyped
-----------------------------------------------------------------------------
\* The invariant request by request, beside the counts.
FetchTyped ==
    /\ listening \in BOOLEAN
    /\ connection \in [Request -> {"closed", "idle", "waiting"}]
    /\ client \in [Request -> Client \union {NoClient}]
    /\ chain \in [Request -> {"none", "resolving", "connecting", "reading"}]
    /\ redirects \in [Request -> 0..MaxRedirects]
    /\ upstream \in [Request -> Nat]
    /\ late \in [Request -> 0..MaxLate]
    /\ pooled \in 0..MaxPooled

RequestOK(q) ==
    /\ connection[q] = "waiting" <=> q \in active
    /\ q \in active <=> chain[q] # "none"
    /\ q \in active => late[q] < MaxLate
    /\ connection[q] # "closed" => client[q] \in Client
    /\ upstream[q] = IF chain[q] \in {"connecting", "reading"} THEN 1 ELSE 0
    /\ upstream[q] > 0 => q \in active

LEMMA FeedParts == FeedInv <=> SlotsTyped /\ FetchTyped /\ \A q \in Request : RequestOK(q)
BY DEF FeedInv, FeedTypeOK, FetchHasHandler, LookupsFit, ClientsAreKnown, SlotsMatchHandlers,
       UpstreamIsOwned, SlotsTyped, FetchTyped, RequestOK, Held

LEMMA FeedPartsNext ==
    SlotsTyped' /\ FetchTyped' /\ (\A q \in Request : RequestOK(q)') => FeedInv'
BY DEF FeedInv, FeedTypeOK, FetchHasHandler, LookupsFit, ClientsAreKnown, SlotsMatchHandlers,
       UpstreamIsOwned, SlotsTyped, FetchTyped, RequestOK, Held

LEMMA SlotsKept == ASSUME SlotsTyped, UNCHANGED <<slots, client>> PROVE SlotsTyped'
<1>1. /\ active' = active /\ activeTotal' = activeTotal
      /\ activeByClient' = activeByClient /\ client' = client
  BY DEF slots
<1> QED
  BY <1>1 DEF SlotsTyped, ActiveFor, Held

\* What the end of some fetches does to them: they use no connection any more.
LEMMA ChainEndsEffect ==
    ASSUME FetchTyped, NEW qs \in SUBSET Request, ChainEnds(qs)
    PROVE  /\ chain' \in [Request -> {"none", "resolving", "connecting", "reading"}]
           /\ redirects' \in [Request -> 0..MaxRedirects]
           /\ upstream' \in [Request -> Nat]
           /\ \A q \in qs : chain'[q] = "none" /\ upstream'[q] = 0
           /\ \A q \in Request \ qs : chain'[q] = chain[q] /\ upstream'[q] = upstream[q]
BY FeedAssumption DEF FetchTyped, ChainEnds

\* An abort does that too, and a lookup it leaves behind has room.
LEMMA AbortEffect ==
    ASSUME FeedInv, NEW qs \in SUBSET active, Abort(qs)
    PROVE  /\ ChainEnds(qs) /\ pooled' = pooled
           /\ late' \in [Request -> 0..MaxLate]
           /\ \A q \in Request \ qs : late'[q] = late[q]
<1>1. FetchTyped /\ \A q \in Request : RequestOK(q)
  BY FeedParts
<1>2. /\ ChainEnds(qs) /\ pooled' = pooled
      /\ late' = [q \in Request |->
                    IF q \in qs /\ chain[q] = "resolving" THEN late[q] + 1 ELSE late[q]]
  BY DEF Abort
<1>3. ASSUME NEW q \in Request
      PROVE  (IF q \in qs /\ chain[q] = "resolving" THEN late[q] + 1 ELSE late[q]) \in 0..MaxLate
  <2>1. late[q] \in 0..MaxLate /\ MaxLate \in Nat /\ (q \in qs => late[q] < MaxLate)
    BY <1>1, FeedAssumption DEF FetchTyped, RequestOK
  <2> QED
    BY <2>1
<1> QED
  BY <1>2, <1>3

\* Closing connections ends the requests that waited on them, and no others.
LEMMA DisconnectFeed ==
    ASSUME FeedInv, NEW qs \in SUBSET Request, Disconnect(qs), listening' \in BOOLEAN
    PROVE  FeedInv'
<1> DEFINE ended == qs \cap active
<1>1. SlotsTyped /\ FetchTyped /\ \A q \in Request : RequestOK(q)
  BY FeedParts
<1>2. /\ client' = client
      /\ connection' = [q \in Request |-> IF q \in qs THEN "closed" ELSE connection[q]]
      /\ Release(ended) /\ Abort(ended)
  BY DEF Disconnect
<1>3. ended \in SUBSET active /\ ended \in SUBSET Request
  BY <1>1 DEF SlotsTyped
<1> HIDE DEF ended
<1>4. SlotsTyped' /\ active' = active \ ended
  BY <1>2, <1>3, ReleaseEffect
<1>5. /\ ChainEnds(ended) /\ pooled' = pooled /\ late' \in [Request -> 0..MaxLate]
      /\ \A q \in Request \ ended : late'[q] = late[q]
  BY <1>2, <1>3, AbortEffect
<1>6. /\ chain' \in [Request -> {"none", "resolving", "connecting", "reading"}]
      /\ redirects' \in [Request -> 0..MaxRedirects]
      /\ upstream' \in [Request -> Nat]
      /\ \A q \in ended : chain'[q] = "none" /\ upstream'[q] = 0
      /\ \A q \in Request \ ended : chain'[q] = chain[q] /\ upstream'[q] = upstream[q]
  BY <1>1, <1>3, <1>5, ChainEndsEffect
<1>7. FetchTyped'
  BY <1>1, <1>2, <1>5, <1>6 DEF FetchTyped
<1>8. ASSUME NEW q \in Request PROVE RequestOK(q)'
  <2>1. RequestOK(q) /\ connection[q] \in {"closed", "idle", "waiting"}
    BY <1>1 DEF FetchTyped
  <2>2. CASE q \in ended
    <3>1. /\ connection'[q] = "closed" /\ q \notin active' /\ upstream'[q] = 0
          /\ chain'[q] = "none"
      BY <1>2, <1>4, <1>6, <2>2 DEF ended
    <3> QED
      BY <3>1 DEF RequestOK
  <2>3. CASE q \notin ended
    <3>1. q \in qs => q \notin active
      BY <2>3 DEF ended
    <3>2. /\ connection'[q] = IF q \in qs THEN "closed" ELSE connection[q]
          /\ q \in active' <=> q \in active
          /\ chain'[q] = chain[q] /\ upstream'[q] = upstream[q] /\ late'[q] = late[q]
          /\ client'[q] = client[q]
      BY <1>2, <1>4, <1>5, <1>6, <2>3
    <3> QED
      BY <2>1, <3>1, <3>2 DEF RequestOK
  <2> QED
    BY <2>2, <2>3
<1> QED
  BY <1>4, <1>7, <1>8, FeedPartsNext

\* A request that is answered keeps its connection; its fetch has ended or is aborted.
LEMMA AnswerFeed ==
    ASSUME FeedInv, NEW q \in Request, q \in active, Answer(q), ChainEnds({q}),
           late' \in [Request -> 0..MaxLate], pooled' \in 0..MaxPooled,
           \A p \in Request \ {q} : late'[p] = late[p]
    PROVE  FeedInv'
<1>1. SlotsTyped /\ FetchTyped /\ \A p \in Request : RequestOK(p)
  BY FeedParts
<1>2. /\ UNCHANGED <<listening, client>>
      /\ connection' = [connection EXCEPT ![q] = "idle"] /\ Release({q})
  BY DEF Answer
<1>3. SlotsTyped' /\ active' = active \ {q}
  BY <1>2, ReleaseEffect
<1>4. /\ chain' \in [Request -> {"none", "resolving", "connecting", "reading"}]
      /\ redirects' \in [Request -> 0..MaxRedirects]
      /\ upstream' \in [Request -> Nat]
      /\ chain'[q] = "none" /\ upstream'[q] = 0
      /\ \A p \in Request \ {q} : chain'[p] = chain[p] /\ upstream'[p] = upstream[p]
  <2>1. {q} \in SUBSET Request
    OBVIOUS
  <2> QED
    BY <1>1, <2>1, ChainEndsEffect
<1>5. /\ connection' \in [Request -> {"closed", "idle", "waiting"}] /\ connection'[q] = "idle"
      /\ \A p \in Request \ {q} : connection'[p] = connection[p]
  BY <1>1, <1>2 DEF FetchTyped
<1>6. FetchTyped'
  BY <1>1, <1>2, <1>4, <1>5 DEF FetchTyped
<1>7. ASSUME NEW p \in Request PROVE RequestOK(p)'
  <2>1. CASE p = q
    BY <1>1, <1>2, <1>3, <1>4, <1>5, <2>1 DEF RequestOK, FetchTyped
  <2>2. CASE p # q
    BY <1>1, <1>2, <1>3, <1>4, <1>5, <2>2 DEF RequestOK
  <2> QED
    BY <2>1, <2>2
<1> QED
  BY <1>3, <1>6, <1>7, FeedPartsNext

LEMMA TimeoutFeed ==
    ASSUME FeedInv, NEW q \in Request, Timeout(q)
    PROVE  FeedInv'
<1>1. q \in active /\ Answer(q) /\ Abort({q}) /\ {q} \in SUBSET active
  BY DEF Timeout
<1>2. /\ ChainEnds({q}) /\ pooled' = pooled /\ late' \in [Request -> 0..MaxLate]
      /\ \A p \in Request \ {q} : late'[p] = late[p]
  BY <1>1, AbortEffect
<1>3. pooled' \in 0..MaxPooled
  BY <1>2 DEF FeedInv, FeedTypeOK
<1> QED
  BY <1>1, <1>2, <1>3, AnswerFeed

LEMMA FetchEndsFeed ==
    ASSUME FeedInv, NEW q \in Request, FeedRead(q) \/ FetchFails(q)
    PROVE  FeedInv'
<1>1. /\ chain[q] # "none" /\ ChainEnds({q}) /\ Answer(q) /\ late' = late
      /\ \/ pooled' = pooled
         \/ pooled < MaxPooled /\ pooled' = pooled + 1
  BY DEF FeedRead, FetchFails
<1>2. q \in active /\ late \in [Request -> 0..MaxLate] /\ pooled \in 0..MaxPooled
  BY <1>1 DEF FeedInv, FeedTypeOK, FetchHasHandler
<1>3. pooled' \in 0..MaxPooled
  BY <1>1, <1>2, FeedAssumption
<1> QED
  BY <1>1, <1>2, <1>3, AnswerFeed

\* Steps of one fetch that take and give back no slot.
LEMMA FetchFeed ==
    ASSUME FeedInv, NEW q \in Request, Resolved(q) \/ Redirect(q) \/ Headers(q)
    PROVE  FeedInv'
<1>1. SlotsTyped /\ FetchTyped /\ \A p \in Request : RequestOK(p)
  BY FeedParts
<1>2. UNCHANGED <<listening, connection, client, late>> /\ UNCHANGED slots
  BY DEF Resolved, Redirect, Headers
<1>3. SlotsTyped' /\ active' = active
  BY <1>1, <1>2, SlotsKept DEF slots
<1>4. /\ chain' = [chain EXCEPT ![q] = chain'[q]]
      /\ upstream' = [upstream EXCEPT ![q] = upstream'[q]]
      /\ chain'[q] \in {"resolving", "connecting", "reading"}
      /\ upstream'[q] = IF chain'[q] \in {"connecting", "reading"} THEN 1 ELSE 0
      /\ chain[q] # "none" /\ q \in active
  <2>1. RequestOK(q)
    BY <1>1
  <2>2. CASE Resolved(q)
    BY <1>1, <2>1, <2>2 DEF Resolved, FetchTyped, RequestOK
  <2>3. CASE Redirect(q)
    BY <1>1, <2>1, <2>3 DEF Redirect, FetchTyped, RequestOK
  <2>4. CASE Headers(q)
    BY <1>1, <2>1, <2>4 DEF Headers, FetchTyped, RequestOK
  <2> QED
    BY <2>2, <2>3, <2>4
<1>5. redirects' \in [Request -> 0..MaxRedirects]
  <2>1. redirects' = redirects
        \/ (redirects[q] < MaxRedirects /\ redirects' = [redirects EXCEPT ![q] = redirects[q] + 1])
    BY DEF Resolved, Redirect, Headers
  <2> QED
    BY <1>1, <2>1, FeedAssumption DEF FetchTyped
<1>6. pooled' \in 0..MaxPooled
  <2>1. pooled' = pooled \/ (pooled > 0 /\ pooled' = pooled - 1)
    BY DEF Resolved, Redirect, Headers
  <2> QED
    BY <1>1, <2>1, FeedAssumption DEF FetchTyped
<1>7. FetchTyped'
  <2>1. upstream'[q] \in Nat
    BY <1>4
  <2>2. upstream' \in [Request -> Nat]
    BY <1>1, <1>4, <2>1 DEF FetchTyped
  <2>3. chain' \in [Request -> {"none", "resolving", "connecting", "reading"}]
    BY <1>1, <1>4 DEF FetchTyped
  <2> QED
    BY <1>1, <1>2, <1>5, <1>6, <2>2, <2>3 DEF FetchTyped
<1>8. ASSUME NEW p \in Request PROVE RequestOK(p)'
  <2>1. CASE p = q
    BY <1>1, <1>2, <1>3, <1>4, <2>1 DEF RequestOK, FetchTyped
  <2>2. CASE p # q
    BY <1>1, <1>2, <1>3, <1>4, <2>2 DEF RequestOK, FetchTyped
  <2> QED
    BY <2>1, <2>2
<1> QED
  BY <1>3, <1>7, <1>8, FeedPartsNext

\* A lookup that comes too late, and a pooled connection that closes, concern no request.
LEMMA AsideFeed ==
    ASSUME FeedInv, PooledCloses \/ \E q \in Request : ResolvedTooLate(q)
    PROVE  FeedInv'
<1>1. SlotsTyped /\ FetchTyped /\ \A p \in Request : RequestOK(p)
  BY FeedParts
<1>2. UNCHANGED <<listening, connection, client, chain, redirects, upstream>> /\ UNCHANGED slots
  BY DEF PooledCloses, ResolvedTooLate, fetch
<1>3. SlotsTyped' /\ active' = active
  BY <1>1, <1>2, SlotsKept DEF slots
<1>4. pooled' \in 0..MaxPooled
  <2>1. pooled' = pooled \/ (pooled > 0 /\ pooled' = pooled - 1)
    BY DEF PooledCloses, ResolvedTooLate
  <2> QED
    BY <1>1, <2>1, FeedAssumption DEF FetchTyped
<1>5. late' \in [Request -> 0..MaxLate] /\ \A p \in Request : late'[p] <= late[p]
  <2>1. CASE PooledCloses
    BY <1>1, <2>1, FeedAssumption DEF PooledCloses, fetch, FetchTyped
  <2>2. ASSUME NEW q \in Request, ResolvedTooLate(q)
        PROVE  late' \in [Request -> 0..MaxLate] /\ \A p \in Request : late'[p] <= late[p]
    <3>1. /\ late[q] > 0 /\ late' = [late EXCEPT ![q] = late[q] - 1]
          /\ late \in [Request -> 0..MaxLate] /\ MaxLate \in Nat
      BY <1>1, <2>2, FeedAssumption DEF ResolvedTooLate, FetchTyped
    <3>2. late[q] - 1 \in 0..MaxLate /\ late[q] - 1 <= late[q]
      BY <3>1
    <3> QED
      BY <3>1, <3>2
  <2> QED
    BY <2>1, <2>2
<1>6. FetchTyped'
  BY <1>1, <1>2, <1>4, <1>5 DEF FetchTyped
<1>7. ASSUME NEW p \in Request PROVE RequestOK(p)'
  <2>1. late[p] \in 0..MaxLate /\ late'[p] \in 0..MaxLate /\ late'[p] <= late[p]
        /\ MaxLate \in Nat
    BY <1>1, <1>5, FeedAssumption DEF FetchTyped
  <2> QED
    BY <1>1, <1>2, <1>3, <2>1 DEF RequestOK
<1> QED
  BY <1>3, <1>6, <1>7, FeedPartsNext

LEMMA ConnectFeed ==
    ASSUME FeedInv, NEW q \in Request, NEW i \in Client, Connect(q, i)
    PROVE  FeedInv'
<1>1. SlotsTyped /\ FetchTyped /\ \A p \in Request : RequestOK(p)
  BY FeedParts
<1>2. /\ connection[q] = "closed" /\ connection' = [connection EXCEPT ![q] = "idle"]
      /\ client' = [client EXCEPT ![q] = i]
      /\ UNCHANGED <<listening, chain, redirects, upstream, late, pooled>>
      /\ UNCHANGED <<active, activeTotal, activeByClient>>
  BY DEF Connect, slots, fetch
<1>3. q \notin active
  BY <1>1, <1>2 DEF RequestOK
<1>4. FetchTyped'
  BY <1>1, <1>2 DEF FetchTyped
<1>5. \A j \in Client : Held(j)' = Held(j) /\ ActiveFor(j)' = ActiveFor(j)
  BY <1>1, <1>2, <1>3 DEF Held, ActiveFor, SlotsTyped, FetchTyped
<1>6. SlotsTyped'
  BY <1>1, <1>2, <1>5 DEF SlotsTyped
<1>7. \A p \in Request : RequestOK(p)'
  BY <1>1, <1>2 DEF RequestOK, FetchTyped
<1> QED
  BY <1>4, <1>6, <1>7, FeedPartsNext

LEMMA AcceptFeed ==
    ASSUME FeedInv, NEW q \in Request, Accept(q)
    PROVE  FeedInv'
<1>1. SlotsTyped /\ FetchTyped /\ \A p \in Request : RequestOK(p)
  BY FeedParts
<1>2. /\ connection[q] = "idle" /\ late[q] < MaxLate
      /\ connection' = [connection EXCEPT ![q] = "waiting"]
      /\ chain' = [chain EXCEPT ![q] = "resolving"]
      /\ redirects' = [redirects EXCEPT ![q] = 0]
      /\ UNCHANGED <<listening, client, upstream, late, pooled>>
  BY DEF Accept
<1>3. SlotsTyped' /\ active' = active \union {q}
  BY AcceptEffect
<1>4. FetchTyped'
  BY <1>1, <1>2, FeedAssumption DEF FetchTyped
<1>5. \A p \in Request : RequestOK(p)'
  BY <1>1, <1>2, <1>3 DEF RequestOK, FetchTyped
<1> QED
  BY <1>3, <1>4, <1>5, FeedPartsNext

LEMMA FeedStep == FeedInv /\ FeedNext => FeedInv'
<1> SUFFICES ASSUME FeedInv, FeedNext PROVE FeedInv'
  OBVIOUS
<1>1. ASSUME NEW q \in Request, NEW i \in Client, Connect(q, i) PROVE FeedInv'
  BY <1>1, ConnectFeed
<1>2. ASSUME NEW q \in Request, Accept(q) PROVE FeedInv'
  BY <1>2, AcceptFeed
<1>3. ASSUME NEW q \in Request, Close(q) PROVE FeedInv'
  <2>1. Disconnect({q}) /\ listening' \in BOOLEAN /\ {q} \in SUBSET Request
    BY <1>3 DEF Close, FeedInv, FeedTypeOK
  <2> QED
    BY <2>1, DisconnectFeed
<1>4. ASSUME NEW q \in Request, Timeout(q) PROVE FeedInv'
  BY <1>4, TimeoutFeed
<1>5. ASSUME NEW q \in Request, FeedRead(q) \/ FetchFails(q) PROVE FeedInv'
  BY <1>5, FetchEndsFeed
<1>6. ASSUME NEW q \in Request, Resolved(q) \/ Redirect(q) \/ Headers(q) PROVE FeedInv'
  BY <1>6, FetchFeed
<1>7. CASE PooledCloses \/ \E q \in Request : ResolvedTooLate(q)
  BY <1>7, AsideFeed
<1> QED
  BY <1>1, <1>2, <1>3, <1>4, <1>5, <1>6, <1>7 DEF FeedNext, Work

LEMMA FeedQuiet == FeedInv /\ UNCHANGED feedVars => FeedInv'
<1> SUFFICES ASSUME FeedInv, UNCHANGED feedVars PROVE FeedInv'
  OBVIOUS
<1>1. SlotsTyped /\ FetchTyped /\ \A p \in Request : RequestOK(p)
  BY FeedParts
<1>2. /\ UNCHANGED <<listening, connection, client, active, activeTotal, activeByClient>>
      /\ UNCHANGED <<chain, redirects, upstream, late, pooled>>
  BY DEF feedVars, slots, fetch
<1>3. SlotsTyped'
  BY <1>1, <1>2, SlotsKept DEF slots
<1> QED
  BY <1>1, <1>2, <1>3, FeedPartsNext DEF FetchTyped, RequestOK
-----------------------------------------------------------------------------
\* Nobody comes to a proxy that has stopped listening and let everyone go.
LEMMA FeedStaysClosed ==
    ASSUME FeedInv, FeedNext
    PROVE  listening' = listening /\ (FeedClosed => FeedClosed')
<1>1. FetchTyped /\ \A p \in Request : RequestOK(p)
  BY FeedParts
<1>2. listening' = listening
  BY DEF FeedNext, Work, Connect, Accept, Close, Timeout, Answer, Resolved, ResolvedTooLate,
         Redirect, Headers, FeedRead, FetchFails, PooledCloses
<1>3. ASSUME FeedClosed PROVE connection' = connection
  <2>1. ~listening /\ \A q \in Request : connection[q] = "closed" /\ q \notin active
                                         /\ chain[q] = "none"
    BY <1>1, <1>3 DEF FeedClosed, RequestOK, FetchTyped
  <2> QED
    BY <2>1 DEF FeedNext, Work, Connect, Accept, Close, Timeout, Resolved, ResolvedTooLate,
                Redirect, Headers, FeedRead, FetchFails, PooledCloses
<1> QED
  BY <1>2, <1>3 DEF FeedClosed

LEMMA DisconnectCloses ==
    ASSUME NEW qs \in SUBSET Request, Disconnect(qs)
    PROVE  /\ \A q \in Request : connection[q] = "closed" => connection'[q] = "closed"
           /\ \A q \in qs : connection'[q] = "closed"
BY DEF Disconnect

LEMMA LifeInit == Init => LifeInv
BY DEF Init, FeedInit, LifeInv, ProcessTyped, PhaseInv, DrainInv, FeedClosed

\* Starting, as far as it gets.
LEMMA StartLife ==
    ASSUME ProcessInv, Start \/ StartRefused \/ ListenFails \/ BindFails
    PROVE  LifeInv' /\ UNCHANGED feedVars
<1>1. UNCHANGED feedVars /\ UNCHANGED forceCloseTimer
  BY DEF Start, StartRefused, ListenFails, BindFails
<1>2. FeedClosed' = FeedClosed /\ listening' = listening
  BY <1>1 DEF feedVars, FeedClosed
<1>3. ProcessTyped /\ PhaseInv /\ DrainInv
  BY DEF ProcessInv, LifeInv
<1>4. CASE Start
  BY <1>1, <1>2, <1>3, <1>4 DEF Start, LifeInv, ProcessTyped, PhaseInv, DrainInv
<1>5. CASE StartRefused
  BY <1>1, <1>2, <1>3, <1>5 DEF StartRefused, LifeInv, ProcessTyped, PhaseInv, DrainInv, multiplayer
<1>6. CASE ListenFails \/ BindFails
  BY <1>1, <1>2, <1>3, <1>6 DEF ListenFails, BindFails, MultiplayerShutdown, AwaitClose,
     LifeInv, ProcessTyped, PhaseInv, DrainInv
<1> QED
  BY <1>1, <1>4, <1>5, <1>6

LEMMA BindLife ==
    ASSUME ProcessInv, Bind
    PROVE  LifeInv' /\ FeedInv'
<1>1. LifeInv'
  BY DEF Bind, ProcessInv, LifeInv, ProcessTyped, PhaseInv, DrainInv, multiplayer, FeedClosed
<1>2. SlotsTyped /\ FetchTyped /\ \A p \in Request : RequestOK(p)
  BY FeedParts DEF ProcessInv
<1>3. /\ UNCHANGED <<connection, client, chain, redirects, upstream, late, pooled>>
      /\ UNCHANGED <<active, activeTotal, activeByClient>> /\ listening' = TRUE
  BY DEF Bind, slots, fetch
<1>4. SlotsTyped'
  BY <1>2, <1>3, SlotsKept DEF slots
<1>5. FeedInv'
  BY <1>2, <1>3, <1>4, FeedPartsNext DEF FetchTyped, RequestOK
<1> QED
  BY <1>1, <1>5

\* The process is killed where it is.
Killed ==
    /\ phase \notin {"ended", "killed"} /\ phase' = "killed"
    /\ UNCHANGED <<feedVars, store, forceCloseTimer, failed, exitCode, signalled, multiplayer>>

\* The ends: everything that is waited for is gone by then.
LEMMA EndLife ==
    ASSUME ProcessInv, StartFailed \/ ShutdownEnds \/ Killed
    PROVE  LifeInv' /\ UNCHANGED feedVars
<1>1. UNCHANGED feedVars /\ UNCHANGED multiplayer
  BY DEF StartFailed, ShutdownEnds, Killed
<1>2. FeedClosed' = FeedClosed /\ listening' = listening
  BY <1>1 DEF feedVars, FeedClosed
<1>3. ProcessTyped /\ PhaseInv /\ DrainInv
  BY DEF ProcessInv, LifeInv
<1>4. MultiplayerClosed => rooms = {} /\ listener \in {"down", "closed"}
  BY <1>3 DEF MultiplayerClosed, DrainInv, ProcessTyped
<1>5. CASE StartFailed
  BY <1>1, <1>2, <1>3, <1>4, <1>5 DEF StartFailed, LifeInv, ProcessTyped, PhaseInv, DrainInv, multiplayer
<1>6. CASE ShutdownEnds
  BY <1>1, <1>2, <1>3, <1>4, <1>6 DEF ShutdownEnds, ServicesClosed, LifeInv, ProcessTyped, PhaseInv,
     DrainInv, multiplayer
<1>7. CASE Killed
  BY <1>1, <1>2, <1>3, <1>7 DEF Killed, LifeInv, ProcessTyped, PhaseInv, DrainInv, multiplayer
<1> QED
  BY <1>1, <1>5, <1>6, <1>7

\* The shutdown begins once, and the proxy no longer listens.
LEMMA ShutdownLife ==
    ASSUME ProcessInv, NEW failure \in BOOLEAN, Shutdown(failure), phase \in {"running", "closing"},
           signalled' \subseteq Signal
    PROVE  LifeInv' /\ FeedInv'
<1>1. ProcessTyped /\ PhaseInv /\ DrainInv /\ FeedInv
  BY DEF ProcessInv, LifeInv
<1>2. CASE phase = "closing"
  <2>1. UNCHANGED <<store, phase, forceCloseTimer, failed, exitCode>> /\ UNCHANGED multiplayer
        /\ UNCHANGED feedVars
    BY <1>2 DEF Shutdown
  <2>2. FeedClosed' = FeedClosed /\ listening' = listening
    BY <2>1 DEF feedVars, FeedClosed
  <2>3. LifeInv'
    BY <1>1, <2>1, <2>2 DEF LifeInv, ProcessTyped, PhaseInv, DrainInv, multiplayer
  <2> QED
    BY <1>1, <2>1, <2>3, FeedQuiet
<1>3. CASE phase = "running"
  <2>1. /\ phase' = "closing" /\ failed' = failure /\ forceCloseTimer' = "set"
        /\ listening' = FALSE /\ MultiplayerShutdown /\ UNCHANGED <<store, exitCode>>
        /\ Disconnect({q \in Request : connection[q] = "idle"})
    BY <1>3 DEF Shutdown
  <2>2. LifeInv'
    BY <1>1, <1>3, <2>1 DEF MultiplayerShutdown, AwaitClose, LifeInv, ProcessTyped, PhaseInv, DrainInv
  <2>3. {q \in Request : connection[q] = "idle"} \in SUBSET Request
    OBVIOUS
  <2>4. FeedInv'
    BY <1>1, <2>1, <2>3, DisconnectFeed
  <2> QED
    BY <2>2, <2>4
<1> QED
  BY <1>2, <1>3

LEMMA ForceCloseLife ==
    ASSUME ProcessInv, ForceClose, phase # "killed"
    PROVE  LifeInv' /\ FeedInv'
<1> DEFINE qs == {q \in Request : connection[q] # "closed"}
<1>1. ProcessTyped /\ PhaseInv /\ DrainInv /\ FeedInv /\ qs \in SUBSET Request /\ Disconnect(qs)
  BY DEF ProcessInv, LifeInv, ForceClose
<1>2. /\ forceCloseTimer = "set" /\ forceCloseTimer' = "fired" /\ matchmaking' = {}
      /\ UNCHANGED <<listening, store, phase, failed, exitCode, signalled, rooms, listener, drain,
                      awaited>>
  BY DEF ForceClose
<1>3. \A q \in Request : connection'[q] = "closed"
  BY <1>1, DisconnectCloses
<1>4. ~listening
  BY <1>1, <1>2 DEF PhaseInv
<1>5. FeedClosed'
  BY <1>2, <1>3, <1>4 DEF FeedClosed
<1>6. LifeInv'
  BY <1>1, <1>2, <1>5 DEF LifeInv, ProcessTyped, PhaseInv, DrainInv
<1>7. listening' \in BOOLEAN
  BY <1>1, <1>2 DEF FeedInv, FeedTypeOK
<1>8. FeedInv'
  BY <1>1, <1>7, DisconnectFeed
<1> QED
  BY <1>6, <1>8

\* Visitors come and go, and the listener follows the rooms.
LEMMA VisitorLife ==
    ASSUME ProcessInv,
           \/ \E v \in Visitor : MatchmakingOpens(v) \/ MatchmakingEnds(v) \/ Enter(v) \/ Leave(v)
           \/ Drained \/ ListenerCloses,
           phase # "killed"
    PROVE  LifeInv' /\ UNCHANGED feedVars
<1>1. UNCHANGED feedVars /\ UNCHANGED process /\ UNCHANGED <<store, awaited>>
  BY DEF MatchmakingOpens, MatchmakingEnds, Enter, Leave, Drained, ListenerCloses
<1>2. FeedClosed' = FeedClosed /\ listening' = listening
  BY <1>1 DEF feedVars, FeedClosed
<1>3. ProcessTyped /\ PhaseInv /\ DrainInv
  BY DEF ProcessInv, LifeInv
<1>4. ASSUME NEW v \in Visitor, MatchmakingOpens(v) \/ MatchmakingEnds(v) \/ Leave(v) PROVE LifeInv'
  BY <1>1, <1>2, <1>3, <1>4 DEF MatchmakingOpens, MatchmakingEnds, Leave, LifeInv, ProcessTyped,
     PhaseInv, DrainInv, process
<1>5. ASSUME NEW v \in Visitor, Enter(v) PROVE LifeInv'
  <2>1. store = "open" /\ phase \notin {"starting", "ended"}
    BY <1>3, <1>5 DEF Enter, PhaseInv, ProcessTyped
  <2> QED
    BY <1>1, <1>2, <1>3, <1>5, <2>1 DEF Enter, LifeInv, ProcessTyped, PhaseInv, DrainInv, process
<1>6. CASE Drained \/ ListenerCloses
  BY <1>1, <1>2, <1>3, <1>6 DEF Drained, ListenerCloses, LifeInv, ProcessTyped, PhaseInv, DrainInv,
     process
<1> QED
  BY <1>1, <1>4, <1>5, <1>6

LEMMA FeedLife ==
    ASSUME ProcessInv, Feed
    PROVE  LifeInv' /\ FeedInv'
<1>1. ProcessTyped /\ PhaseInv /\ DrainInv /\ FeedInv /\ FeedNext
      /\ UNCHANGED store /\ UNCHANGED process /\ UNCHANGED multiplayer
  BY DEF ProcessInv, LifeInv, Feed
<1>2. listening' = listening /\ (FeedClosed => FeedClosed')
  BY <1>1, FeedStaysClosed
<1>3. LifeInv'
  BY <1>1, <1>2 DEF LifeInv, ProcessTyped, PhaseInv, DrainInv, process, multiplayer
<1> QED
  BY <1>1, <1>3, FeedStep

LEMMA ProcessInductive == ProcessInv /\ [Next]_vars => ProcessInv'
<1> SUFFICES ASSUME ProcessInv, [Next]_vars PROVE ProcessInv'
  OBVIOUS
<1>1. ASSUME LifeInv', UNCHANGED feedVars PROVE ProcessInv'
  BY <1>1, FeedQuiet DEF ProcessInv
<1>2. CASE Start \/ StartRefused \/ ListenFails \/ BindFails
  BY <1>1, <1>2, StartLife
<1>3. CASE Bind
  BY <1>3, BindLife DEF ProcessInv
<1>4. CASE StartFailed \/ ShutdownEnds \/ Killed
  BY <1>1, <1>4, EndLife
<1>5. ASSUME NEW s \in Signal, SignalArrives(s) PROVE ProcessInv'
  <2>1. Shutdown(FALSE) /\ phase \in {"running", "closing"} /\ signalled' \subseteq Signal
    BY <1>5 DEF SignalArrives, ProcessInv, LifeInv, ProcessTyped
  <2> QED
    BY <2>1, ShutdownLife DEF ProcessInv
<1>6. ASSUME Shutdown(TRUE), phase = "running", UNCHANGED signalled PROVE ProcessInv'
  <2>1. signalled' \subseteq Signal
    BY <1>6 DEF ProcessInv, LifeInv, ProcessTyped
  <2> QED
    BY <1>6, <2>1, ShutdownLife DEF ProcessInv
<1>7. CASE ForceClose /\ phase # "killed"
  BY <1>7, ForceCloseLife DEF ProcessInv
<1>8. CASE /\ phase # "killed"
           /\ \/ \E v \in Visitor : MatchmakingOpens(v) \/ MatchmakingEnds(v) \/ Enter(v) \/ Leave(v)
              \/ Drained \/ ListenerCloses
  BY <1>1, <1>8, VisitorLife
<1>9. CASE Feed
  BY <1>9, FeedLife DEF ProcessInv
<1>10. CASE UNCHANGED vars
  <2>1. /\ UNCHANGED feedVars /\ UNCHANGED store /\ UNCHANGED process /\ UNCHANGED multiplayer
    BY <1>10 DEF vars
  <2>2. FeedClosed' = FeedClosed /\ listening' = listening
    BY <2>1 DEF feedVars, FeedClosed
  <2>3. LifeInv'
    BY <2>1, <2>2 DEF ProcessInv, LifeInv, ProcessTyped, PhaseInv, DrainInv, process, multiplayer
  <2> QED
    BY <1>1, <2>1, <2>3
<1>11. ASSUME NEW s \in Signal, SignalKills(s), phase # "killed" PROVE Killed
  BY <1>11 DEF SignalKills, Killed
<1>12. CASE ListenerFails /\ phase # "killed"
  <2>1. CASE phase = "running" /\ Shutdown(TRUE) /\ UNCHANGED signalled
    BY <1>6, <2>1
  <2>2. CASE phase' = "killed" /\ awaited = "close"
    <3>1. phase # "ended"
      BY <1>12 DEF ListenerFails, ProcessInv, LifeInv, PhaseInv
    <3> QED
      BY <1>4, <1>12, <2>2, <3>1 DEF ListenerFails, Killed, Shutdown
  <2> QED
    BY <1>12, <2>1, <2>2 DEF ListenerFails
<1>13. CASE FeedListenerFails
  BY <1>6, <1>13 DEF FeedListenerFails
<1> QED
  BY <1>2, <1>3, <1>4, <1>5, <1>7, <1>8, <1>9, <1>10, <1>11, <1>12, <1>13 DEF Next

LEMMA ProcessInvariant == Spec => []ProcessInv
<1>1. Init => ProcessInv
  BY FeedInitOK, LifeInit DEF Init, ProcessInv
<1> QED
  BY <1>1, ProcessInductive, PTL DEF Spec

\* The state of process, proxy and rooms keeps its types.
THEOREM ProcessTypeCorrect == Spec => []TypeOK
<1>1. ProcessInv => TypeOK
  BY DEF ProcessInv, FeedInv, LifeInv, ProcessTyped, TypeOK
<1> QED
  BY <1>1, ProcessInvariant, PTL

\* Whoever settles a request first, its fetch, its timeout, its client or the shutdown, the
\* slots taken are those of the requests in hand (acquireFeedSlot, handleFeedRequest), and no
\* connection to a feed's server is in use without one (fetchFeed, fetchFeedChain).
THEOREM FeedAlwaysBounded == Spec => []FeedIsBounded
<1>1. ProcessInv => FeedIsBounded
  BY DEF ProcessInv, FeedInv, FeedIsBounded
<1> QED
  BY <1>1, ProcessInvariant, PTL

\* However a process starts and ends (startServer, shutdownServices), a visitor in a room has
\* a store to report to, a closed store has no users left, and no connection outlives the
\* grace period.
THEOREM StoreAlwaysOutlives == Spec => []StoreOutlivesItsUsers
<1>1. ProcessInv => StoreOutlivesItsUsers
  <2> SUFFICES ASSUME ProcessInv PROVE StoreOutlivesItsUsers
    OBVIOUS
  <2>1. FeedClosed => active = {}
    BY FeedParts DEF ProcessInv, FeedClosed, RequestOK, SlotsTyped
  <2>2. store = "closed" => FeedClosed /\ listener \in {"down", "closed"}
    BY DEF ProcessInv, LifeInv, PhaseInv
  <2> QED
    BY <2>1, <2>2 DEF ProcessInv, LifeInv, DrainInv, StoreOutlivesItsUsers
<1> QED
  BY <1>1, ProcessInvariant, PTL
===============================================================================
