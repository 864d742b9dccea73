---------------------------- MODULE FirstRaidProofs ----------------------------
(***************************************************************************)
(* The palace room and a first raid in it, for any number of sessions,     *)
(* rooms, places, panels and messages in flight.                           *)
(*                                                                         *)
(* The room: there is one live room, its ship and its guards agree, and a  *)
(* run is counted once and for what at least two sessions built. What      *)
(* makes this inductive is what happens to a session outside the room: one *)
(* that was not there yet has left no trace in ship and ledger, one that   *)
(* is gone has no guard, and without a live room nobody is present.        *)
(*                                                                         *)
(* The first raid: the room below the panels only takes steps of           *)
(* PalaceRoom, so its invariant holds; on top of it, a panel is connected  *)
(* while it shows parts or has messages on their way, it shows a part of   *)
(* the ship, it sends one report, and until the room has judged that       *)
(* report none of the panel's sessions was counted. Two panels never share *)
(* a session.                                                              *)
(***************************************************************************)
EXTENDS FirstRaid, FiniteSetTheorems, TLAPS
-----------------------------------------------------------------------------
(* The room                                                                *)

\* Outside the room a session has the guard of a new client.
GuardsAreFresh ==
    \A s \in Session : link[s] \in {"new", "gone"} => guard[s] = FreshGuard

\* Whoever has not joined yet is in no ship and in no ledger.
StrangersLeftNoTrace ==
    \A s \in Session : link[s] = "new" =>
        /\ s \notin Authors
        /\ \A i \in DOMAIN log : log[i].by # s

\* A session is closed while connected and does not come back; until then it is below the
\* limit.
ClosedAreLeaving ==
    \A s \in Session :
        /\ guard[s].closing =>
              /\ ~guard[s].allowReconnect
              /\ link[s] \in {"connected", "leaving"}
        /\ ~guard[s].closing => guard[s].invalid < InvalidLimit

\* Without a live room there is nobody and nothing in it.
NobodyWithoutRoom ==
    activeRoom = NoRoom =>
        /\ \A s \in Session : link[s] \in {"new", "gone"}
        /\ modules = {}

ShipIsFinite == IsFiniteSet(modules) /\ IsFiniteSet(Authors)

RoomInv ==
    /\ TypeOK /\ ShipIsFinite
    /\ GuardsAreFresh /\ StrangersLeftNoTrace /\ ClosedAreLeaving /\ NobodyWithoutRoom
    /\ OneLiveRoom /\ ShipIsConsistent
    /\ RunsAreCoCreated /\ TotalIsHonest
-----------------------------------------------------------------------------
LEMMA RoomInit == Init => RoomInv
<1> SUFFICES ASSUME Init PROVE RoomInv
  OBVIOUS
<1> USE RoomAssumption DEF Init
<1>1. modules = {} /\ Authors = {} /\ log = <<>> /\ Live = {} /\ Present = {}
  BY DEF Authors, Live, Present
<1>2. TypeOK
  BY DEF TypeOK, FreshGuard
<1>3. Cardinality(modules) = 0 /\ Cardinality(Authors) = 0 /\ ShipIsFinite
  BY <1>1, FS_EmptySet DEF ShipIsFinite
<1>4. ShipIsConsistent
  BY <1>1, <1>3 DEF ShipIsConsistent
<1>5. GuardsAreFresh /\ StrangersLeftNoTrace /\ ClosedAreLeaving /\ NobodyWithoutRoom
  BY <1>1 DEF GuardsAreFresh, StrangersLeftNoTrace, ClosedAreLeaving, NobodyWithoutRoom,
              FreshGuard
<1>6. OneLiveRoom /\ RunsAreCoCreated /\ TotalIsHonest
  BY <1>1 DEF OneLiveRoom, RunsAreCoCreated, TotalIsHonest
<1> QED
  BY <1>2, <1>3, <1>4, <1>5, <1>6 DEF RoomInv

\* Who is live and who is present, in terms of the variables.
LEMMA LiveIs == TypeOK /\ OneLiveRoom => (Live # {} <=> activeRoom # NoRoom)
BY RoomAssumption DEF TypeOK, OneLiveRoom, Live

LEMMA StutterRoom == RoomInv /\ UNCHANGED vars => RoomInv'
BY DEF RoomInv, vars, TypeOK, ShipIsFinite, GuardsAreFresh, StrangersLeftNoTrace,
       ClosedAreLeaving, NobodyWithoutRoom, OneLiveRoom, ShipIsConsistent, RunsAreCoCreated,
       TotalIsHonest, Live, Present, Authors

\* Handlers and connection events leave the rooms alone.
LEMMA LinkStep ==
    ASSUME RoomInv, NEW s \in Session,
           Join(s) \/ Drop(s) \/ Reconnect(s) \/ ReconnectTimeout(s) \/ Leave(s)
    PROVE  RoomInv'
<1> USE DEF RoomInv
<1>1. /\ UNCHANGED <<activeRoom, room, modules, completed, log>>
      /\ Authors' = Authors /\ Live' = Live
  BY DEF Join, Drop, Reconnect, ReconnectTimeout, Leave, Authors, Live
<1>2. /\ link' = [link EXCEPT ![s] = link'[s]]
      /\ guard' = [guard EXCEPT ![s] = guard'[s]]
      /\ guard'[s] = IF link'[s] = "gone" THEN FreshGuard ELSE guard[s]
      /\ link'[s] # "new"
      /\ link[s] = "new" => link'[s] = "connected" /\ Live # {}
      /\ link[s] # "gone"
      /\ link'[s] \in {"connected", "dropped", "leaving", "gone"}
  BY DEF Join, Drop, Reconnect, ReconnectTimeout, Leave, TypeOK
<1>3. TypeOK' /\ ShipIsFinite' /\ OneLiveRoom'
  <2>1. FreshGuard \in [closing : BOOLEAN, allowReconnect : BOOLEAN, invalid : 0..InvalidLimit,
                        raidCounted : BOOLEAN, hasModule : BOOLEAN]
    BY RoomAssumption DEF FreshGuard
  <2>2. link' \in [Session -> {"new", "connected", "dropped", "leaving", "gone"}]
    BY <1>2 DEF TypeOK
  <2>3. guard' \in [Session -> [closing : BOOLEAN, allowReconnect : BOOLEAN,
                              invalid : 0..InvalidLimit, raidCounted : BOOLEAN,
                              hasModule : BOOLEAN]]
    <3>1. guard[s] \in [closing : BOOLEAN, allowReconnect : BOOLEAN, invalid : 0..InvalidLimit,
                        raidCounted : BOOLEAN, hasModule : BOOLEAN]
      BY DEF TypeOK
    <3>2. guard'[s] = FreshGuard \/ guard'[s] = guard[s]
      BY <1>2
    <3> QED
      BY <1>2, <2>1, <3>1, <3>2 DEF TypeOK
  <2>4. TypeOK'
    BY <1>1, <2>2, <2>3 DEF TypeOK
  <2> QED
    BY <1>1, <2>4 DEF ShipIsFinite, OneLiveRoom
<1>4. GuardsAreFresh'
  BY <1>2 DEF GuardsAreFresh, TypeOK
<1>5. StrangersLeftNoTrace'
  BY <1>1, <1>2 DEF StrangersLeftNoTrace, TypeOK
<1>6. ClosedAreLeaving'
  BY <1>2, RoomAssumption DEF ClosedAreLeaving, TypeOK, FreshGuard, GuardsAreFresh,
    Join, Drop, Reconnect, ReconnectTimeout, Leave
<1>7. NobodyWithoutRoom'
  BY <1>1, <1>2, LiveIs DEF NobodyWithoutRoom, TypeOK
<1>8. \A t \in Present' : (t \in Present \/ link[t] = "new") /\ guard'[t] = guard[t]
  BY <1>2 DEF Present, TypeOK
<1>9. ShipIsConsistent'
  BY <1>1, <1>8 DEF ShipIsConsistent, StrangersLeftNoTrace, GuardsAreFresh, FreshGuard, Present
<1>10. RunsAreCoCreated' /\ TotalIsHonest'
  BY <1>1, <1>8 DEF RunsAreCoCreated, TotalIsHonest, StrangersLeftNoTrace, Present
<1> QED
  BY <1>3, <1>4, <1>5, <1>6, <1>7, <1>9, <1>10

\* Rooms come and go: a live one only when nobody is in it.
LEMMA RoomStep ==
    ASSUME RoomInv, NEW r \in RoomId, Create(r) \/ CreateRefused(r) \/ Dispose(r)
    PROVE  RoomInv'
<1> USE RoomAssumption DEF RoomInv
<1>1. /\ UNCHANGED <<link, guard, log>> /\ Present' = Present
      /\ \/ modules' = modules /\ Authors' = Authors
         \/ modules' = {} /\ Authors' = {} /\ Present = {}
  <2>1. UNCHANGED <<link, guard, log>> /\ Present' = Present
    BY DEF Create, CreateRefused, Dispose, Present
  <2>2. modules' = modules \/ (modules' = {} /\ Present = {})
    BY DEF Create, CreateRefused, Dispose, NobodyWithoutRoom, Present
  <2>3. modules' = modules => Authors' = Authors
    BY DEF Authors
  <2>4. modules' = {} => Authors' = {}
    BY DEF Authors
  <2> QED
    BY <2>1, <2>2, <2>3, <2>4
<1>2. /\ activeRoom' \in RoomId \union {NoRoom}
      /\ room' \in [RoomId -> {"absent", "live", "refused"}]
      /\ OneLiveRoom'
  BY DEF Create, CreateRefused, Dispose, TypeOK, OneLiveRoom
<1>3. completed' \in Nat
  BY DEF Create, CreateRefused, Dispose, TypeOK
<1>4. TypeOK'
  BY <1>1, <1>2, <1>3 DEF TypeOK
<1>5. IsFiniteSet({}) /\ Cardinality({}) = 0
  BY FS_EmptySet
<1>6. ShipIsFinite'
  BY <1>1, <1>5 DEF ShipIsFinite
<1>7. GuardsAreFresh' /\ ClosedAreLeaving'
  BY <1>1 DEF GuardsAreFresh, ClosedAreLeaving
<1>8. StrangersLeftNoTrace'
  BY <1>1 DEF StrangersLeftNoTrace
<1>9. NobodyWithoutRoom'
  <2> SUFFICES ASSUME activeRoom' = NoRoom
               PROVE  modules' = {} /\ \A s \in Session : link'[s] \in {"new", "gone"}
    BY DEF NobodyWithoutRoom
  <2>1. CASE activeRoom = NoRoom
    BY <1>1, <2>1 DEF NobodyWithoutRoom
  <2>2. CASE activeRoom # NoRoom
    <3>1. Dispose(r) /\ activeRoom = r /\ room[r] = "live"
      BY <2>2 DEF Create, CreateRefused, Dispose, TypeOK, OneLiveRoom
    <3>2. modules' = {} /\ Present = {}
      BY <3>1 DEF Dispose
    <3> QED
      BY <1>1, <3>2 DEF Present, TypeOK
  <2> QED
    BY <2>1, <2>2
<1>10. ShipIsConsistent'
  <2>1. CASE modules' = {} /\ Authors' = {} /\ Present = {}
    BY <1>1, <1>5, <2>1 DEF ShipIsConsistent
  <2>2. CASE modules' = modules /\ Authors' = Authors
    BY <1>1, <2>2 DEF ShipIsConsistent
  <2> QED
    BY <1>1, <2>1, <2>2
<1>11. RunsAreCoCreated'
  BY <1>1 DEF RunsAreCoCreated
<1>12. TotalIsHonest'
  <2> SUFFICES ASSUME Live' # {}
               PROVE  /\ completed' <= Seed + Len(log')
                      /\ \A i \in DOMAIN log' : log'[i].by \in Present' => completed' >= Seed + i
    BY DEF TotalIsHonest
  <2>1. CASE Create(r)
    <3>1. completed' = Seed + Len(log) /\ Len(log) \in Nat /\ DOMAIN log = 1..Len(log)
      BY <2>1 DEF Create, TypeOK
    <3> QED
      BY <1>1, <3>1
  <2>2. CASE CreateRefused(r)
    <3>1. Live' = Live /\ completed' = completed
      BY <2>2 DEF CreateRefused, Live, TypeOK
    <3> QED
      BY <1>1, <3>1 DEF TotalIsHonest
  <2>3. CASE Dispose(r)
    <3>1. room[r] = "refused"
      BY <1>2, <2>3 DEF Dispose, Live, TypeOK, OneLiveRoom
    <3>2. Live # {} /\ completed' = completed
      BY <2>3, <3>1 DEF Dispose, Live, TypeOK
    <3> QED
      BY <1>1, <3>2 DEF TotalIsHonest
  <2> QED
    BY <2>1, <2>2, <2>3
<1> QED
  BY <1>2, <1>4, <1>6, <1>7, <1>8, <1>9, <1>10, <1>11, <1>12

\* A restart empties the room, whatever was in it.
LEMMA RestartStep == RoomInv /\ Restart => RoomInv'
<1> SUFFICES ASSUME RoomInv, Restart PROVE RoomInv'
  OBVIOUS
<1> USE RoomAssumption DEF RoomInv
<1>1. /\ activeRoom' = NoRoom /\ modules' = {} /\ completed' = 0 /\ log' = log
      /\ room' = [r \in RoomId |-> "absent"]
      /\ guard' = [s \in Session |-> FreshGuard]
      /\ link' = [s \in Session |-> IF link[s] = "new" THEN "new" ELSE "gone"]
  BY DEF Restart
<1>2. Authors' = {} /\ Live' = {} /\ Present' = {}
  BY <1>1 DEF Authors, Live, Present
<1>3. TypeOK'
  BY <1>1 DEF TypeOK, FreshGuard
<1>4. IsFiniteSet({}) /\ Cardinality({}) = 0
  BY FS_EmptySet
<1>5. ShipIsFinite' /\ ShipIsConsistent'
  BY <1>1, <1>2, <1>4 DEF ShipIsFinite, ShipIsConsistent
<1>6. GuardsAreFresh' /\ StrangersLeftNoTrace' /\ ClosedAreLeaving' /\ NobodyWithoutRoom'
  BY <1>1, <1>2 DEF GuardsAreFresh, StrangersLeftNoTrace, ClosedAreLeaving, NobodyWithoutRoom,
    FreshGuard
<1>7. OneLiveRoom' /\ RunsAreCoCreated' /\ TotalIsHonest'
  BY <1>1, <1>2 DEF OneLiveRoom, RunsAreCoCreated, TotalIsHonest
<1> QED
  BY <1>3, <1>5, <1>6, <1>7
-----------------------------------------------------------------------------
\* What a rejected message leaves of a guard that still counts.
LEMMA Rejected ==
    ASSUME RoomInv, NEW s \in Session, Heard(s),
           NEW g, g = ClosedForPolicy(guard[s]) \/ \E e \in BOOLEAN : g = RecordedInvalid(guard[s], e)
    PROVE  /\ g \in [closing : BOOLEAN, allowReconnect : BOOLEAN, invalid : 0..InvalidLimit,
                     raidCounted : BOOLEAN, hasModule : BOOLEAN]
           /\ g.raidCounted = guard[s].raidCounted /\ g.hasModule = guard[s].hasModule
           /\ g.closing => ~g.allowReconnect
           /\ ~g.closing => g.invalid < InvalidLimit
<1>1. /\ guard[s] \in [closing : BOOLEAN, allowReconnect : BOOLEAN, invalid : 0..InvalidLimit,
                       raidCounted : BOOLEAN, hasModule : BOOLEAN]
      /\ ~guard[s].closing /\ guard[s].invalid < InvalidLimit
      /\ InvalidLimit \in Nat \ {0}
  BY RoomAssumption DEF RoomInv, TypeOK, Heard, ClosedAreLeaving
<1>2. CASE g = ClosedForPolicy(guard[s])
  BY <1>1, <1>2 DEF ClosedForPolicy
<1>3. CASE \E e \in BOOLEAN : g = RecordedInvalid(guard[s], e)
  <2>1. PICK n \in 1..InvalidLimit :
           g = IF n >= InvalidLimit THEN ClosedForPolicy([guard[s] EXCEPT !.invalid = n])
                                    ELSE [guard[s] EXCEPT !.invalid = n]
    BY <1>1, <1>3 DEF RecordedInvalid
  <2> DEFINE h == [guard[s] EXCEPT !.invalid = n]
  <2>2. /\ h \in [closing : BOOLEAN, allowReconnect : BOOLEAN, invalid : 0..InvalidLimit,
                   raidCounted : BOOLEAN, hasModule : BOOLEAN]
        /\ h.raidCounted = guard[s].raidCounted /\ h.hasModule = guard[s].hasModule
        /\ ~h.closing /\ h.invalid = n
    BY <1>1
  <2>3. CASE n >= InvalidLimit
    <3> HIDE DEF h
    <3>1. g = ClosedForPolicy(h)
      BY <2>1, <2>3 DEF h
    <3> QED
      BY <2>2, <3>1 DEF ClosedForPolicy
  <2>4. CASE n < InvalidLimit
    <3>1. g = h
      BY <1>1, <2>1, <2>4
    <3> QED
      BY <2>2, <2>4, <3>1
  <2> QED
    BY <1>1, <2>3, <2>4
<1> QED
  BY <1>2, <1>3

LEMMA RejectStep ==
    ASSUME RoomInv, NEW s \in Session, InvalidMessage(s) \/ MoveRateExceeded(s)
    PROVE  RoomInv'
<1> USE DEF RoomInv
<1>1. /\ UNCHANGED <<activeRoom, room, link, modules, completed, log>> /\ Heard(s)
      /\ Authors' = Authors /\ Live' = Live /\ Present' = Present
  BY DEF InvalidMessage, MoveRateExceeded, Authors, Live, Present
<1>2. /\ guard' = [guard EXCEPT ![s] = guard'[s]]
      /\ \/ guard'[s] = ClosedForPolicy(guard[s])
         \/ \E e \in BOOLEAN : guard'[s] = RecordedInvalid(guard[s], e)
  BY DEF InvalidMessage, MoveRateExceeded, TypeOK
<1>3. /\ guard'[s] \in [closing : BOOLEAN, allowReconnect : BOOLEAN, invalid : 0..InvalidLimit,
                        raidCounted : BOOLEAN, hasModule : BOOLEAN]
      /\ guard'[s].raidCounted = guard[s].raidCounted
      /\ guard'[s].hasModule = guard[s].hasModule
      /\ guard'[s].closing => ~guard'[s].allowReconnect
      /\ ~guard'[s].closing => guard'[s].invalid < InvalidLimit
  BY <1>1, <1>2, Rejected
<1>4. TypeOK' /\ ShipIsFinite' /\ OneLiveRoom' /\ NobodyWithoutRoom' /\ StrangersLeftNoTrace'
  <2>1. guard' \in [Session -> [closing : BOOLEAN, allowReconnect : BOOLEAN,
                              invalid : 0..InvalidLimit, raidCounted : BOOLEAN,
                              hasModule : BOOLEAN]]
    BY <1>2, <1>3 DEF TypeOK
  <2>2. TypeOK'
    BY <1>1, <2>1 DEF TypeOK
  <2> QED
    BY <1>1, <2>2 DEF ShipIsFinite, OneLiveRoom, NobodyWithoutRoom, StrangersLeftNoTrace
<1>5. GuardsAreFresh' /\ ClosedAreLeaving'
  BY <1>1, <1>2, <1>3 DEF GuardsAreFresh, ClosedAreLeaving, Heard, TypeOK
<1>6. ShipIsConsistent' /\ RunsAreCoCreated' /\ TotalIsHonest'
  BY <1>1, <1>2, <1>3 DEF ShipIsConsistent, RunsAreCoCreated, TotalIsHonest, TypeOK, Present
<1> QED
  BY <1>4, <1>5, <1>6

\* The next slot is free, and its author has none yet.
LEMMA PlaceStep ==
    ASSUME RoomInv, NEW s \in Session, PlaceModule(s)
    PROVE  RoomInv'
<1> USE DEF RoomInv
<1> DEFINE n == Cardinality(modules)
           m == [author |-> s, slot |-> n + 1]
<1>1. /\ UNCHANGED <<activeRoom, room, link, completed, log>>
      /\ guard' = [guard EXCEPT ![s].hasModule = TRUE]
      /\ modules' = modules \union {m}
      /\ Live' = Live /\ Present' = Present
      /\ s \in Present /\ ~guard[s].hasModule /\ n < MaxModules
  BY DEF PlaceModule, Live, Present, Heard
<1>2. Authors' = Authors \union {s}
  <2>1. m.author = s
    OBVIOUS
  <2>2. Authors' = {k.author : k \in modules \union {m}}
    BY <1>1 DEF Authors
  <2> HIDE DEF m
  <2> QED
    BY <2>1, <2>2 DEF Authors
<1>3. s \notin Authors /\ m \notin modules
  BY <1>1 DEF ShipIsConsistent, Authors
<1>4. /\ n \in Nat /\ ShipIsFinite'
      /\ Cardinality(modules') = n + 1
      /\ Cardinality(Authors') = Cardinality(Authors) + 1
  BY <1>1, <1>2, <1>3, FS_AddElement, FS_CardinalityType DEF ShipIsFinite
<1>5. /\ guard' \in [Session -> [closing : BOOLEAN, allowReconnect : BOOLEAN,
                              invalid : 0..InvalidLimit, raidCounted : BOOLEAN,
                              hasModule : BOOLEAN]]
      /\ \A t \in Session : /\ guard'[t].hasModule <=> guard[t].hasModule \/ t = s
                            /\ guard'[t].raidCounted = guard[t].raidCounted
                            /\ guard'[t].closing = guard[t].closing
                            /\ guard'[t].allowReconnect = guard[t].allowReconnect
                            /\ guard'[t].invalid = guard[t].invalid
                            /\ t # s => guard'[t] = guard[t]
  BY <1>1 DEF TypeOK
<1>6. TypeOK'
  <2>1. m \in [author : Session, slot : 1..MaxModules]
    BY <1>1, <1>4, RoomAssumption
  <2> QED
    BY <1>1, <1>5, <2>1 DEF TypeOK
<1>7. ShipIsConsistent'
  <2>1. {k.slot : k \in modules'} = {k.slot : k \in modules} \union {n + 1}
    <3>1. m.slot = n + 1
      OBVIOUS
    <3> HIDE DEF m, n
    <3> QED
      BY <1>1, <3>1
  <2>2. {k.slot : k \in modules'} = 1..(n + 1)
    <3>1. {k.slot : k \in modules} = 1..n
      BY DEF ShipIsConsistent
    <3>2. (1..n) \union {n + 1} = 1..(n + 1)
      <4> HIDE DEF n
      <4> QED
        BY <1>4
    <3> QED
      BY <2>1, <3>1, <3>2
  <2>3. \A t \in Present' : guard'[t].hasModule <=> t \in Authors'
    BY <1>1, <1>2, <1>5 DEF ShipIsConsistent, Present
  <2> QED
    BY <1>4, <2>2, <2>3 DEF ShipIsConsistent
<1>8. OneLiveRoom' /\ RunsAreCoCreated' /\ TotalIsHonest' /\ ClosedAreLeaving'
  BY <1>1, <1>5 DEF OneLiveRoom, RunsAreCoCreated, TotalIsHonest, ClosedAreLeaving, Present
<1>9. GuardsAreFresh' /\ StrangersLeftNoTrace' /\ NobodyWithoutRoom'
  BY <1>1, <1>2, <1>5 DEF GuardsAreFresh, StrangersLeftNoTrace, NobodyWithoutRoom, Present
<1> QED
  BY <1>4, <1>6, <1>7, <1>8, <1>9

\* A verified claim marks its session, whether or not the ledger takes the run.
LEMMA ClaimStep ==
    ASSUME RoomInv, NEW s \in Session, RaidComplete(s) \/ RaidRecordFails(s)
    PROVE  RoomInv'
<1> USE DEF RoomInv
<1> DEFINE e == [by |-> s, coAuthors |-> Cardinality(Authors)]
<1>1. /\ UNCHANGED <<activeRoom, room, link, modules>> /\ Verified(s)
      /\ guard' = [guard EXCEPT ![s].raidCounted = TRUE]
      /\ \/ log' = Append(log, e) /\ completed' = Seed + Len(log')
         \/ UNCHANGED <<log, completed>>
      /\ Live' = Live /\ Present' = Present /\ Authors' = Authors
  BY DEF RaidComplete, RaidRecordFails, Live, Present, Authors
<1>2. /\ s \in Present /\ ~guard[s].raidCounted /\ ~guard[s].closing
      /\ Cardinality(Authors) \in Nat /\ Cardinality(Authors) >= 2
      /\ log \in Seq([by : Session \union {Foreign}, coAuthors : Nat])
      /\ e \in [by : Session \union {Foreign}, coAuthors : Nat]
      /\ s # Foreign /\ Seed \in Nat
  BY <1>1, FS_CardinalityType, RoomAssumption DEF Verified, Heard, Present, ShipIsFinite, TypeOK
<1>3. /\ guard' \in [Session -> [closing : BOOLEAN, allowReconnect : BOOLEAN,
                              invalid : 0..InvalidLimit, raidCounted : BOOLEAN,
                              hasModule : BOOLEAN]]
      /\ \A t \in Session : /\ guard'[t].raidCounted <=> guard[t].raidCounted \/ t = s
                            /\ guard'[t].hasModule = guard[t].hasModule
                            /\ guard'[t].closing = guard[t].closing
                            /\ guard'[t].allowReconnect = guard[t].allowReconnect
                            /\ guard'[t].invalid = guard[t].invalid
                            /\ t # s => guard'[t] = guard[t]
  BY <1>1 DEF TypeOK
<1>4. /\ ShipIsFinite' /\ OneLiveRoom' /\ ShipIsConsistent' /\ NobodyWithoutRoom'
      /\ ClosedAreLeaving' /\ GuardsAreFresh'
  BY <1>1, <1>2, <1>3 DEF ShipIsFinite, OneLiveRoom, ShipIsConsistent, NobodyWithoutRoom,
    ClosedAreLeaving, GuardsAreFresh, Present
<1>5. CASE UNCHANGED <<log, completed>>
  <2>1. TypeOK' /\ StrangersLeftNoTrace' /\ RunsAreCoCreated' /\ TotalIsHonest'
    BY <1>1, <1>3, <1>5 DEF TypeOK, StrangersLeftNoTrace, RunsAreCoCreated, TotalIsHonest,
      Present
  <2> QED
    BY <1>4, <2>1
<1>6. CASE log' = Append(log, e) /\ completed' = Seed + Len(log')
  <2>1. /\ log' \in Seq([by : Session \union {Foreign}, coAuthors : Nat])
        /\ Len(log) \in Nat /\ Len(log') = Len(log) + 1
        /\ DOMAIN log = 1..Len(log) /\ DOMAIN log' = 1..(Len(log) + 1)
        /\ \A i \in DOMAIN log : log'[i] = log[i]
        /\ log'[Len(log) + 1] = e
    BY <1>2, <1>6
  <2>2. TypeOK'
    BY <1>1, <1>2, <1>3, <1>6, <2>1 DEF TypeOK
  <2>3. \A i \in DOMAIN log : log[i].by # s
    BY <1>2 DEF RunsAreCoCreated
  <2>4. StrangersLeftNoTrace'
    <3> SUFFICES ASSUME NEW t \in Session, link[t] = "new"
                 PROVE  t \notin Authors /\ \A i \in DOMAIN log' : log'[i].by # t
      BY <1>1 DEF StrangersLeftNoTrace
    <3>1. t \notin Authors /\ (\A i \in DOMAIN log : log[i].by # t) /\ t # s
      BY <1>2 DEF StrangersLeftNoTrace, Present
    <3>2. e.by # t
      BY <3>1
    <3> HIDE DEF e
    <3> QED
      BY <2>1, <3>1, <3>2
  <2>5. RunsAreCoCreated'
    <3>1. \A i, j \in DOMAIN log' : log'[i].by = log'[j].by /\ log'[i].by # Foreign => i = j
      BY <2>1, <2>3 DEF RunsAreCoCreated
    <3>2. \A i \in DOMAIN log' : log'[i].coAuthors >= 2
      BY <1>2, <2>1 DEF RunsAreCoCreated
    <3>3. \A i \in DOMAIN log' : log'[i].by \in Present' => guard'[log'[i].by].raidCounted
      BY <1>1, <1>3, <2>1 DEF RunsAreCoCreated, Present
    <3> QED
      BY <3>1, <3>2, <3>3 DEF RunsAreCoCreated
  <2>6. TotalIsHonest'
    BY <1>2, <1>6, <2>1 DEF TotalIsHonest
  <2> QED
    BY <1>4, <2>2, <2>4, <2>5, <2>6
<1> QED
  BY <1>1, <1>5, <1>6

\* Another process' run belongs to no session.
LEMMA ForeignStep == RoomInv /\ ForeignRecord => RoomInv'
<1> SUFFICES ASSUME RoomInv, ForeignRecord PROVE RoomInv'
  OBVIOUS
<1> USE DEF RoomInv
<1> DEFINE e == [by |-> Foreign, coAuthors |-> 2]
<1>1. /\ UNCHANGED <<activeRoom, room, link, guard, modules, completed>>
      /\ log' = Append(log, e)
      /\ Live' = Live /\ Present' = Present /\ Authors' = Authors
  BY DEF ForeignRecord, Live, Present, Authors
<1>2. /\ log' \in Seq([by : Session \union {Foreign}, coAuthors : Nat])
      /\ Len(log) \in Nat /\ Len(log') = Len(log) + 1
      /\ DOMAIN log = 1..Len(log) /\ DOMAIN log' = 1..(Len(log) + 1)
      /\ \A i \in DOMAIN log : log'[i] = log[i]
      /\ log'[Len(log) + 1] = e
      /\ Foreign \notin Session /\ Foreign \notin Present
      /\ completed \in Nat /\ Seed \in Nat
  BY <1>1, RoomAssumption DEF TypeOK, Present
<1>3. /\ TypeOK' /\ ShipIsFinite' /\ OneLiveRoom' /\ ShipIsConsistent' /\ NobodyWithoutRoom'
      /\ ClosedAreLeaving' /\ GuardsAreFresh'
  BY <1>1, <1>2 DEF TypeOK, ShipIsFinite, OneLiveRoom, ShipIsConsistent, NobodyWithoutRoom,
    ClosedAreLeaving, GuardsAreFresh
<1>4. StrangersLeftNoTrace' /\ TotalIsHonest'
  BY <1>1, <1>2 DEF StrangersLeftNoTrace, TotalIsHonest
<1>5. RunsAreCoCreated'
  BY <1>1, <1>2 DEF RunsAreCoCreated
<1> QED
  BY <1>3, <1>4, <1>5
-----------------------------------------------------------------------------
LEMMA RoomInductive == RoomInv /\ [Next]_vars => RoomInv'
<1> SUFFICES ASSUME RoomInv, [Next]_vars PROVE RoomInv'
  OBVIOUS
<1>1. CASE UNCHANGED vars
  BY <1>1, StutterRoom
<1>2. ASSUME NEW r \in RoomId, Create(r) \/ CreateRefused(r) \/ Dispose(r) PROVE RoomInv'
  BY <1>2, RoomStep
<1>3. ASSUME NEW s \in Session,
             Join(s) \/ Drop(s) \/ Reconnect(s) \/ ReconnectTimeout(s) \/ Leave(s)
      PROVE  RoomInv'
  BY <1>3, LinkStep
<1>4. ASSUME NEW s \in Session, InvalidMessage(s) \/ MoveRateExceeded(s) PROVE RoomInv'
  BY <1>4, RejectStep
<1>5. ASSUME NEW s \in Session, PlaceModule(s) PROVE RoomInv'
  BY <1>5, PlaceStep
<1>6. ASSUME NEW s \in Session, RaidComplete(s) \/ RaidRecordFails(s) PROVE RoomInv'
  BY <1>6, ClaimStep
<1>7. CASE Restart
  BY <1>7, RestartStep
<1>8. CASE ForeignRecord
  BY <1>8, ForeignStep
<1> QED
  BY <1>1, <1>2, <1>3, <1>4, <1>5, <1>6, <1>7, <1>8 DEF Next

LEMMA RoomInvariant == Spec => []RoomInv
<1> QED
  BY RoomInit, RoomInductive, PTL DEF Spec

\* The room's state keeps its types, whatever its sessions send.
THEOREM RoomTypeCorrect == Spec => []TypeOK
<1>1. RoomInv => TypeOK
  BY DEF RoomInv
<1> QED
  BY <1>1, RoomInvariant, PTL

\* However many sessions join, drop, return, leave and build, and however many rooms are
\* refused or disposed (PalaceRoom.ts onCreate to onDispose), there is one live room, the
\* slots of its ship have no gap, and each guard agrees with the ship.
THEOREM RoomAlwaysConsistent == Spec => []RoomIsConsistent
<1>1. RoomInv => RoomIsConsistent
  BY DEF RoomInv, RoomIsConsistent
<1> QED
  BY <1>1, RoomInvariant, PTL

\* A session is counted once at most and never for a ship of its own, and the total on show
\* is one the ledger can answer for (#handleRaidComplete).
THEOREM RunsAlwaysHonest == Spec => []RunsAreHonest
<1>1. RoomInv => RunsAreHonest
  BY DEF RoomInv, RunsAreHonest
<1> QED
  BY <1>1, RoomInvariant, PTL

\* What a step of the room does to a session that was told to leave: #closeForPolicy is
\* final, for every order of messages, drops and rooms.
THEOREM ClosingIsFinal == Spec => ClosedIsFinal
<1> DEFINE Final(s) ==
        guard[s].closing =>
            /\ guard'[s].closing \/ link'[s] = "gone"
            /\ \A m \in modules' \ modules : m.author # s
            /\ Len(log') > Len(log) => log'[Len(log')].by # s
            /\ link[s] # "connected" => link'[s] # "connected"
<1>1. RoomInv /\ [Next]_vars => [\A s \in Session : Final(s)]_vars
  <2> SUFFICES ASSUME RoomInv, Next, NEW s \in Session, guard[s].closing
               PROVE  /\ guard'[s].closing \/ link'[s] = "gone"
                      /\ \A m \in modules' \ modules : m.author # s
                      /\ Len(log') > Len(log) => log'[Len(log')].by # s
                      /\ link[s] # "connected" => link'[s] # "connected"
    OBVIOUS
  <2>1. link[s] \in {"connected", "leaving"} /\ ~Heard(s) /\ TypeOK
    BY DEF RoomInv, ClosedAreLeaving, Heard
  <2>2. ASSUME NEW r \in RoomId, Create(r) \/ CreateRefused(r) \/ Dispose(r)
        PROVE  /\ UNCHANGED <<link, guard, log>> /\ modules' \ modules = {}
    BY <2>2 DEF Create, CreateRefused, Dispose
  <2>3. ASSUME NEW t \in Session, Join(t) \/ Drop(t) \/ Reconnect(t) \/ ReconnectTimeout(t) \/ Leave(t)
        PROVE  /\ guard'[s].closing \/ link'[s] = "gone"
               /\ link[s] # "connected" => link'[s] # "connected"
               /\ UNCHANGED <<modules, log>>
    BY <2>1, <2>3 DEF Join, Drop, Reconnect, ReconnectTimeout, Leave, TypeOK
  <2>4. ASSUME NEW t \in Session, InvalidMessage(t) \/ MoveRateExceeded(t)
        PROVE  guard'[s].closing /\ UNCHANGED <<link, modules, log>>
    BY <2>1, <2>4 DEF InvalidMessage, MoveRateExceeded, TypeOK
  <2>5. ASSUME NEW t \in Session, PlaceModule(t)
        PROVE  guard'[s].closing /\ UNCHANGED <<link, log>> /\ t # s
               /\ modules' = modules \union {[author |-> t, slot |-> Cardinality(modules) + 1]}
    BY <2>1, <2>5 DEF PlaceModule, TypeOK
  <2>6. ASSUME NEW t \in Session, RaidComplete(t) \/ RaidRecordFails(t)
        PROVE  /\ guard'[s].closing /\ UNCHANGED <<link, modules>>
               /\ Len(log') > Len(log) => log'[Len(log')].by # s
    <3>1. t # s
      BY <2>1, <2>6 DEF RaidComplete, RaidRecordFails, Verified
    <3>2. log' = log \/ log' = Append(log, [by |-> t, coAuthors |-> Cardinality(Authors)])
      BY <2>6 DEF RaidComplete, RaidRecordFails
    <3>3. log \in Seq([by : Session \union {Foreign}, coAuthors : Nat])
      BY <2>1 DEF TypeOK
    <3>4. Len(log') > Len(log) => log'[Len(log')].by # s
      BY <3>1, <3>2, <3>3
    <3> QED
      BY <2>1, <2>6, <3>1, <3>4 DEF RaidComplete, RaidRecordFails, TypeOK
  <2>7. CASE Restart
    BY <2>1, <2>7 DEF Restart, TypeOK
  <2>8. CASE ForeignRecord
    <3>1. UNCHANGED <<link, guard, modules>> /\ log' = Append(log, [by |-> Foreign, coAuthors |-> 2])
      BY <2>8 DEF ForeignRecord
    <3>2. log \in Seq([by : Session \union {Foreign}, coAuthors : Nat]) /\ s # Foreign
      BY <2>1, RoomAssumption DEF TypeOK
    <3>3. log'[Len(log')].by # s
      BY <3>1, <3>2
    <3> QED
      BY <3>1, <3>3
  <2> QED
    BY <2>2, <2>3, <2>4, <2>5, <2>6, <2>7, <2>8 DEF Next
<1> QED
  BY <1>1, RoomInvariant, PTL DEF ClosedIsFinal, Spec
-----------------------------------------------------------------------------
(* A first raid in it                                                      *)

\* Types of what the panels keep.
PanelTypeOK ==
    /\ session \in [Panel -> Session \union {NoSession}]
    /\ online \in [Panel -> BOOLEAN]
    /\ view \in [Panel -> SUBSET Session]
    /\ channel \in [Panel -> Seq({"place", "raid"})]
    /\ reported \in [Panel -> BOOLEAN]
    /\ used \in [Panel -> SUBSET Session]
    /\ others \subseteq Session

\* Here nobody is told to leave.
NobodyIsClosed == \A s \in Session : ~guard[s].closing

\* Every session has one player, and has joined.
SessionsAreOwned ==
    /\ \A p \in Panel : \A s \in used[p] :
        /\ link[s] # "new"
        /\ s \notin others
        /\ \A q \in Panel : s \in used[q] => q = p
    /\ \A s \in others : link[s] # "new"

IsConnected(p) == session[p] # NoSession /\ link[session[p]] = "connected"

Raids(p) == {i \in DOMAIN channel[p] : channel[p][i] = "raid"}

\* The panel's report was not judged yet.
Unjudged(p) == ~reported[p] \/ Raids(p) # {}

\* What a panel shows and sends agrees with the room.
ShowsTheShip(p) ==
    /\ session[p] # NoSession => session[p] \in used[p]
    /\ online[p] \/ channel[p] # <<>> => IsConnected(p)
    /\ online[p] => view[p] \subseteq Authors
    /\ ~online[p] => view[p] = {}

ReportsOnce(p) ==
    /\ Raids(p) # {} => reported[p] /\ Verified(session[p])
    /\ \A i, j \in Raids(p) : i = j

CountsOnce(p) ==
    /\ \A i, j \in DOMAIN log : log[i].by \in used[p] /\ log[j].by \in used[p] => i = j
    /\ Unjudged(p) => \A s \in used[p] : /\ ~guard[s].raidCounted
                                         /\ \A i \in DOMAIN log : log[i].by # s

PanelInv(p) == ShowsTheShip(p) /\ ReportsOnce(p) /\ CountsOnce(p)

RunInv ==
    /\ RoomInv /\ PanelTypeOK /\ NobodyIsClosed /\ SessionsAreOwned
    /\ \A p \in Panel : PanelInv(p)
-----------------------------------------------------------------------------
LEMMA RunInitOK == RunInit => RunInv
<1> SUFFICES ASSUME RunInit PROVE RunInv
  OBVIOUS
<1>1. RoomInv
  BY RoomInit DEF RunInit
<1>2. PanelTypeOK
  BY DEF RunInit, PanelTypeOK
<1>3. NobodyIsClosed
  BY DEF RunInit, Init, FreshGuard, NobodyIsClosed
<1>4. SessionsAreOwned
  BY DEF RunInit, SessionsAreOwned
<1>5. ASSUME NEW p \in Panel PROVE PanelInv(p)
  <2>1. Raids(p) = {} /\ log = <<>> /\ used[p] = {} /\ session[p] = NoSession
        /\ ~online[p] /\ view[p] = {} /\ channel[p] = <<>>
    BY DEF RunInit, Init, Raids
  <2> QED
    BY <2>1 DEF PanelInv, ShowsTheShip, ReportsOnce, CountsOnce
<1> QED
  BY <1>1, <1>2, <1>3, <1>4, <1>5 DEF RunInv

\* A session that New offers is one that was not used yet.
LEMMA FreshIsNew == New # {} => Fresh \in Session /\ link[Fresh] = "new"
BY DEF Fresh, New

\* Below the panels there is the room of PalaceRoom and nothing else.
LEMMA RunIsRoom == RunInv /\ RunNext => [Next]_vars
<1> SUFFICES ASSUME RunInv, RunNext PROVE [Next]_vars
  OBVIOUS
<1> USE DEF vars, roomVars
<1>a. PanelTypeOK
  BY DEF RunInv
<1>1. ASSUME NEW p \in Panel,
             Patch(p) \/ Submit(p) \/ Invite(p) \/ Copied(p) \/ Report(p)
      PROVE  UNCHANGED vars
  BY <1>1 DEF Patch, Submit, Invite, Copied, Report
<1>2. ASSUME NEW p \in Panel, Enter(p) PROVE Next
  BY <1>2, FreshIsNew DEF Enter, Next
<1>3. ASSUME NEW p \in Panel, Lose(p) \/ Resume(p) \/ LeaveStreet(p) PROVE [Next]_vars
  <2>1. session[p] \in Session
    BY <1>3, <1>a DEF Lose, Resume, LeaveStreet, PanelTypeOK
  <2> QED
    BY <1>3, <2>1 DEF Lose, Resume, LeaveStreet, Next
<1>4. ASSUME NEW p \in Panel, Deliver(p) PROVE [Next]_vars
  <2>1. session[p] \in Session
    BY <1>4, <1>a DEF Deliver, RunInv, PanelInv, ShowsTheShip, IsConnected, PanelTypeOK
  <2> QED
    BY <1>4, <2>1 DEF Deliver, Next
<1>5. CASE OtherJoins
  BY <1>5, FreshIsNew DEF OtherJoins, Next
<1>6. ASSUME NEW s \in Session, OtherPlays(s) PROVE Next
  BY <1>6 DEF OtherPlays, Next
<1>7. CASE RoomGoesOn
  BY <1>7 DEF RoomGoesOn, Next
<1>8. CASE RestartServer
  BY <1>8 DEF RestartServer, Next
<1> QED
  BY <1>1, <1>2, <1>3, <1>4, <1>5, <1>6, <1>7, <1>8 DEF RunNext
-----------------------------------------------------------------------------
\* What a step of the room at the session s does to everybody else, and to s.
SessionStep(s) ==
    \/ Join(s) \/ Drop(s) \/ Reconnect(s) \/ ReconnectTimeout(s) \/ Leave(s)
    \/ PlaceModule(s) \/ RaidComplete(s) \/ RaidRecordFails(s)

LEMMA SessionStepEffect ==
    ASSUME RoomInv, NEW s \in Session, SessionStep(s)
    PROVE  /\ \A t \in Session \ {s} : link'[t] = link[t] /\ guard'[t] = guard[t]
           /\ link'[s] # "new"
           /\ guard'[s].closing => guard[s].closing
           /\ Authors \subseteq Authors'
           /\ log' = log \/ log' = Append(log, [by |-> s, coAuthors |-> Cardinality(Authors)])
<1>1. TypeOK
  BY DEF RoomInv
<1>2. CASE Join(s) \/ Drop(s) \/ Reconnect(s) \/ ReconnectTimeout(s) \/ Leave(s)
  <2>1. UNCHANGED <<modules, log>> /\ Authors' = Authors
    BY <1>2 DEF Join, Drop, Reconnect, ReconnectTimeout, Leave, Authors
  <2>2. /\ link' = [link EXCEPT ![s] = link'[s]] /\ link'[s] # "new"
        /\ guard' = guard \/ guard' = [guard EXCEPT ![s] = FreshGuard]
    BY <1>1, <1>2 DEF Join, Drop, Reconnect, ReconnectTimeout, Leave, TypeOK
  <2> QED
    BY <1>1, <2>1, <2>2 DEF TypeOK, FreshGuard
<1>3. CASE PlaceModule(s)
  <2>1. modules \subseteq modules' /\ UNCHANGED <<link, log>> /\ link[s] = "connected"
    BY <1>3 DEF PlaceModule, Heard
  <2>2. Authors \subseteq Authors'
    BY <2>1 DEF Authors
  <2> QED
    BY <1>1, <1>3, <2>1, <2>2 DEF PlaceModule, TypeOK
<1>4. CASE RaidComplete(s) \/ RaidRecordFails(s)
  <2>1. UNCHANGED <<modules, link>> /\ Authors' = Authors /\ link[s] = "connected"
    BY <1>4 DEF RaidComplete, RaidRecordFails, Authors, Verified, Heard
  <2> QED
    BY <1>1, <1>4, <2>1 DEF RaidComplete, RaidRecordFails, TypeOK
<1> QED
  BY <1>2, <1>3, <1>4 DEF SessionStep

\* What a panel owns stays as it is.
PanelStays(q) ==
    /\ session'[q] = session[q] /\ used'[q] = used[q]
    /\ online'[q] = online[q] /\ view'[q] = view[q]
    /\ channel'[q] = channel[q] /\ reported'[q] = reported[q]

\* The room does nothing to the sessions of q, and takes no part away while one is connected.
RoomSpares(q) ==
    /\ \A t \in used[q] : link'[t] = link[t] /\ guard'[t] = guard[t]
    /\ IsConnected(q) => Authors \subseteq Authors'
    /\ \A i \in DOMAIN log' : \/ i \in DOMAIN log /\ log'[i] = log[i]
                              \/ log'[i].by \notin used[q]

LEMMA SparedPanel ==
    ASSUME RunInv, RoomInv', NEW q \in Panel, PanelStays(q), RoomSpares(q)
    PROVE  PanelInv(q)'
<1> USE DEF PanelStays, RoomSpares
<1>1. PanelInv(q) /\ PanelTypeOK /\ used[q] \subseteq Session
  BY DEF RunInv, PanelTypeOK
<1>2. Raids(q)' = Raids(q) /\ Unjudged(q)' = Unjudged(q)
  BY DEF Raids, Unjudged
<1>3. session[q] # NoSession =>
         /\ session[q] \in used[q]
         /\ link'[session[q]] = link[session[q]] /\ guard'[session[q]] = guard[session[q]]
  BY <1>1 DEF PanelInv, ShowsTheShip
<1>4. ShowsTheShip(q)'
  BY <1>1, <1>3 DEF PanelInv, ShowsTheShip, IsConnected
<1>5. Raids(q) # {} => Verified(session[q])'
  <2> SUFFICES ASSUME Raids(q) # {} PROVE Verified(session[q])'
    OBVIOUS
  <2>1. channel[q] # <<>>
    BY DEF Raids
  <2>2. IsConnected(q) /\ Verified(session[q]) /\ session'[q] = session[q]
    BY <1>1, <2>1 DEF PanelInv, ShowsTheShip, ReportsOnce
  <2>3. IsFiniteSet(Authors') /\ Authors \subseteq Authors'
    BY <2>2 DEF RoomInv, ShipIsFinite
  <2>4. /\ Cardinality(Authors) <= Cardinality(Authors')
        /\ Cardinality(Authors) \in Nat /\ Cardinality(Authors') \in Nat
    BY <2>3, FS_Subset, FS_CardinalityType
  <2>5. session[q] # NoSession
    BY <2>2 DEF IsConnected
  <2> QED
    BY <1>3, <2>2, <2>3, <2>4, <2>5 DEF Verified, Heard
<1>6. ReportsOnce(q)'
  BY <1>1, <1>2, <1>5 DEF PanelInv, ReportsOnce
<1>7. CountsOnce(q)'
  BY <1>1, <1>2 DEF PanelInv, CountsOnce
<1> QED
  BY <1>4, <1>6, <1>7 DEF PanelInv

\* A step at a session that is not the panel's spares the panel.
LEMMA StepElsewhere ==
    ASSUME RunInv, NEW q \in Panel, NEW s \in Session, SessionStep(s), s \notin used[q]
    PROVE  RoomSpares(q)
<1>1. used[q] \subseteq Session
  BY DEF RunInv, PanelTypeOK
<1>2. /\ \A t \in Session \ {s} : link'[t] = link[t] /\ guard'[t] = guard[t]
      /\ Authors \subseteq Authors'
      /\ log' = log \/ log' = Append(log, [by |-> s, coAuthors |-> Cardinality(Authors)])
  BY SessionStepEffect DEF RunInv
<1>3. log \in Seq([by : Session \union {Foreign}, coAuthors : Nat])
  BY DEF RunInv, RoomInv, TypeOK
<1>4. \A i \in DOMAIN log' : (i \in DOMAIN log /\ log'[i] = log[i]) \/ log'[i].by = s
  BY <1>2, <1>3
<1> QED
  BY <1>1, <1>2, <1>4 DEF RoomSpares

LEMMA RoomQuiet ==
    ASSUME NEW q \in Panel, UNCHANGED roomVars PROVE RoomSpares(q)
BY DEF RoomSpares, roomVars, Authors
-----------------------------------------------------------------------------
\* A session that is not connected may be given up, or come back, without harm to its panel.
LEMMA StepAside ==
    ASSUME RunInv, NEW q \in Panel, PanelStays(q), NEW s \in Session,
           Reconnect(s) \/ ReconnectTimeout(s) \/ (link[s] = "leaving" /\ Leave(s))
    PROVE  PanelInv(q)'
<1> USE DEF PanelStays
<1>1. PanelInv(q) /\ PanelTypeOK /\ TypeOK /\ used[q] \subseteq Session
  BY DEF RunInv, RoomInv, PanelTypeOK
<1>2. /\ link[s] # "connected" /\ log' = log /\ Authors' = Authors
      /\ \A t \in Session \ {s} : link'[t] = link[t] /\ guard'[t] = guard[t]
      /\ \A t \in Session : guard'[t].raidCounted => guard[t].raidCounted
  <2>1. link[s] # "connected" /\ UNCHANGED <<modules, log>>
    BY DEF Reconnect, ReconnectTimeout, Leave
  <2>2. \A t \in Session \ {s} : link'[t] = link[t]
    BY <1>1 DEF Reconnect, ReconnectTimeout, Leave, TypeOK
  <2>3. guard' = guard \/ guard' = [guard EXCEPT ![s] = FreshGuard]
    BY DEF Reconnect, ReconnectTimeout, Leave
  <2>4. ~FreshGuard.raidCounted
    BY DEF FreshGuard
  <2>5. /\ \A t \in Session \ {s} : guard'[t] = guard[t]
        /\ \A t \in Session : guard'[t].raidCounted => guard[t].raidCounted
    BY <1>1, <2>3, <2>4 DEF TypeOK
  <2> QED
    BY <2>1, <2>2, <2>5 DEF Authors
<1>3. Raids(q)' = Raids(q) /\ Unjudged(q)' = Unjudged(q)
  BY DEF Raids, Unjudged
<1>4. IsConnected(q) =>
         /\ IsConnected(q)' /\ session[q] # s /\ session[q] \in Session
         /\ link'[session[q]] = link[session[q]] /\ guard'[session[q]] = guard[session[q]]
  BY <1>1, <1>2 DEF IsConnected, PanelTypeOK
<1>5. ShowsTheShip(q)'
  BY <1>1, <1>2, <1>4 DEF PanelInv, ShowsTheShip
<1>6. ReportsOnce(q)'
  <2>1. Raids(q) # {} => IsConnected(q) /\ Verified(session[q])
    BY <1>1 DEF PanelInv, ShowsTheShip, ReportsOnce, Raids
  <2>2. Raids(q) # {} => Verified(session[q])'
    BY <1>2, <1>4, <2>1 DEF Verified, Heard
  <2> QED
    BY <1>1, <1>3, <2>2 DEF PanelInv, ReportsOnce
<1>7. CountsOnce(q)'
  BY <1>1, <1>2, <1>3 DEF PanelInv, CountsOnce
<1> QED
  BY <1>5, <1>6, <1>7 DEF PanelInv

\* Messages are appended at one end and taken from the other.
LEMMA SentTo ==
    ASSUME NEW c \in Seq({"place", "raid"}), NEW m \in {"place", "raid"}
    PROVE  /\ Append(c, m) \in Seq({"place", "raid"}) /\ Append(c, m) # <<>>
           /\ Len(c) \in Nat /\ Len(c) + 1 \notin DOMAIN c
           /\ DOMAIN Append(c, m) = DOMAIN c \union {Len(c) + 1}
           /\ Append(c, m)[Len(c) + 1] = m
           /\ \A i \in DOMAIN c : Append(c, m)[i] = c[i]
OBVIOUS

LEMMA TakenFrom ==
    ASSUME NEW c \in Seq({"place", "raid"}), c # <<>>
    PROVE  /\ Tail(c) \in Seq({"place", "raid"})
           /\ 1 \in DOMAIN c /\ c[1] = Head(c)
           /\ \A i \in DOMAIN Tail(c) : /\ i \in Nat /\ i + 1 # 1
                                        /\ i + 1 \in DOMAIN c /\ Tail(c)[i] = c[i + 1]
OBVIOUS

\* A new session has left no trace, and the panel that takes it shows and sends nothing.
LEMMA EnterOwn ==
    ASSUME RunInv, NEW p \in Panel, Enter(p)
    PROVE  PanelInv(p)'
<1> DEFINE s == Fresh
<1>1. PanelInv(p) /\ PanelTypeOK /\ TypeOK /\ used[p] \subseteq Session
  BY DEF RunInv, RoomInv, PanelTypeOK
<1>2. s \in Session /\ link[s] = "new"
  BY FreshIsNew DEF Enter
<1>3. /\ UNCHANGED <<guard, log, online, view, channel, reported>>
      /\ link'[s] = "connected"
      /\ session'[p] = s /\ used'[p] = used[p] \union {s}
  BY <1>1, <1>2 DEF Enter, Join, PanelTypeOK, TypeOK
<1>4. ~IsConnected(p)
  BY DEF Enter, IsConnected
<1>5. ~online[p] /\ channel[p] = <<>> /\ view[p] = {}
  BY <1>1, <1>4 DEF PanelInv, ShowsTheShip
<1>6. Raids(p)' = {} /\ Raids(p) = {}
  BY <1>3, <1>5 DEF Raids
<1>7. ~guard[s].raidCounted /\ \A i \in DOMAIN log : log[i].by # s
  BY <1>2 DEF RunInv, RoomInv, GuardsAreFresh, FreshGuard, StrangersLeftNoTrace
<1> HIDE DEF s
<1>8. ShowsTheShip(p)' /\ ReportsOnce(p)'
  BY <1>3, <1>5, <1>6 DEF ShowsTheShip, ReportsOnce
<1>9. CountsOnce(p)'
  BY <1>1, <1>3, <1>6, <1>7 DEF PanelInv, CountsOnce, Unjudged
<1> QED
  BY <1>8, <1>9 DEF PanelInv

\* With the connection go the parts on show and the messages on their way.
LEMMA LoseOwn ==
    ASSUME RunInv, NEW p \in Panel, Lose(p)
    PROVE  PanelInv(p)'
<1>1. PanelInv(p) /\ PanelTypeOK
  BY DEF RunInv
<1>2. /\ UNCHANGED <<guard, log, session, reported, used>>
      /\ ~online'[p] /\ view'[p] = {} /\ channel'[p] = <<>>
  BY <1>1 DEF Lose, Drop, PanelTypeOK
<1>3. Raids(p)' = {}
  BY <1>2 DEF Raids
<1>4. Unjudged(p)' => Unjudged(p)
  BY <1>2, <1>3 DEF Unjudged
<1> QED
  BY <1>1, <1>2, <1>3, <1>4 DEF PanelInv, ShowsTheShip, ReportsOnce, CountsOnce

LEMMA RestartOwn ==
    ASSUME RunInv, NEW p \in Panel, RestartServer
    PROVE  PanelInv(p)'
<1>1. PanelInv(p) /\ PanelTypeOK /\ used[p] \subseteq Session
  BY DEF RunInv, PanelTypeOK
<1>2. /\ UNCHANGED <<log, session, reported, used>>
      /\ guard' = [s \in Session |-> FreshGuard]
      /\ ~online'[p] /\ view'[p] = {} /\ channel'[p] = <<>>
  BY <1>1 DEF RestartServer, Restart, PanelTypeOK
<1>3. Raids(p)' = {}
  BY <1>2 DEF Raids
<1>4. Unjudged(p)' => Unjudged(p)
  BY <1>2, <1>3 DEF Unjudged
<1>5. \A s \in Session : ~guard'[s].raidCounted
  BY <1>2 DEF FreshGuard
<1> QED
  BY <1>1, <1>2, <1>3, <1>4, <1>5 DEF PanelInv, ShowsTheShip, ReportsOnce, CountsOnce

\* The next panel of the player begins with nothing.
LEMMA LeaveStreetOwn ==
    ASSUME RunInv, NEW p \in Panel, LeaveStreet(p)
    PROVE  PanelInv(p)'
<1>1. /\ session'[p] = NoSession /\ used'[p] = {} /\ ~reported'[p]
      /\ ~online'[p] /\ view'[p] = {} /\ channel'[p] = <<>>
  BY DEF LeaveStreet, RunInv, PanelTypeOK
<1>2. Raids(p)' = {}
  BY <1>1 DEF Raids
<1> QED
  BY <1>1, <1>2 DEF PanelInv, ShowsTheShip, ReportsOnce, CountsOnce

\* What a patch shows is the ship of that moment.
LEMMA PatchOwn ==
    ASSUME RunInv, NEW p \in Panel, Patch(p)
    PROVE  PanelInv(p)'
<1>1. PanelInv(p) /\ PanelTypeOK
  BY DEF RunInv
<1>2. /\ UNCHANGED <<link, guard, log, session, channel, reported, used>>
      /\ Authors' = Authors /\ online'[p] /\ view'[p] = Authors
      /\ IsConnected(p)
  BY <1>1 DEF Patch, roomVars, PanelTypeOK, Authors, IsConnected
<1>3. Raids(p)' = Raids(p) /\ Unjudged(p)' = Unjudged(p) /\ IsConnected(p)'
  BY <1>2 DEF Raids, Unjudged, IsConnected
<1>4. Verified(session[p])' = Verified(session[p])
  BY <1>2 DEF Verified, Heard
<1> QED
  BY <1>1, <1>2, <1>3, <1>4 DEF PanelInv, ShowsTheShip, ReportsOnce, CountsOnce

\* A part on its way is no report.
LEMMA SubmitOwn ==
    ASSUME RunInv, NEW p \in Panel, Submit(p)
    PROVE  PanelInv(p)'
<1>1. PanelInv(p) /\ PanelTypeOK /\ channel[p] \in Seq({"place", "raid"})
  BY DEF RunInv, PanelTypeOK
<1>2. /\ UNCHANGED <<link, guard, log, session, online, view, reported, used>>
      /\ Authors' = Authors /\ online[p]
      /\ channel'[p] = Append(channel[p], "place")
  BY <1>1 DEF Submit, Sends, roomVars, PanelTypeOK, Authors
<1>3. IsConnected(p) /\ IsConnected(p)'
  BY <1>1, <1>2 DEF PanelInv, ShowsTheShip, IsConnected
<1>4. Raids(p)' = Raids(p)
  BY <1>1, <1>2, SentTo DEF Raids
<1>5. Verified(session[p])' = Verified(session[p]) /\ Unjudged(p)' = Unjudged(p)
  BY <1>2, <1>4 DEF Verified, Heard, Unjudged
<1> QED
  BY <1>1, <1>2, <1>3, <1>4, <1>5 DEF PanelInv, ShowsTheShip, ReportsOnce, CountsOnce

\* What the panel takes for a completed run, the room does: the view may be old, but the ship
\* only grows while somebody is connected.
LEMMA ReportOwn ==
    ASSUME RunInv, NEW p \in Panel, Report(p)
    PROVE  PanelInv(p)'
<1> DEFINE s == session[p]
<1>1. /\ PanelInv(p) /\ PanelTypeOK /\ RoomInv /\ channel[p] \in Seq({"place", "raid"})
      /\ used[p] \subseteq Session
  BY DEF RunInv, PanelTypeOK
<1>2. /\ UNCHANGED <<link, guard, log, session, online, view, used>>
      /\ Authors' = Authors /\ online[p] /\ ~reported[p] /\ reported'[p]
      /\ channel'[p] = Append(channel[p], "raid")
      /\ s \in view[p] /\ Cardinality(view[p]) >= 2
  BY <1>1 DEF Report, Complete, CoCreated, HasOwn, Sends, roomVars, PanelTypeOK, Authors
<1>3. IsConnected(p) /\ IsConnected(p)' /\ s \in used[p] /\ s \in Present
  BY <1>1, <1>2 DEF PanelInv, ShowsTheShip, IsConnected, Present
<1>4. Raids(p) = {} /\ Raids(p)' = {Len(channel[p]) + 1}
  BY <1>1, <1>2, SentTo DEF Raids, PanelInv, ReportsOnce
<1>5. Verified(s)
  <2>1. view[p] \subseteq Authors /\ IsFiniteSet(Authors)
    BY <1>1, <1>2 DEF PanelInv, ShowsTheShip, RoomInv, ShipIsFinite
  <2>2. Cardinality(view[p]) <= Cardinality(Authors) /\ Cardinality(Authors) \in Nat
        /\ Cardinality(view[p]) \in Nat
    BY <2>1, FS_Subset, FS_CardinalityType
  <2>3. Cardinality(Authors) >= 2
    BY <1>2, <2>2
  <2>4. s \in Authors /\ guard[s].hasModule
    BY <1>1, <1>2, <1>3, <2>1 DEF RoomInv, ShipIsConsistent
  <2>5. ~guard[s].raidCounted
    BY <1>1, <1>2, <1>3 DEF PanelInv, CountsOnce, Unjudged
  <2>6. link[s] = "connected" /\ ~guard[s].closing
    BY <1>1, <1>3 DEF IsConnected, RunInv, NobodyIsClosed
  <2> QED
    BY <2>3, <2>4, <2>5, <2>6 DEF Verified, Heard
<1>6. Verified(session[p])'
  BY <1>2, <1>5 DEF Verified, Heard
<1>7. ReportsOnce(p)' /\ ShowsTheShip(p)'
  BY <1>1, <1>2, <1>3, <1>4, <1>6 DEF PanelInv, ReportsOnce, ShowsTheShip
<1>8. CountsOnce(p)'
  BY <1>1, <1>2 DEF PanelInv, CountsOnce, Unjudged
<1> QED
  BY <1>7, <1>8 DEF PanelInv

\* The room hears a part, which may complete the ship, or the one report, which it counts.
LEMMA DeliverOwn ==
    ASSUME RunInv, RoomInv', NEW p \in Panel, Deliver(p)
    PROVE  PanelInv(p)'
<1> DEFINE s == session[p]
<1>1. /\ PanelInv(p) /\ PanelTypeOK /\ RoomInv /\ TypeOK /\ used[p] \subseteq Session
      /\ channel[p] \in Seq({"place", "raid"}) /\ channel[p] # <<>>
  BY DEF RunInv, RoomInv, PanelTypeOK, Deliver
<1>2. /\ UNCHANGED <<session, online, view, reported, used>>
      /\ channel'[p] = Tail(channel[p])
  BY <1>1 DEF Deliver, PanelTypeOK
<1>3. IsConnected(p) /\ s \in used[p] /\ s \in Session
  BY <1>1 DEF PanelInv, ShowsTheShip, IsConnected
<1>4. \A i \in Raids(p)' : i + 1 \in Raids(p) /\ i + 1 # 1 /\ i \in Nat
  BY <1>1, <1>2, TakenFrom DEF Raids
<1>5. \A i, j \in Raids(p)' : i = j
  <2> TAKE i, j \in Raids(p)'
  <2>1. i + 1 = j + 1 /\ i \in Nat /\ j \in Nat
    BY <1>1, <1>4 DEF PanelInv, ReportsOnce
  <2> QED
    BY <2>1
<1>6. Head(channel[p]) = "raid" => 1 \in Raids(p) /\ Raids(p)' = {}
  <2> SUFFICES ASSUME Head(channel[p]) = "raid" PROVE 1 \in Raids(p) /\ Raids(p)' = {}
    OBVIOUS
  <2>1. 1 \in Raids(p)
    BY <1>1, TakenFrom DEF Raids
  <2>2. \A i \in Raids(p)' : FALSE
    BY <1>1, <1>4, <2>1 DEF PanelInv, ReportsOnce
  <2> QED
    BY <2>1, <2>2
<1>7. CASE Head(channel[p]) = "place" /\ (PlaceModule(s) \/ UNCHANGED roomVars)
  <2>1. /\ UNCHANGED <<link, log>> /\ Authors \subseteq Authors'
        /\ \A t \in Session : /\ guard'[t].raidCounted = guard[t].raidCounted
                              /\ guard'[t].closing = guard[t].closing
                              /\ guard[t].hasModule => guard'[t].hasModule
    <3>1. CASE PlaceModule(s)
      <4>1. modules \subseteq modules' /\ UNCHANGED <<link, log>>
            /\ guard' = [guard EXCEPT ![s].hasModule = TRUE]
        BY <3>1 DEF PlaceModule
      <4>2. Authors \subseteq Authors'
        BY <4>1 DEF Authors
      <4> QED
        BY <1>1, <4>1, <4>2 DEF TypeOK
    <3>2. CASE UNCHANGED roomVars
      BY <3>2 DEF roomVars, Authors
    <3> QED
      BY <1>7, <3>1, <3>2
  <2>2. Raids(p)' # {} => Raids(p) # {}
    BY <1>4
  <2>3. Unjudged(p)' => Unjudged(p)
    BY <1>2, <2>2 DEF Unjudged
  <2>4. Raids(p)' # {} => Verified(session[p])'
    <3>1. /\ Cardinality(Authors) <= Cardinality(Authors')
          /\ Cardinality(Authors) \in Nat /\ Cardinality(Authors') \in Nat
      BY <2>1, FS_Subset, FS_CardinalityType DEF RoomInv, ShipIsFinite
    <3>2. Raids(p)' # {} => Verified(s)
      BY <1>1, <2>2 DEF PanelInv, ReportsOnce
    <3> QED
      BY <1>2, <1>3, <2>1, <3>1, <3>2 DEF Verified, Heard
  <2>5. ReportsOnce(p)'
    BY <1>1, <1>2, <1>5, <2>2, <2>4 DEF PanelInv, ReportsOnce
  <2>6. ShowsTheShip(p)'
    BY <1>1, <1>2, <1>3, <2>1 DEF PanelInv, ShowsTheShip, IsConnected
  <2>7. CountsOnce(p)'
    BY <1>1, <1>2, <2>1, <2>3 DEF PanelInv, CountsOnce
  <2> QED
    BY <2>5, <2>6, <2>7 DEF PanelInv
<1>8. CASE Head(channel[p]) = "raid"
  <2>1. /\ UNCHANGED link /\ Authors' = Authors
        /\ log' = log \/ log' = Append(log, [by |-> s, coAuthors |-> Cardinality(Authors)])
    BY <1>8 DEF Deliver, RaidComplete, RaidRecordFails, roomVars, Authors
  <2>2. reported[p] /\ Unjudged(p) /\ ~Unjudged(p)'
    BY <1>1, <1>2, <1>6, <1>8 DEF PanelInv, ReportsOnce, Unjudged
  <2>3. \A i \in DOMAIN log : log[i].by \notin used[p]
    BY <1>1, <2>2 DEF PanelInv, CountsOnce
  <2>4. log \in Seq([by : Session \union {Foreign}, coAuthors : Nat])
    BY <1>1 DEF TypeOK
  <2>5. \A i \in DOMAIN log' : log'[i].by \in used[p] => i = Len(log) + 1
    <3>1. \A i \in DOMAIN log' : (i \in DOMAIN log /\ log'[i] = log[i]) \/ i = Len(log) + 1
      BY <2>1, <2>4
    <3> QED
      BY <2>3, <3>1
  <2>6. CountsOnce(p)'
    BY <1>2, <2>2, <2>5 DEF CountsOnce
  <2>7. ShowsTheShip(p)' /\ ReportsOnce(p)'
    BY <1>1, <1>2, <1>3, <1>6, <1>8, <2>1
       DEF PanelInv, ShowsTheShip, ReportsOnce, IsConnected
  <2> QED
    BY <2>6, <2>7 DEF PanelInv
<1> QED
  BY <1>7, <1>8 DEF Deliver
-----------------------------------------------------------------------------
LEMMA PanelTypesKept == RunInv /\ RunNext => PanelTypeOK'
<1> SUFFICES ASSUME RunInv, RunNext PROVE PanelTypeOK'
  OBVIOUS
<1>1. PanelTypeOK /\ Authors \subseteq Session
  BY DEF RunInv, RoomInv, TypeOK, Authors
<1>2. ASSUME NEW p \in Panel, Enter(p) PROVE PanelTypeOK'
  BY <1>1, <1>2, FreshIsNew DEF Enter, PanelTypeOK
<1>3. ASSUME NEW p \in Panel, Patch(p) PROVE PanelTypeOK'
  BY <1>1, <1>3 DEF Patch, PanelTypeOK
<1>4. ASSUME NEW p \in Panel, Lose(p) PROVE PanelTypeOK'
  <2>1. /\ online' = [online EXCEPT ![p] = FALSE] /\ view' = [view EXCEPT ![p] = {}]
        /\ channel' = [channel EXCEPT ![p] = <<>>]
        /\ UNCHANGED <<session, reported, used, others>>
    BY <1>4 DEF Lose
  <2>2. <<>> \in Seq({"place", "raid"})
    OBVIOUS
  <2>3. channel' \in [Panel -> Seq({"place", "raid"})]
    BY <1>1, <2>1, <2>2 DEF PanelTypeOK
  <2> QED
    BY <1>1, <2>1, <2>3 DEF PanelTypeOK
<1>5. ASSUME NEW p \in Panel, LeaveStreet(p) PROVE PanelTypeOK'
  <2>1. <<>> \in Seq({"place", "raid"})
    OBVIOUS
  <2>2. channel' \in [Panel -> Seq({"place", "raid"})]
    BY <1>1, <1>5, <2>1 DEF LeaveStreet, PanelTypeOK
  <2>3. /\ session' \in [Panel -> Session \union {NoSession}]
        /\ online' \in [Panel -> BOOLEAN] /\ view' \in [Panel -> SUBSET Session]
        /\ reported' \in [Panel -> BOOLEAN] /\ used' \in [Panel -> SUBSET Session]
        /\ others' = others
    BY <1>1, <1>5 DEF LeaveStreet, PanelTypeOK
  <2> QED
    BY <1>1, <2>2, <2>3 DEF PanelTypeOK
<1>6. CASE RestartServer
  <2>1. <<>> \in Seq({"place", "raid"})
    OBVIOUS
  <2>2. channel' \in [Panel -> Seq({"place", "raid"})]
    BY <1>6, <2>1 DEF RestartServer
  <2> QED
    BY <1>1, <1>6, <2>2 DEF RestartServer, PanelTypeOK
<1>7. ASSUME NEW p \in Panel, Submit(p) \/ Report(p) PROVE PanelTypeOK'
  <2>1. channel[p] \in Seq({"place", "raid"})
    BY <1>1 DEF PanelTypeOK
  <2>2. /\ Append(channel[p], "place") \in Seq({"place", "raid"})
        /\ Append(channel[p], "raid") \in Seq({"place", "raid"})
    BY <2>1
  <2> QED
    BY <1>1, <1>7, <2>2 DEF Submit, Report, Sends, PanelTypeOK
<1>8. ASSUME NEW p \in Panel, Invite(p) \/ Copied(p) PROVE PanelTypeOK'
  BY <1>1, <1>8 DEF Invite, Copied, PanelTypeOK
<1>9. ASSUME NEW p \in Panel, Deliver(p) PROVE PanelTypeOK'
  <2>1. channel[p] \in Seq({"place", "raid"}) /\ channel[p] # <<>>
    BY <1>1, <1>9 DEF PanelTypeOK, Deliver
  <2>2. Tail(channel[p]) \in Seq({"place", "raid"})
    BY <2>1
  <2> QED
    BY <1>1, <1>9, <2>2 DEF Deliver, PanelTypeOK
<1>10. CASE OtherJoins
  BY <1>1, <1>10, FreshIsNew DEF OtherJoins, PanelTypeOK, panelVars
<1>11. ASSUME UNCHANGED panelVars, UNCHANGED others PROVE PanelTypeOK'
  BY <1>1, <1>11 DEF PanelTypeOK, panelVars
<1>12. ASSUME NEW p \in Panel, Resume(p) PROVE PanelTypeOK'
  BY <1>11, <1>12 DEF Resume
<1>13. CASE (\E s \in Session : OtherPlays(s)) \/ RoomGoesOn
  BY <1>11, <1>13 DEF OtherPlays, RoomGoesOn
<1> QED
  BY <1>2, <1>3, <1>4, <1>5, <1>6, <1>7, <1>8, <1>9, <1>10, <1>12, <1>13 DEF RunNext

\* What the steps of a run do to sessions at large: none is told to leave, and none that has
\* joined is new again.
LEMMA SessionsKept ==
    ASSUME RunInv, RunNext
    PROVE  /\ NobodyIsClosed'
           /\ \A t \in Session : link'[t] = "new" => link[t] = "new"
<1> DEFINE Kept == NobodyIsClosed' /\ \A t \in Session : link'[t] = "new" => link[t] = "new"
<1>1. NobodyIsClosed /\ PanelTypeOK /\ RoomInv
  BY DEF RunInv
<1>2. ASSUME NEW s \in Session, SessionStep(s) PROVE Kept
  BY <1>1, <1>2, SessionStepEffect DEF NobodyIsClosed
<1>3. ASSUME UNCHANGED <<link, guard>> PROVE Kept
  BY <1>1, <1>3 DEF NobodyIsClosed
<1>4. ASSUME NEW p \in Panel,
             Patch(p) \/ Submit(p) \/ Invite(p) \/ Copied(p) \/ Report(p)
      PROVE  Kept
  BY <1>3, <1>4 DEF Patch, Submit, Invite, Copied, Report, roomVars
<1>5. ASSUME NEW p \in Panel, Enter(p) PROVE Kept
  BY <1>2, <1>5, FreshIsNew DEF Enter, SessionStep
<1>6. ASSUME NEW p \in Panel, Lose(p) \/ Resume(p) \/ LeaveStreet(p) PROVE Kept
  <2>1. session[p] \in Session
    BY <1>1, <1>6 DEF Lose, Resume, LeaveStreet, PanelTypeOK
  <2>2. SessionStep(session[p]) \/ UNCHANGED <<link, guard>>
    BY <1>6 DEF Lose, Resume, LeaveStreet, SessionStep, roomVars
  <2> QED
    BY <1>2, <1>3, <2>1, <2>2
<1>7. ASSUME NEW p \in Panel, Deliver(p) PROVE Kept
  <2>1. session[p] \in Session
    BY <1>1, <1>7 DEF Deliver, RunInv, PanelInv, ShowsTheShip, IsConnected, PanelTypeOK
  <2>2. SessionStep(session[p]) \/ UNCHANGED <<link, guard>>
    BY <1>7 DEF Deliver, SessionStep, roomVars
  <2> QED
    BY <1>2, <1>3, <2>1, <2>2
<1>8. CASE OtherJoins
  BY <1>2, <1>8, FreshIsNew DEF OtherJoins, SessionStep
<1>9. ASSUME NEW s \in Session, OtherPlays(s) PROVE Kept
  BY <1>2, <1>9 DEF OtherPlays, SessionStep
<1>10. CASE RoomGoesOn
  <2>1. \/ UNCHANGED <<link, guard>>
        \/ \E s \in Session : SessionStep(s)
    BY <1>10 DEF RoomGoesOn, Create, Dispose, SessionStep
  <2> QED
    BY <1>2, <1>3, <2>1
<1>11. CASE RestartServer
  BY <1>11 DEF RestartServer, Restart, NobodyIsClosed, FreshGuard
<1> QED
  BY <1>4, <1>5, <1>6, <1>7, <1>8, <1>9, <1>10, <1>11 DEF RunNext

LEMMA OwnersKept == RunInv /\ RunNext => SessionsAreOwned'
<1> SUFFICES ASSUME RunInv, RunNext PROVE SessionsAreOwned'
  OBVIOUS
<1>1. /\ SessionsAreOwned /\ PanelTypeOK /\ others \subseteq Session
      /\ \A p \in Panel : used[p] \subseteq Session
  BY DEF RunInv, PanelTypeOK
<1>2. \A t \in Session : link'[t] = "new" => link[t] = "new"
  BY SessionsKept
<1>3. ASSUME NEW p \in Panel, Enter(p) PROVE SessionsAreOwned'
  <2> DEFINE s == Fresh
  <2>1. s \in Session /\ link[s] = "new"
    BY <1>3, FreshIsNew DEF Enter
  <2>2. others' = others /\ used' = [used EXCEPT ![p] = @ \union {s}] /\ link'[s] # "new"
    BY <1>3, <2>1 DEF Enter, Join, RunInv, RoomInv, TypeOK
  <2> HIDE DEF s
  <2>3. \A q \in Panel : used'[q] = IF q = p THEN used[q] \union {s} ELSE used[q]
    BY <1>1, <2>2 DEF PanelTypeOK
  <2>4. s \notin others /\ \A q \in Panel : s \notin used[q]
    BY <1>1, <2>1 DEF SessionsAreOwned
  <2> QED
    BY <1>1, <1>2, <2>2, <2>3, <2>4 DEF SessionsAreOwned
<1>4. CASE OtherJoins
  <2> DEFINE s == Fresh
  <2>1. s \in Session /\ link[s] = "new"
    BY <1>4, FreshIsNew DEF OtherJoins
  <2>2. others' = others \union {s} /\ used' = used /\ link'[s] # "new"
    BY <1>4, <2>1 DEF OtherJoins, Join, RunInv, RoomInv, TypeOK, panelVars
  <2> HIDE DEF s
  <2>3. \A q \in Panel : s \notin used[q]
    BY <1>1, <2>1 DEF SessionsAreOwned
  <2> QED
    BY <1>1, <1>2, <2>2, <2>3 DEF SessionsAreOwned
<1>5. ASSUME others' = others, \A q \in Panel : used'[q] \subseteq used[q]
      PROVE  SessionsAreOwned'
  BY <1>1, <1>2, <1>5 DEF SessionsAreOwned
<1>6. ASSUME NEW p \in Panel, LeaveStreet(p) PROVE SessionsAreOwned'
  BY <1>1, <1>5, <1>6 DEF LeaveStreet, PanelTypeOK
<1>7. ASSUME NEW p \in Panel,
             \/ Patch(p) \/ Lose(p) \/ Resume(p)
             \/ Submit(p) \/ Invite(p) \/ Copied(p) \/ Report(p) \/ Deliver(p)
      PROVE  SessionsAreOwned'
  <2>1. UNCHANGED <<used, others>>
    BY <1>7 DEF Patch, Lose, Resume, Submit, Invite, Copied, Report, Deliver, panelVars
  <2> QED
    BY <1>5, <2>1
<1>8. CASE (\E s \in Session : OtherPlays(s)) \/ RoomGoesOn \/ RestartServer
  <2>1. UNCHANGED <<used, others>>
    BY <1>8 DEF OtherPlays, RoomGoesOn, RestartServer, panelVars
  <2> QED
    BY <1>5, <2>1
<1> QED
  BY <1>3, <1>4, <1>6, <1>7, <1>8 DEF RunNext

\* Every action does to its own panel what the lemmas above say, and spares the others.
LEMMA PanelsKept ==
    ASSUME RunInv, RoomInv', RunNext, NEW q \in Panel
    PROVE  PanelInv(q)'
<1>1. PanelTypeOK /\ SessionsAreOwned /\ PanelInv(q)
  BY DEF RunInv
<1>2. ASSUME PanelStays(q), NEW s \in Session, SessionStep(s), s \notin used[q]
      PROVE  PanelInv(q)'
  BY <1>2, StepElsewhere, SparedPanel
<1>3. ASSUME PanelStays(q), UNCHANGED roomVars PROVE PanelInv(q)'
  BY <1>3, RoomQuiet, SparedPanel
<1>4. ASSUME NEW p \in Panel, Enter(p) PROVE PanelInv(q)'
  <2>1. CASE p = q
    BY <1>4, <2>1, EnterOwn
  <2>2. CASE p # q
    <3>1. Fresh \in Session /\ link[Fresh] = "new" /\ SessionStep(Fresh)
      BY <1>4, FreshIsNew DEF Enter, SessionStep
    <3>2. PanelStays(q) /\ Fresh \notin used[q]
      BY <1>1, <1>4, <2>2, <3>1 DEF Enter, PanelStays, PanelTypeOK, SessionsAreOwned
    <3> QED
      BY <1>2, <3>1, <3>2
  <2> QED
    BY <2>1, <2>2
<1>5. ASSUME NEW p \in Panel, Patch(p) \/ Submit(p) \/ Report(p) PROVE PanelInv(q)'
  <2>1. CASE p = q
    BY <1>5, <2>1, PatchOwn, SubmitOwn, ReportOwn
  <2>2. CASE p # q
    <3>1. PanelStays(q) /\ UNCHANGED roomVars
      BY <1>1, <1>5, <2>2 DEF Patch, Submit, Report, Sends, PanelStays, PanelTypeOK
    <3> QED
      BY <1>3, <3>1
  <2> QED
    BY <2>1, <2>2
<1>6. ASSUME NEW p \in Panel, Invite(p) \/ Copied(p) PROVE PanelInv(q)'
  <2>1. PanelStays(q) /\ UNCHANGED roomVars
    BY <1>6 DEF Invite, Copied, PanelStays
  <2> QED
    BY <1>3, <2>1
<1>7. ASSUME NEW p \in Panel, Lose(p) \/ LeaveStreet(p) \/ Deliver(p) PROVE PanelInv(q)'
  <2>1. CASE p = q
    BY <1>7, <2>1, LoseOwn, LeaveStreetOwn, DeliverOwn
  <2>2. CASE p # q
    <3>1. session[p] \in Session /\ session[p] \in used[p]
      BY <1>7 DEF Lose, LeaveStreet, Deliver, RunInv, PanelInv, ShowsTheShip, IsConnected,
                  PanelTypeOK
    <3>2. session[p] \notin used[q]
      BY <1>1, <2>2, <3>1 DEF SessionsAreOwned
    <3>3. SessionStep(session[p]) \/ UNCHANGED roomVars
      BY <1>7 DEF Lose, LeaveStreet, Deliver, SessionStep
    <3>4. PanelStays(q)
      BY <1>1, <1>7, <2>2 DEF Lose, LeaveStreet, Deliver, PanelStays, PanelTypeOK
    <3> QED
      BY <1>2, <1>3, <3>1, <3>2, <3>3, <3>4
  <2> QED
    BY <2>1, <2>2
<1>8. ASSUME NEW p \in Panel, Resume(p) PROVE PanelInv(q)'
  <2>1. session[p] \in Session /\ Reconnect(session[p]) /\ PanelStays(q)
    BY <1>1, <1>8 DEF Resume, PanelTypeOK, PanelStays, panelVars
  <2> QED
    BY <2>1, StepAside
<1>9. CASE OtherJoins
  <2>1. Fresh \in Session /\ link[Fresh] = "new" /\ SessionStep(Fresh)
    BY <1>9, FreshIsNew DEF OtherJoins, SessionStep
  <2>2. PanelStays(q) /\ Fresh \notin used[q]
    BY <1>1, <1>9, <2>1 DEF OtherJoins, panelVars, PanelStays, SessionsAreOwned
  <2> QED
    BY <1>2, <2>1, <2>2
<1>10. ASSUME NEW s \in Session, OtherPlays(s) PROVE PanelInv(q)'
  <2>1. SessionStep(s) /\ PanelStays(q) /\ s \notin used[q]
    BY <1>1, <1>10 DEF OtherPlays, SessionStep, PanelStays, panelVars, SessionsAreOwned
  <2> QED
    BY <1>2, <2>1
<1>11. CASE RoomGoesOn
  <2>1. PanelStays(q)
    BY <1>11 DEF RoomGoesOn, PanelStays, panelVars
  <2>2. ASSUME NEW s \in Session, ReconnectTimeout(s) \/ (link[s] = "leaving" /\ Leave(s))
        PROVE  PanelInv(q)'
    BY <2>1, <2>2, StepAside
  <2>3. ASSUME NEW r \in RoomId, Create(r) \/ Dispose(r) PROVE PanelInv(q)'
    <3>1. UNCHANGED <<link, guard, log>> /\ (UNCHANGED modules \/ Present = {})
      BY <2>3 DEF Create, Dispose, RunInv, RoomInv, NobodyWithoutRoom, Present
    <3>2. IsConnected(q) => session[q] \in Present
      BY <1>1 DEF IsConnected, Present, PanelTypeOK
    <3>3. UNCHANGED modules => Authors' = Authors
      BY DEF Authors
    <3>4. RoomSpares(q)
      BY <3>1, <3>2, <3>3 DEF RoomSpares
    <3> QED
      BY <2>1, <3>4, SparedPanel
  <2> QED
    BY <1>11, <2>2, <2>3 DEF RoomGoesOn
<1>12. CASE RestartServer
  BY <1>12, RestartOwn
<1> QED
  BY <1>4, <1>5, <1>6, <1>7, <1>8, <1>9, <1>10, <1>11, <1>12 DEF RunNext

LEMMA RunInductive == RunInv /\ [RunNext]_runVars => RunInv'
<1> SUFFICES ASSUME RunInv, [RunNext]_runVars PROVE RunInv'
  OBVIOUS
<1>1. CASE RunNext
  <2>1. RoomInv'
    BY <1>1, RunIsRoom, RoomInductive DEF RunInv
  <2>2. PanelTypeOK' /\ NobodyIsClosed' /\ SessionsAreOwned'
    BY <1>1, PanelTypesKept, SessionsKept, OwnersKept
  <2>3. \A q \in Panel : PanelInv(q)'
    BY <1>1, <2>1, PanelsKept
  <2> QED
    BY <2>1, <2>2, <2>3 DEF RunInv
<1>2. CASE UNCHANGED runVars
  <2>1. UNCHANGED vars /\ UNCHANGED roomVars /\ UNCHANGED panelVars /\ others' = others
    BY <1>2 DEF runVars, roomVars, vars
  <2>2. RoomInv'
    BY <2>1, StutterRoom DEF RunInv
  <2>3. PanelTypeOK' /\ NobodyIsClosed' /\ SessionsAreOwned'
    BY <2>1 DEF RunInv, PanelTypeOK, NobodyIsClosed, SessionsAreOwned, panelVars, roomVars
  <2>4. \A q \in Panel : PanelInv(q)'
    <3> TAKE q \in Panel
    <3>1. PanelStays(q)
      BY <2>1 DEF PanelStays, panelVars
    <3> QED
      BY <2>1, <2>2, <3>1, RoomQuiet, SparedPanel
  <2> QED
    BY <2>2, <2>3, <2>4 DEF RunInv
<1> QED
  BY <1>1, <1>2

LEMMA RunInvariant == RunSpec => []RunInv
<1> QED
  BY RunInitOK, RunInductive, PTL DEF RunSpec

\* The room under the panels is PalaceRoom's: every run of panels and room begins as the room
\* does and takes its steps, so what is proved of the room holds here.
THEOREM RunImplementsRoom == RunSpec => Init /\ [][Next]_vars
<1>1. RunInit => Init
  BY DEF RunInit
<1>2. RunInv /\ [RunNext]_runVars => [Next]_vars
  <2>1. UNCHANGED runVars => UNCHANGED vars
    BY DEF runVars, roomVars, vars
  <2> QED
    BY <2>1, RunIsRoom
<1> QED
  BY <1>1, <1>2, RunInvariant, PTL DEF RunSpec

\* For any number of players, parts and connections: a report under way (the effect of
\* MeaningPath.tsx) is one the room will verify (#handleRaidComplete), although the panel
\* judged by a patch and the room by its state; and a panel adds one run at most.
THEOREM ReportsAlwaysHonest == RunSpec => []ReportsAreHonest
<1>1. RunInv => ReportsAreHonest
  <2> SUFFICES ASSUME RunInv PROVE ReportsAreHonest
    OBVIOUS
  <2>1. ClaimsAreTrue
    BY DEF RunInv, PanelInv, ReportsOnce, Raids, ClaimsAreTrue
  <2>2. ASSUME NEW p \in Panel
        PROVE  Cardinality({i \in DOMAIN log : log[i].by \in used[p]}) <= 1
    <3> DEFINE counted == {i \in DOMAIN log : log[i].by \in used[p]}
    <3>1. \A i, j \in counted : i = j
      BY DEF RunInv, PanelInv, CountsOnce
    <3> HIDE DEF counted
    <3>2. counted = {} => Cardinality(counted) = 0
      BY FS_EmptySet
    <3>3. counted # {} => Cardinality(counted) = 1
      <4> SUFFICES ASSUME counted # {} PROVE Cardinality(counted) = 1
        OBVIOUS
      <4>1. \E i \in counted : counted = {i}
        BY <3>1
      <4> QED
        BY <4>1, FS_Singleton
    <3>4. Cardinality(counted) <= 1
      BY <3>2, <3>3
    <3> QED
      BY <3>4 DEF counted
  <2> QED
    BY <2>1, <2>2 DEF ReportsAreHonest, OneRunPerPanel
<1> QED
  BY <1>1, RunInvariant, PTL
===============================================================================
