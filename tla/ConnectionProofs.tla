----------------------------- MODULE ConnectionProofs --------------------------
(*****************************************************************************)
(* One connection to the palace, from the client's transport over the guard  *)
(* before matchmaking to the limits on the session it becomes: theorems of   *)
(* TransportSpec, GuardSpec and Spec (SessionGuard). The modules share no    *)
(* variable; each part below states its inductive invariant first.           *)
(*****************************************************************************)
EXTENDS SessionGuard, MatchmakingGuard, PalaceTransport, FiniteSetTheorems,
        SequenceTheorems, TLAPS
-----------------------------------------------------------------------------
\* Both guards forget the first elements of a list that is in the order of the clock.
\* new is old without its first k elements.
Cut(old, new, k) ==
    /\ k \in 0..Len(old)
    /\ Len(new) = Len(old) - k
    /\ \A i \in 1..Len(new) : new[i] = old[k + i]

\* A set of places that has with each all places before it is as long as its cardinality.
LEMMA PrefixIsInterval ==
    ASSUME NEW n \in Nat, NEW S, S \subseteq 1..n, \A i \in S : \A j \in 1..i : j \in S
    PROVE  Cardinality(S) \in 0..n /\ S = 1..Cardinality(S)
<1> DEFINE k == Cardinality(S)
<1>1. IsFiniteSet(1..n) /\ Cardinality(1..n) = n
  BY FS_Interval
<1>2. IsFiniteSet(S) /\ k <= n
  BY <1>1, FS_Subset
<1>3. k \in Nat
  BY <1>2, FS_CardinalityType
<1>4. IsFiniteSet(1..k) /\ Cardinality(1..k) = k
  BY <1>3, FS_Interval
<1>5. 1..k \subseteq S
  <2>1. SUFFICES ASSUME NEW i \in 1..k, i \notin S PROVE FALSE
    OBVIOUS
  <2>2. S \subseteq 1..(i - 1)
    <3>1. SUFFICES ASSUME NEW j \in S, j > i - 1 PROVE FALSE
      BY <1>3
    <3>2. i \in 1..j
      BY <3>1, <1>3
    <3> QED
      BY <3>2, <2>1
  <2>3. IsFiniteSet(1..(i - 1)) /\ Cardinality(1..(i - 1)) = i - 1
    <3>1. 1 \in Int /\ i - 1 \in Int /\ i >= 1
      BY <1>3
    <3>2. Cardinality(1..(i - 1)) = (IF 1 > i - 1 THEN 0 ELSE (i - 1) - 1 + 1)
      BY <3>1, FS_Interval
    <3>3. IsFiniteSet(1..(i - 1))
      BY <3>1, FS_Interval
    <3> QED
      BY <3>1, <3>2, <3>3
  <2>4. k <= i - 1
    BY <2>2, <2>3, FS_Subset
  <2> QED
    BY <2>4, <1>3
<1>6. S = 1..k
  BY <1>5, <1>4, <1>2, FS_Subset
<1> QED
  BY <1>6, <1>2, <1>3

LEMMA SuffixIsCut ==
    ASSUME NEW S, NEW old \in Seq(S), NEW k \in 0..Len(old)
    PROVE  /\ SubSeq(old, k + 1, Len(old)) \in Seq(S)
           /\ Cut(old, SubSeq(old, k + 1, Len(old)), k)
<1> DEFINE n   == Len(old)
           new == SubSeq(old, k + 1, n)
<1>1. n \in Nat /\ k \in Nat /\ k <= n /\ \A i \in 1..n : old[i] \in S
  BY LenProperties, ElementOfSeq
<1> HIDE DEF n
<1>2. k + 1 \in Int /\ n \in Int /\ \A i \in (k + 1)..n : old[i] \in S
  BY <1>1
<1>3. /\ new \in Seq(S)
      /\ Len(new) = IF k + 1 <= n THEN n - (k + 1) + 1 ELSE 0
      /\ \A i \in 1..n - (k + 1) + 1 : new[i] = old[(k + 1) + i - 1]
  BY <1>2, SubSeqProperties
<1>4. Len(new) = n - k
  BY <1>3, <1>1
<1>5. ASSUME NEW i \in 1..Len(new) PROVE new[i] = old[k + i]
  <2>1. i \in 1..n - (k + 1) + 1 /\ (k + 1) + i - 1 = k + i
    BY <1>4, <1>1
  <2> QED
    BY <2>1, <1>3
<1> QED
  BY <1>3, <1>4, <1>5 DEF Cut, n
-----------------------------------------------------------------------------
(*****************************************************************************)
(* The transport. Exactly one thing moves it on: a join, its room, a timer   *)
(* or a room that is being closed; and the join that is still looked for is  *)
(* the one open() waits for. So nothing a stale join brings can become the   *)
(* room.                                                                     *)
(*****************************************************************************)

\* What moves a transport on: one of a join, the attached room, a timer and a room being
\* closed, and nothing but the last when it is offline.
Driven ==
    /\ status # "offline" =>
          \/ activeJoin # None /\ room = None /\ retryTimer = None /\ afterClose = None
          \/ activeJoin = None /\ room # None /\ retryTimer = None /\ afterClose = None
          \/ activeJoin = None /\ room = None /\ retryTimer # None /\ afterClose = None
          \/ activeJoin = None /\ room = None /\ retryTimer = None /\ afterClose # None
    /\ status = "offline" =>
          /\ activeJoin = None /\ room = None /\ retryTimer = None
          /\ ~disposed => afterClose = None
    /\ disposed \/ ~started => status = "offline"

\* An operation that is still looked for is the one open() waits for, as long as the transport
\* is in use; and a pending room is the room of that operation.
JoinsAreKnown ==
    /\ activeJoin # None => sdk[activeJoin] \in {"fetching", "connecting"}
    /\ \A o \in Operation : sdk[o] = "fetching" => activeJoin = o \/ disposed
    /\ pendingRoom # None =>
          /\ pendingRoom.room = activeJoin /\ pendingRoom.operation = activeJoin
          /\ activeJoin # None /\ sdk[activeJoin] = "connecting"

TransportInv ==
    /\ TransportTypeOK
    /\ Driven
    /\ JoinsAreKnown
    /\ NoLeakedSocket
    /\ completedRaids <= world
-----------------------------------------------------------------------------
LEMMA DrivenByOne == TransportTypeOK /\ Driven => OneDriver
<1> SUFFICES ASSUME TransportTypeOK, Driven PROVE OneDriver
  OBVIOUS
<1>1. CASE status = "offline"
  BY <1>1 DEF Driven, OneDriver, Driver
<1>2. CASE status # "offline"
  <2>1. PICK d : Driver = {d}
    BY <1>2 DEF Driven, Driver
  <2>2. Cardinality(Driver) = 1
    BY <2>1, FS_Singleton
  <2> QED
    BY <1>2, <2>2 DEF OneDriver
<1> QED
  BY <1>1, <1>2

LEMMA TransportStarts == TransportInit => TransportInv
<1> SUFFICES ASSUME TransportInit PROVE TransportInv
  OBVIOUS
<1> USE TransportAssumption DEF TransportInit
<1>1. TransportTypeOK
  <2>1. 0 \in 0..MaxJoinAttempts /\ 0 \in 0..MaxRaids
    OBVIOUS
  <2>2. /\ mode \in [Operation -> Mode]
        /\ sdk \in [Operation -> {"idle", "fetching", "connecting", "settled"}]
        /\ socket \in [Operation -> {"none", "open", "closing", "closed"}]
    BY DEF Mode
  <2>3. retryTimer # "join"
    BY DEF Mode
  <2> QED
    BY <2>1, <2>2, <2>3 DEF TransportTypeOK
<1>2. Driven /\ JoinsAreKnown /\ NoLeakedSocket
  BY DEF Driven, JoinsAreKnown, NoLeakedSocket
<1>3. completedRaids <= world
  OBVIOUS
<1> QED
  BY <1>1, <1>2, <1>3 DEF TransportInv

\* What schedules the next attempt: there is a timer, and the fast joins are counted.
LEMMA Scheduled ==
    ASSUME TransportTypeOK, NEW m \in Mode, NEW definitive \in BOOLEAN,
           Reschedule(m, definitive)
    PROVE  /\ retryTimer' \in Mode /\ retryTimer' # None
           /\ status' = "reconnecting"
           /\ attempts' \in 0..MaxJoinAttempts
           /\ retryTimer' = "join" => attempts' < MaxJoinAttempts
<1>1. m = "join" => m # "fresh" /\ m # "reconnect"
  OBVIOUS
<1>2. attempts \in 0..MaxJoinAttempts /\ MaxJoinAttempts \in Nat \ {0}
  BY TransportAssumption DEF TransportTypeOK
<1> QED
  BY <1>1, <1>2, TransportAssumption
  DEF Reschedule, ScheduleFreshJoin, ScheduleRetry, Capped, Mode

LEMMA ConnectStep ==
    ASSUME TransportInv, NEW o \in Operation, Connect(o)
    PROVE  TransportInv'
<1> USE TransportAssumption DEF TransportInv, Connect, Open, attached
<1>1. TransportTypeOK'
  BY DEF TransportTypeOK, Mode
<1>2. Driven'
  BY DEF TransportTypeOK, Driven
<1>3. JoinsAreKnown'
  BY DEF TransportTypeOK, Driven, JoinsAreKnown
<1>4. NoLeakedSocket'
  BY DEF NoLeakedSocket
<1> QED
  BY <1>1, <1>2, <1>3, <1>4

LEMMA TimerFiresStep ==
    ASSUME TransportInv, NEW o \in Operation, TimerFires(o)
    PROVE  TransportInv'
<1> USE TransportAssumption DEF TransportInv, TimerFires, Open, attached
<1>1. TransportTypeOK'
  BY DEF TransportTypeOK, Mode
<1>2. Driven'
  BY DEF TransportTypeOK, Driven
<1>3. JoinsAreKnown'
  BY DEF TransportTypeOK, Driven, JoinsAreKnown
<1>4. NoLeakedSocket'
  BY DEF NoLeakedSocket
<1> QED
  BY <1>1, <1>2, <1>3, <1>4

\* What a join leaves behind when it is over without a room: no room of it stays open.
LEMMA JoinGivenUp ==
    ASSUME TransportInv, NEW o \in Operation, activeJoin = o, ClosePendingOf(o, None)
    PROVE  /\ pendingRoom' = None
           /\ socket' \in [Operation -> {"none", "open", "closing", "closed"}]
           /\ \A x \in Operation : socket'[x] # "open"
<1> USE TransportAssumption DEF TransportInv
<1>1. room = None
  BY DEF Driven, TransportTypeOK
<1>2. CASE pendingRoom = None
  BY <1>1, <1>2 DEF ClosePendingOf, NoLeakedSocket, TransportTypeOK
<1>3. CASE pendingRoom # None
  <2>1. pendingRoom.room = o /\ pendingRoom.operation = o
    BY <1>3 DEF JoinsAreKnown
  <2>2. pendingRoom' = None /\ socket' = [socket EXCEPT ![o] = "closed"]
    BY <1>3, <2>1 DEF ClosePendingOf
  <2> QED
    BY <1>1, <2>1, <2>2 DEF NoLeakedSocket, TransportTypeOK
<1> QED
  BY <1>2, <1>3

LEMMA RoomCreatedStep ==
    ASSUME TransportInv, NEW o \in Operation, RoomCreated(o)
    PROVE  TransportInv'
<1> USE TransportAssumption DEF TransportInv, attached, client
<1>1. /\ sdk[o] = "fetching" /\ sdk' = [sdk EXCEPT ![o] = "connecting"]
      /\ UNCHANGED <<started, disposed, status, retryTimer, afterClose, attempts,
                     completedRaids, activeJoin, room, observed, mode, world>>
  BY DEF RoomCreated
<1>2. Driven'
  BY <1>1 DEF Driven
<1>3. CASE activeJoin = None \/ disposed
  <2>1. socket' = [socket EXCEPT ![o] = "closed"] /\ pendingRoom' = pendingRoom
    BY <1>3 DEF RoomCreated
  <2>2. activeJoin = None /\ pendingRoom = None
    BY <1>3 DEF Driven, JoinsAreKnown
  <2>3. TransportTypeOK'
    BY <1>1, <2>1 DEF TransportTypeOK
  <2>4. JoinsAreKnown'
    BY <1>1, <2>1, <2>2 DEF JoinsAreKnown, TransportTypeOK
  <2>5. NoLeakedSocket'
    BY <1>1, <2>1, <2>2 DEF NoLeakedSocket, TransportTypeOK
  <2> QED
    BY <1>1, <1>2, <2>3, <2>4, <2>5
<1>4. CASE activeJoin # None /\ ~disposed
  <2>1. activeJoin = o
    BY <1>1, <1>4 DEF JoinsAreKnown
  <2>2. pendingRoom = None
    BY <1>1, <2>1 DEF JoinsAreKnown
  <2>3. pendingRoom' = [room |-> o, operation |-> o] /\ socket' = [socket EXCEPT ![o] = "open"]
    <3>1. /\ pendingRoom' = [room |-> o, operation |-> activeJoin]
          /\ socket' = [x \in Operation |-> IF x = o THEN "open" ELSE socket[x]]
      BY <1>4, <2>2 DEF RoomCreated
    <3> QED
      BY <2>1, <3>1 DEF TransportTypeOK
  <2>4. TransportTypeOK'
    BY <1>1, <2>3 DEF TransportTypeOK
  <2>5. JoinsAreKnown'
    BY <1>1, <2>1, <2>3 DEF JoinsAreKnown, TransportTypeOK
  <2>6. NoLeakedSocket'
    BY <1>1, <2>1, <2>2, <2>3 DEF NoLeakedSocket, TransportTypeOK
  <2> QED
    BY <1>1, <1>2, <2>4, <2>5, <2>6
<1> QED
  BY <1>3, <1>4

LEMMA JoinFailsStep ==
    ASSUME TransportInv, NEW o \in Operation, NEW definitive \in BOOLEAN, JoinFails(o, definitive)
    PROVE  TransportInv'
<1> USE TransportAssumption DEF TransportInv, attached
<1>1. /\ sdk[o] \in {"fetching", "connecting"} /\ sdk' = [sdk EXCEPT ![o] = "settled"]
      /\ UNCHANGED <<started, disposed, room, observed, afterClose, completedRaids, mode, world>>
  BY DEF JoinFails
<1>2. CASE activeJoin = o
  <2>1. activeJoin' = None /\ ClosePendingOf(o, None) /\ Reschedule(mode[o], definitive)
    BY <1>2 DEF JoinFails
  <2>2. mode[o] \in Mode
    BY DEF TransportTypeOK
  <2>3. /\ retryTimer' \in Mode /\ retryTimer' # None
        /\ status' = "reconnecting"
        /\ attempts' \in 0..MaxJoinAttempts
        /\ retryTimer' = "join" => attempts' < MaxJoinAttempts
    BY <2>1, <2>2, Scheduled
  <2>4. /\ pendingRoom' = None
        /\ socket' \in [Operation -> {"none", "open", "closing", "closed"}]
        /\ \A x \in Operation : socket'[x] # "open"
    BY <1>2, <2>1, JoinGivenUp
  <2>5. TransportTypeOK'
    BY <1>1, <2>1, <2>3, <2>4 DEF TransportTypeOK
  <2>6. Driven'
    BY <1>1, <1>2, <2>1, <2>3 DEF Driven, TransportTypeOK
  <2>7. JoinsAreKnown'
    BY <1>1, <1>2, <2>1, <2>4 DEF JoinsAreKnown, TransportTypeOK
  <2>8. NoLeakedSocket'
    BY <2>4 DEF NoLeakedSocket
  <2> QED
    BY <1>1, <2>5, <2>6, <2>7, <2>8
<1>3. CASE activeJoin # o
  <2>1. UNCHANGED <<activeJoin, pendingRoom, socket, attempts, retryTimer, status>>
    BY <1>3 DEF JoinFails, joining
  <2>2. TransportTypeOK'
    BY <1>1, <2>1 DEF TransportTypeOK
  <2>3. Driven'
    BY <1>1, <2>1 DEF Driven
  <2>4. JoinsAreKnown'
    BY <1>1, <1>3, <2>1 DEF JoinsAreKnown, TransportTypeOK
  <2>5. NoLeakedSocket'
    BY <1>1, <2>1 DEF NoLeakedSocket
  <2> QED
    BY <1>1, <2>1, <2>2, <2>3, <2>4, <2>5
<1> QED
  BY <1>2, <1>3

LEMMA JoinRoomTimeoutStep ==
    ASSUME TransportInv, NEW o \in Operation, JoinRoomTimeout(o)
    PROVE  TransportInv'
<1> USE TransportAssumption DEF TransportInv, attached
<1>1. /\ activeJoin = o /\ activeJoin' = None
      /\ ClosePendingOf(o, None) /\ Reschedule(mode[o], FALSE)
      /\ pendingRoom # None
      /\ UNCHANGED <<started, disposed, room, observed, afterClose, completedRaids, mode, sdk,
                     world>>
  BY DEF JoinRoomTimeout
<1>2. mode[o] \in Mode
  BY DEF TransportTypeOK
<1>3. /\ retryTimer' \in Mode /\ retryTimer' # None
      /\ status' = "reconnecting"
      /\ attempts' \in 0..MaxJoinAttempts
      /\ retryTimer' = "join" => attempts' < MaxJoinAttempts
  BY <1>1, <1>2, Scheduled
<1>4. /\ pendingRoom' = None
      /\ socket' \in [Operation -> {"none", "open", "closing", "closed"}]
      /\ \A x \in Operation : socket'[x] # "open"
  BY <1>1, JoinGivenUp
<1>5. TransportTypeOK'
  BY <1>1, <1>3, <1>4 DEF TransportTypeOK
<1>6. Driven'
  BY <1>1, <1>3 DEF Driven, TransportTypeOK
<1>7. JoinsAreKnown'
  BY <1>1, <1>4 DEF JoinsAreKnown, TransportTypeOK
<1>8. NoLeakedSocket'
  BY <1>4 DEF NoLeakedSocket
<1> QED
  BY <1>1, <1>5, <1>6, <1>7, <1>8

LEMMA JoinRoomStep ==
    ASSUME TransportInv, NEW o \in Operation, JoinRoom(o)
    PROVE  TransportInv'
<1> USE TransportAssumption DEF TransportInv, client
<1>1. /\ sdk[o] = "connecting" /\ sdk' = [sdk EXCEPT ![o] = "settled"]
      /\ UNCHANGED <<started, disposed, status, retryTimer, afterClose, attempts,
                     completedRaids, mode, world>>
  BY DEF JoinRoom
<1>2. CASE activeJoin = o /\ ~disposed
  <2>1. /\ activeJoin' = None /\ room' = o /\ observed' = FALSE
        /\ ClosePendingOf(o, o)
    BY <1>2 DEF JoinRoom
  <2>2. pendingRoom' = None /\ socket' = socket
    BY <1>2, <2>1 DEF ClosePendingOf, JoinsAreKnown
  <2>3. room = None
    BY <1>2 DEF Driven, TransportTypeOK
  <2>4. TransportTypeOK'
    BY <1>1, <2>1, <2>2 DEF TransportTypeOK
  <2>5. Driven'
    BY <1>1, <1>2, <2>1 DEF Driven
  <2>6. JoinsAreKnown'
    BY <1>1, <1>2, <2>1, <2>2 DEF JoinsAreKnown, TransportTypeOK
  <2>7. NoLeakedSocket'
    <3>1. \A x \in Operation : socket[x] = "open" => x = o
      BY <1>2, <2>3 DEF NoLeakedSocket, JoinsAreKnown
    <3> QED
      BY <2>1, <2>2, <3>1 DEF NoLeakedSocket
  <2> QED
    BY <1>1, <2>4, <2>5, <2>6, <2>7
<1>3. CASE ~(activeJoin = o /\ ~disposed)
  <2>1. /\ socket' = [socket EXCEPT ![o] = Closing(o)]
        /\ UNCHANGED <<activeJoin, pendingRoom, room, observed>>
    BY <1>3 DEF JoinRoom, joining, attached
  <2>2. Closing(o) \in {"none", "closing", "closed"}
    BY DEF Closing, TransportTypeOK
  <2>3. TransportTypeOK'
    BY <1>1, <2>1, <2>2 DEF TransportTypeOK
  <2>4. Driven'
    BY <1>1, <2>1 DEF Driven
  <2>5. activeJoin # o
    BY <1>3 DEF Driven
  <2>6. JoinsAreKnown'
    BY <1>1, <2>1, <2>5 DEF JoinsAreKnown, TransportTypeOK
  <2>7. NoLeakedSocket'
    BY <1>1, <2>1, <2>2 DEF NoLeakedSocket, TransportTypeOK
  <2> QED
    BY <1>1, <2>3, <2>4, <2>6, <2>7
<1> QED
  BY <1>2, <1>3

\* The room is let go; what follows is a retry, or nothing.
LEMMA DetachStep ==
    ASSUME TransportInv, room # None, Detach,
           NEW where \in {"closing", "closed", "none"},
           socket' = [socket EXCEPT ![room] = where],
           UNCHANGED <<started, disposed, activeJoin, pendingRoom, completedRaids, mode, sdk,
                       world>>,
           status' \in {"offline", "connecting", "connected", "reconnecting"},
           attempts' \in 0..MaxJoinAttempts,
           retryTimer' \in Mode \union {None}, afterClose' \in Mode \union {None},
           retryTimer' = "join" => attempts' < MaxJoinAttempts,
           status' = "offline" => retryTimer' = None /\ afterClose' = None,
           status' # "offline" => \/ retryTimer' # None /\ afterClose' = None
                                  \/ retryTimer' = None /\ afterClose' # None
    PROVE  TransportInv'
<1> USE TransportAssumption DEF TransportInv, Detach
<1>1. activeJoin = None /\ pendingRoom = None /\ ~disposed /\ started
  BY DEF Driven, JoinsAreKnown
<1>2. TransportTypeOK'
  BY DEF TransportTypeOK
<1>3. Driven'
  BY <1>1 DEF Driven
<1>4. JoinsAreKnown'
  BY DEF JoinsAreKnown
<1>5. NoLeakedSocket'
  BY <1>1 DEF NoLeakedSocket, TransportTypeOK
<1> QED
  BY <1>2, <1>3, <1>4, <1>5

LEMMA WithoutTimer ==
    ASSUME TransportInv, room # None
    PROVE  /\ retryTimer = None /\ afterClose = None /\ status # "offline"
           /\ room \in Operation
           /\ Closing(room) \in {"closing", "closed", "none"}
           /\ mode[room] \in Mode /\ mode[room] # None
BY TransportAssumption DEF TransportInv, Driven, TransportTypeOK, Closing

LEMMA StateTimeoutStep == TransportInv /\ StateTimeout => TransportInv'
<1> SUFFICES ASSUME TransportInv, StateTimeout PROVE TransportInv'
  OBVIOUS
<1>1. room # None
  BY DEF StateTimeout
<1> QED
  BY <1>1, WithoutTimer, DetachStep DEF StateTimeout, TransportInv, TransportTypeOK, joining

LEMMA ProtocolErrorStep == TransportInv /\ ProtocolError => TransportInv'
<1> SUFFICES ASSUME TransportInv, ProtocolError PROVE TransportInv'
  OBVIOUS
<1>1. room # None
  BY DEF ProtocolError
<1> QED
  BY <1>1, WithoutTimer, DetachStep DEF ProtocolError, TransportInv, TransportTypeOK, joining

LEMMA OnDropStep ==
    ASSUME TransportInv, NEW token \in BOOLEAN, OnDrop(token)
    PROVE  TransportInv'
<1> USE DEF OnDrop, joining
<1>1. room # None
  OBVIOUS
<1>2. CASE token
  <2>1. Reschedule("reconnect", FALSE)
    BY <1>2 DEF Reschedule
  <2>2. /\ retryTimer' \in Mode /\ retryTimer' # None
        /\ status' = "reconnecting"
        /\ attempts' \in 0..MaxJoinAttempts
        /\ retryTimer' = "join" => attempts' < MaxJoinAttempts
    <3>1. "reconnect" \in Mode /\ FALSE \in BOOLEAN
      BY DEF Mode
    <3> QED
      BY <2>1, <3>1, Scheduled DEF TransportInv
  <2> QED
    BY <1>1, <2>2, WithoutTimer, DetachStep
<1>3. CASE ~token
  BY <1>1, <1>3, WithoutTimer, DetachStep DEF TransportInv, TransportTypeOK
<1> QED
  BY <1>2, <1>3

LEMMA OnLeaveStep ==
    ASSUME TransportInv, NEW shutdown \in BOOLEAN, OnLeave(shutdown)
    PROVE  TransportInv'
<1> USE DEF OnLeave, joining
<1>1. room # None
  OBVIOUS
<1>2. CASE shutdown
  <2>1. Reschedule("fresh", FALSE)
    BY <1>2 DEF Reschedule
  <2>2. /\ retryTimer' \in Mode /\ retryTimer' # None
        /\ status' = "reconnecting"
        /\ attempts' \in 0..MaxJoinAttempts
        /\ retryTimer' = "join" => attempts' < MaxJoinAttempts
    <3>1. "fresh" \in Mode /\ FALSE \in BOOLEAN
      BY DEF Mode
    <3> QED
      BY <2>1, <3>1, Scheduled DEF TransportInv
  <2> QED
    BY <1>1, <2>2, WithoutTimer, DetachStep
<1>3. CASE ~shutdown
  BY <1>1, <1>3, WithoutTimer, DetachStep DEF TransportInv, TransportTypeOK
<1> QED
  BY <1>2, <1>3

LEMMA RetryAfterCloseStep == TransportInv /\ RetryAfterClose => TransportInv'
<1> SUFFICES ASSUME TransportInv, RetryAfterClose PROVE TransportInv'
  OBVIOUS
<1> USE TransportAssumption DEF TransportInv
<1>1. /\ afterClose # None /\ afterClose' = None
      /\ UNCHANGED <<started, disposed, activeJoin, pendingRoom, room, observed,
                     completedRaids, mode, sdk, socket, world>>
  BY DEF RetryAfterClose, joining, attached
<1>2. JoinsAreKnown' /\ NoLeakedSocket'
  BY <1>1 DEF JoinsAreKnown, NoLeakedSocket
<1>3. CASE disposed
  <2>1. UNCHANGED <<attempts, retryTimer, status>>
    BY <1>3 DEF RetryAfterClose
  <2>2. TransportTypeOK'
    BY <1>1, <2>1 DEF TransportTypeOK
  <2>3. Driven'
    BY <1>1, <1>3, <2>1 DEF Driven
  <2> QED
    BY <1>1, <1>2, <2>2, <2>3
<1>4. CASE ~disposed
  <2>1. Reschedule(afterClose, FALSE) /\ afterClose \in Mode
    BY <1>1, <1>4 DEF RetryAfterClose, TransportTypeOK
  <2>2. /\ retryTimer' \in Mode /\ retryTimer' # None
        /\ status' = "reconnecting"
        /\ attempts' \in 0..MaxJoinAttempts
        /\ retryTimer' = "join" => attempts' < MaxJoinAttempts
    BY <2>1, Scheduled
  <2>3. TransportTypeOK'
    BY <1>1, <2>2 DEF TransportTypeOK
  <2>4. Driven'
    BY <1>1, <1>4, <2>2 DEF Driven
  <2> QED
    BY <1>1, <1>2, <2>3, <2>4
<1> QED
  BY <1>3, <1>4

LEMMA StateChangeStep == TransportInv /\ StateChange => TransportInv'
<1> SUFFICES ASSUME TransportInv, StateChange PROVE TransportInv'
  OBVIOUS
<1> USE TransportAssumption DEF TransportInv, StateChange, joining
<1>1. TransportTypeOK'
  BY DEF TransportTypeOK
<1>2. Driven'
  BY DEF Driven
<1>3. JoinsAreKnown' /\ NoLeakedSocket'
  BY DEF JoinsAreKnown, NoLeakedSocket
<1>4. completedRaids' <= world'
  BY DEF TransportTypeOK
<1> QED
  BY <1>1, <1>2, <1>3, <1>4

LEMMA LeaveStep == TransportInv /\ Leave => TransportInv'
<1> SUFFICES ASSUME TransportInv, Leave PROVE TransportInv'
  OBVIOUS
<1> USE TransportAssumption DEF TransportInv
<1>1. socket' \in [Operation -> {"none", "open", "closing", "closed"}]
  BY DEF Leave, TransportTypeOK, Closing
<1>2. TransportTypeOK'
  <2>1. retryTimer' = None /\ None # "join"
    BY DEF Leave, Mode
  <2>2. /\ disposed' = TRUE /\ status' = "offline" /\ completedRaids' = 0
        /\ activeJoin' = None /\ pendingRoom' = None /\ room' = None /\ observed' = FALSE
        /\ UNCHANGED <<started, afterClose, attempts, mode, sdk, world>>
    BY DEF Leave, Detach
  <2>3. 0 \in 0..MaxRaids
    OBVIOUS
  <2> QED
    BY <1>1, <2>1, <2>2, <2>3 DEF TransportTypeOK
<1> USE DEF Leave, Detach
<1>3. Driven'
  BY DEF Driven
<1>4. JoinsAreKnown'
  BY DEF JoinsAreKnown
<1>5. NoLeakedSocket'
  <2>1. \A o \in Operation : socket'[o] # "open"
    BY DEF NoLeakedSocket, Closing, TransportTypeOK
  <2> QED
    BY <2>1 DEF NoLeakedSocket
<1>6. completedRaids' <= world'
  BY DEF TransportTypeOK
<1> QED
  BY <1>2, <1>3, <1>4, <1>5, <1>6

LEMMA SocketClosesStep ==
    ASSUME TransportInv, NEW o \in Operation, SocketCloses(o)
    PROVE  TransportInv'
<1> USE DEF TransportInv, SocketCloses, client, joining, attached
<1>1. TransportTypeOK'
  BY DEF TransportTypeOK
<1>2. Driven' /\ JoinsAreKnown'
  BY DEF Driven, JoinsAreKnown
<1>3. NoLeakedSocket'
  BY DEF NoLeakedSocket, TransportTypeOK
<1> QED
  BY <1>1, <1>2, <1>3

LEMMA ForgetStep ==
    ASSUME TransportInv, NEW o \in Operation, Forget(o)
    PROVE  TransportInv'
<1> USE DEF TransportInv, Forget, client, joining, attached
<1>1. TransportTypeOK'
  BY DEF TransportTypeOK, Mode
<1>2. Driven' /\ JoinsAreKnown'
  BY DEF Driven, JoinsAreKnown, TransportTypeOK
<1>3. NoLeakedSocket'
  BY DEF NoLeakedSocket, TransportTypeOK
<1> QED
  BY <1>1, <1>2, <1>3

LEMMA RaidCompletedStep == TransportInv /\ RaidCompleted => TransportInv'
<1> SUFFICES ASSUME TransportInv, RaidCompleted PROVE TransportInv'
  OBVIOUS
<1> USE TransportAssumption DEF TransportInv, RaidCompleted, client, joining, attached
<1>1. TransportTypeOK'
  BY DEF TransportTypeOK
<1>2. Driven' /\ JoinsAreKnown' /\ NoLeakedSocket'
  BY DEF Driven, JoinsAreKnown, NoLeakedSocket
<1>3. completedRaids' <= world'
  BY DEF TransportTypeOK
<1> QED
  BY <1>1, <1>2, <1>3

\* The published total, in one step.
NotLess == ~disposed' => completedRaids' >= completedRaids

LEMMA TransportStutters == TransportInv /\ UNCHANGED transportVars => TransportInv'
BY DEF TransportInv, transportVars, TransportTypeOK, Driven, JoinsAreKnown, NoLeakedSocket

LEMMA TransportInductive == TransportInv /\ [TransportNext]_transportVars => TransportInv'
<1> SUFFICES ASSUME TransportInv, [TransportNext]_transportVars PROVE TransportInv'
  OBVIOUS
<1>1. CASE UNCHANGED transportVars
  BY <1>1, TransportStutters
<1>2. ASSUME NEW o \in Operation,
             \/ Connect(o) \/ TimerFires(o)
             \/ RoomCreated(o) \/ JoinRoom(o) \/ JoinRoomTimeout(o)
             \/ \E definitive \in BOOLEAN : JoinFails(o, definitive)
             \/ SocketCloses(o) \/ Forget(o)
      PROVE  TransportInv'
  BY <1>2, ConnectStep, TimerFiresStep, RoomCreatedStep, JoinRoomStep, JoinRoomTimeoutStep,
     JoinFailsStep, SocketClosesStep, ForgetStep
<1>3. CASE StateTimeout \/ RetryAfterClose \/ StateChange \/ ProtocolError \/ Leave \/ RaidCompleted
  BY <1>3, StateTimeoutStep, RetryAfterCloseStep, StateChangeStep, ProtocolErrorStep, LeaveStep,
     RaidCompletedStep
<1>4. ASSUME NEW b \in BOOLEAN, OnDrop(b) \/ OnLeave(b)
      PROVE  TransportInv'
  BY <1>4, OnDropStep, OnLeaveStep
<1> QED
  BY <1>1, <1>2, <1>3, <1>4 DEF TransportNext

\* Only the states of a room and leave() change the total.
LEMMA TotalSticks == TransportInv /\ [TransportNext]_transportVars => [NotLess]_transportVars
<1> SUFFICES ASSUME TransportInv, TransportNext PROVE NotLess
  BY DEF NotLess
<1>1. completedRaids \in Int /\ world \in Int /\ completedRaids <= world
  BY TransportAssumption DEF TransportInv, TransportTypeOK
<1>2. completedRaids' = completedRaids \/ StateChange \/ Leave
  BY DEF TransportNext, Connect, TimerFires, RoomCreated, JoinRoom, JoinRoomTimeout, JoinFails,
         SocketCloses, Forget, StateTimeout, RetryAfterClose, ProtocolError, OnDrop, OnLeave,
         RaidCompleted, client
<1>3. CASE StateChange
  BY <1>1, <1>3 DEF StateChange, NotLess
<1>4. CASE Leave
  BY <1>4 DEF Leave, NotLess
<1> QED
  BY <1>1, <1>2, <1>3, <1>4 DEF NotLess

LEMMA TransportInvariant == TransportSpec => []TransportInv
<1> QED
  BY TransportStarts, TransportInductive, PTL DEF TransportSpec

\* The state of a transport keeps its types for any number of joins under way, and the fast
\* cycle of joins is finite (scheduleRetry).
THEOREM TransportTypeCorrect == TransportSpec => []TransportTypeOK
<1>1. TransportInv => TransportTypeOK
  BY DEF TransportInv
<1> QED
  BY TransportInvariant, <1>1, PTL

\* However late the SDK settles its joins and whatever drops, restarts and leave() interrupt
\* (net/multiplayer.ts open, trackPendingRoom, attachRoom, scheduleRetry): one thing and no two
\* moves the transport on, and every open connection is in its books.
THEOREM ConnectionsAlwaysOwned == TransportSpec => []ConnectionsAreOwned
<1>1. TransportInv => ConnectionsAreOwned
  BY DrivenByOne DEF TransportInv, ConnectionsAreOwned
<1> QED
  BY TransportInvariant, <1>1, PTL

\* A reconnect never shows fewer raids than were shown before (multiplayer.ts:853): the view
\* keeps a total that the world had.
THEOREM RaidsNeverLost == TransportSpec => RaidsNeverShrink
<1>1. TransportInv /\ [TransportNext]_transportVars
         => [~disposed' => completedRaids' >= completedRaids]_transportVars
  BY TotalSticks DEF NotLess
<1> QED
  BY TransportInvariant, <1>1, PTL DEF TransportSpec, RaidsNeverShrink
-----------------------------------------------------------------------------
(*****************************************************************************)
(* The guard. A limiter's table is ordered by last use, and what a key has   *)
(* had beyond its refill is missing from its bucket; so pruning, which cuts  *)
(* idle first entries off, forgets nothing that is still owed, and evicting  *)
(* the first entry evicts the one that was quiet for longest. The slots are  *)
(* the requests that wait.                                                   *)
(*****************************************************************************)
\* A table's entries at time now: no key twice, the latest at the end, each refilled at its
\* last use.
Ordered(entries, keys, limit, clock) ==
    /\ entries \in Seq(Entry(keys, limit))
    /\ \A i \in 1..Len(entries) :
          entries[i].updatedAt = entries[i].lastSeenAt /\ entries[i].lastSeenAt <= clock
    /\ \A i, j \in 1..Len(entries) :
          i < j => /\ entries[i].key # entries[j].key
                   /\ entries[i].lastSeenAt <= entries[j].lastSeenAt

\* What key has had beyond its refill is missing from its bucket.
Paid(x, entry, clock, limit) ==
    x = 0 \/ x + entry.tokens + (clock - entry.updatedAt) * limit <= limit * Window

Table(keys, limit) ==
    [entries : Seq(Entry(keys, limit)), lastTimestamp : 0..MaxClock, nextPruneAt : Nat]

Has(entries, e) == \E i \in 1..Len(entries) : entries[i] = e

Listed(entries, key) == \E i \in 1..Len(entries) : entries[i].key = key

TableInv(table, owed, keys, limit, max) ==
    /\ table \in Table(keys, limit)
    /\ Len(table.entries) <= max
    /\ Ordered(table.entries, keys, limit, table.lastTimestamp)
    /\ owed \in [keys -> Nat]
    /\ \A k \in keys : ~Listed(table.entries, k) => owed[k] = 0
    /\ \A i \in 1..Len(table.entries) :
          Paid(owed[table.entries[i].key], table.entries[i], table.lastTimestamp, limit)

-----------------------------------------------------------------------------
\* The buckets count with the Cardinality of their own instance of FiniteSets.
LEMMA SameCardinality ==
    ASSUME NEW limit, NEW max, NEW S
    PROVE  Rate(limit, max)!Cardinality(S) = Cardinality(S)
BY DEF Rate!Cardinality, Cardinality

LEMMA CutIsPrefix ==
    ASSUME NEW S, NEW entries \in Seq(S), NEW limit, NEW max, NEW clock
    PROVE  LET cut == Rate(limit, max)!IdlePrefix(entries, clock) IN
           /\ Cardinality(cut) \in 0..Len(entries)
           /\ cut = 1..Cardinality(cut)
<1> DEFINE cut == Rate(limit, max)!IdlePrefix(entries, clock)
<1>1. Len(entries) \in Nat /\ DOMAIN entries = 1..Len(entries)
  BY LenProperties
<1>2. cut \subseteq 1..Len(entries) /\ \A i \in cut : \A j \in 1..i : j \in cut
  BY <1>1 DEF Rate!IdlePrefix
<1> HIDE DEF cut
<1>3. Cardinality(cut) \in 0..Len(entries) /\ cut = 1..Cardinality(cut)
  BY <1>1, <1>2, PrefixIsInterval
<1> QED
  BY <1>3 DEF cut

\* What is left of an ordered table after a cut is ordered, also later.
LEMMA CutKeepsOrder ==
    ASSUME AdmissionAssumption, NEW keys, NEW limit, NEW last \in Nat, NEW clock \in Nat,
           last <= clock, NEW old, NEW new \in Seq(Entry(keys, limit)), NEW k,
           Ordered(old, keys, limit, last), Cut(old, new, k)
    PROVE  Ordered(new, keys, limit, clock)
<1>1. Len(old) \in Nat /\ \A i \in 1..Len(old) : old[i] \in Entry(keys, limit)
  BY LenProperties, ElementOfSeq DEF Ordered
<1>2. k \in 0..Len(old) /\ Len(new) = Len(old) - k
  BY DEF Cut
<1>3. ASSUME NEW i \in 1..Len(new) PROVE new[i] = old[k + i] /\ k + i \in 1..Len(old)
  <2>1. k + i \in 1..Len(old)
    BY <1>1, <1>2
  <2> QED
    BY <2>1 DEF Cut
<1>4. ASSUME NEW i \in 1..Len(new)
      PROVE  new[i].updatedAt = new[i].lastSeenAt /\ new[i].lastSeenAt <= clock
  <2>1. new[i] = old[k + i] /\ k + i \in 1..Len(old)
    BY <1>3
  <2>2. old[k + i].updatedAt = old[k + i].lastSeenAt /\ old[k + i].lastSeenAt <= last
    BY <2>1 DEF Ordered
  <2>3. old[k + i].lastSeenAt \in 0..MaxClock
    BY <2>1, <1>1 DEF Entry
  <2> QED
    BY <2>1, <2>2, <2>3 DEF AdmissionAssumption
<1>5. ASSUME NEW i \in 1..Len(new), NEW j \in 1..Len(new), i < j
      PROVE  new[i].key # new[j].key /\ new[i].lastSeenAt <= new[j].lastSeenAt
  <2>1. /\ new[i] = old[k + i] /\ k + i \in 1..Len(old)
        /\ new[j] = old[k + j] /\ k + j \in 1..Len(old)
    BY <1>3
  <2>2. k + i < k + j
    BY <1>5, <1>1, <1>2
  <2> QED
    BY <2>1, <2>2 DEF Ordered
<1> QED
  BY <1>4, <1>5 DEF Ordered

\* new is old without first entries that are idle.
IdleCut(old, new, clock) ==
    \E k : Cut(old, new, k) /\ \A i \in 1..k : old[i].lastSeenAt <= clock - Ttl

IsPruned(table, pruned, keys, limit, clock) ==
    /\ pruned \in Table(keys, limit)
    /\ pruned.lastTimestamp = clock
    /\ Ordered(pruned.entries, keys, limit, clock)
    /\ IdleCut(table.entries, pruned.entries, clock)

\* Pruning removes the first k entries, all idle, and keeps the others in their order.
LEMMA PrunedIs ==
    ASSUME AdmissionAssumption,
           NEW limit, NEW max, NEW keys, NEW clock \in 0..MaxClock,
           NEW table \in Table(keys, limit),
           table.lastTimestamp <= clock,
           Ordered(table.entries, keys, limit, table.lastTimestamp)
    PROVE  IsPruned(table, Rate(limit, max)!Pruned(table, clock), keys, limit, clock)
<1> DEFINE old == table.entries
           pruned == Rate(limit, max)!Pruned(table, clock)
           idle == Rate(limit, max)!IdlePrefix(old, clock)
           E == Entry(keys, limit)
<1>1. old \in Seq(E) /\ Len(old) \in Nat /\ \A i \in 1..Len(old) : old[i] \in E
  BY LenProperties, ElementOfSeq DEF Ordered
<1>2. CASE clock >= table.nextPruneAt \/ Len(old) >= max
  <2> DEFINE k == Cardinality(idle)
  <2>1. k \in 0..Len(old) /\ idle = 1..k
    BY <1>1, CutIsPrefix
  <2>2. \A i \in 1..k : old[i].lastSeenAt <= clock - Ttl
    <3>1. \A i \in idle : i \in DOMAIN old /\ \A j \in 1..i : old[j].lastSeenAt <= clock - Ttl
      BY DEF Rate!IdlePrefix
    <3>2. \A i \in 1..k : i \in 1..i
      BY <2>1
    <3> QED
      BY <3>1, <3>2, <2>1
  <2>3. pruned = [entries |-> SubSeq(old, k + 1, Len(old)), lastTimestamp |-> clock,
                  nextPruneAt |-> clock + Window]
    BY <1>2, SameCardinality DEF Rate!Pruned
  <2> HIDE DEF k, pruned, idle
  <2>4. SubSeq(old, k + 1, Len(old)) \in Seq(E) /\ Cut(old, SubSeq(old, k + 1, Len(old)), k)
    BY <2>1, <1>1, SuffixIsCut
  <2>5. clock + Window \in Nat
    BY DEF AdmissionAssumption
  <2>6. pruned \in Table(keys, limit) /\ pruned.lastTimestamp = clock
    BY <2>3, <2>4, <2>5 DEF Table
  <2>7. pruned.entries \in Seq(E) /\ Cut(old, pruned.entries, k)
    BY <2>3, <2>4
  <2>8. Ordered(pruned.entries, keys, limit, clock)
    <3>1. clock \in Nat /\ table.lastTimestamp \in Nat
      BY DEF Table, AdmissionAssumption
    <3> QED
      BY <2>7, <3>1, CutKeepsOrder
  <2> QED
    BY <2>2, <2>6, <2>7, <2>8 DEF pruned, IdleCut, IsPruned
<1>3. CASE ~(clock >= table.nextPruneAt \/ Len(old) >= max)
  <2>1. pruned = [table EXCEPT !.lastTimestamp = clock]
    BY <1>3 DEF Rate!Pruned
  <2> HIDE DEF pruned
  <2>2. pruned \in Table(keys, limit) /\ pruned.lastTimestamp = clock /\ pruned.entries = old
    BY <2>1 DEF Table
  <2>3. Cut(old, pruned.entries, 0)
    <3>1. 0 \in 0..Len(old) /\ Len(old) = Len(old) - 0 /\ \A i \in 1..Len(old) : 0 + i = i
      BY <1>1
    <3> QED
      BY <3>1, <2>2 DEF Cut
  <2>4. Ordered(pruned.entries, keys, limit, clock)
    <3>1. clock \in Nat /\ table.lastTimestamp \in Nat
      BY DEF Table, AdmissionAssumption
    <3> QED
      BY <2>2, <2>3, <1>1, <3>1, CutKeepsOrder
  <2> QED
    <3>1. \A i \in 1..0 : old[i].lastSeenAt <= clock - Ttl
      OBVIOUS
    <3> QED
      BY <2>2, <2>3, <2>4, <3>1 DEF pruned, IdleCut, IsPruned
<1> QED
  BY <1>2, <1>3

-----------------------------------------------------------------------------
\* What a table is left with when the bucket at place p is taken out.
Without(old, new, p) ==
    /\ Len(new) = Len(old) - 1
    /\ \A i \in 1..Len(new) : new[i] = old[IF i < p THEN i ELSE i + 1]

LEMMA RemovalIs ==
    ASSUME NEW S, NEW old \in Seq(S), NEW p \in 1..Len(old)
    PROVE  LET new == SubSeq(old, 1, p - 1) \o SubSeq(old, p + 1, Len(old)) IN
           new \in Seq(S) /\ Without(old, new, p)
<1> DEFINE n    == Len(old)
           low  == SubSeq(old, 1, p - 1)
           high == SubSeq(old, p + 1, n)
           new  == low \o high
<1>1. n \in Nat /\ \A i \in 1..n : old[i] \in S
  BY LenProperties, ElementOfSeq
<1> HIDE DEF n
<1>2. p \in 1..n
  BY DEF n
<1>3. low \in Seq(S) /\ Len(low) = p - 1 /\ \A i \in 1..p - 1 : low[i] = old[i]
  <2>1. 1 \in Int /\ p - 1 \in Int /\ \A i \in 1..p - 1 : old[i] \in S
    BY <1>1, <1>2
  <2>2. /\ low \in Seq(S) /\ Len(low) = IF 1 <= p - 1 THEN (p - 1) - 1 + 1 ELSE 0
        /\ \A i \in 1..(p - 1) - 1 + 1 : low[i] = old[1 + i - 1]
    BY <2>1, SubSeqProperties
  <2>3. Len(low) = p - 1
    BY <2>2, <1>1, <1>2
  <2>4. ASSUME NEW i \in 1..p - 1 PROVE low[i] = old[i]
    <3>1. i \in 1..(p - 1) - 1 + 1 /\ 1 + i - 1 = i
      BY <1>1, <1>2
    <3> QED
      BY <3>1, <2>2
  <2> QED
    BY <2>2, <2>3, <2>4
<1>4. high \in Seq(S) /\ Len(high) = n - p /\ \A i \in 1..n - p : high[i] = old[p + i]
  <2>1. p \in 0..Len(old)
    BY <1>1, <1>2 DEF n
  <2>2. high \in Seq(S) /\ Cut(old, high, p)
    BY <2>1, SuffixIsCut DEF n
  <2> QED
    BY <2>2 DEF Cut, n
<1> HIDE DEF low, high
<1>5. /\ new \in Seq(S) /\ Len(new) = Len(low) + Len(high)
      /\ \A i \in 1..Len(low) + Len(high) :
            new[i] = IF i <= Len(low) THEN low[i] ELSE high[i - Len(low)]
  BY <1>3, <1>4, ConcatProperties
<1>6. Len(new) = n - 1
  BY <1>3, <1>4, <1>5, <1>1, <1>2
<1>7. ASSUME NEW i \in 1..Len(new) PROVE new[i] = old[IF i < p THEN i ELSE i + 1]
  <2>1. new[i] = IF i <= p - 1 THEN low[i] ELSE high[i - (p - 1)]
    BY <1>3, <1>4, <1>5
  <2>2. CASE i < p
    <3>1. i \in 1..p - 1 /\ i <= p - 1
      BY <2>2, <1>2, <1>1, <1>6
    <3> QED
      BY <3>1, <2>2, <2>1, <1>3
  <2>3. CASE ~(i < p)
    <3>1. i - (p - 1) \in 1..n - p /\ ~(i <= p - 1) /\ p + (i - (p - 1)) = i + 1
      BY <2>3, <1>2, <1>1, <1>6
    <3>2. high[i - (p - 1)] = old[p + (i - (p - 1))]
      BY <3>1, <1>4
    <3> QED
      BY <3>1, <3>2, <2>3, <2>1
  <2> QED
    BY <2>2, <2>3
<1> QED
  BY <1>5, <1>6, <1>7 DEF Without, n, low, high

LEMMA RemovalKeepsOrder ==
    ASSUME AdmissionAssumption, NEW keys, NEW limit, NEW clock \in Nat,
           NEW old, NEW new \in Seq(Entry(keys, limit)), NEW p \in 1..Len(old),
           Ordered(old, keys, limit, clock), Without(old, new, p)
    PROVE  Ordered(new, keys, limit, clock)
<1> DEFINE place(i) == IF i < p THEN i ELSE i + 1
<1>1. Len(old) \in Nat
  BY LenProperties DEF Ordered
<1>2. ASSUME NEW i \in 1..Len(new) PROVE new[i] = old[place(i)] /\ place(i) \in 1..Len(old)
  BY <1>1 DEF Without
<1>3. ASSUME NEW i \in 1..Len(new)
      PROVE  new[i].updatedAt = new[i].lastSeenAt /\ new[i].lastSeenAt <= clock
  BY <1>2 DEF Ordered
<1>4. ASSUME NEW i \in 1..Len(new), NEW j \in 1..Len(new), i < j
      PROVE  new[i].key # new[j].key /\ new[i].lastSeenAt <= new[j].lastSeenAt
  <2>1. place(i) < place(j)
    BY <1>4, <1>1
  <2>2. /\ new[i] = old[place(i)] /\ place(i) \in 1..Len(old)
        /\ new[j] = old[place(j)] /\ place(j) \in 1..Len(old)
    BY <1>2
  <2> HIDE DEF place
  <2> QED
    BY <2>1, <2>2 DEF Ordered
<1> QED
  BY <1>3, <1>4 DEF Ordered

LEMMA AppendKeepsOrder ==
    ASSUME AdmissionAssumption, NEW keys, NEW limit, NEW clock \in Nat, NEW old,
           NEW bucket \in Entry(keys, limit),
           Ordered(old, keys, limit, clock),
           bucket.updatedAt = clock, bucket.lastSeenAt = clock,
           \A i \in 1..Len(old) : old[i].key # bucket.key
    PROVE  Ordered(Append(old, bucket), keys, limit, clock)
<1> DEFINE E == Entry(keys, limit)
           new == Append(old, bucket)
<1>1. old \in Seq(E) /\ Len(old) \in Nat
  BY LenProperties DEF Ordered
<1>2. /\ new \in Seq(E) /\ Len(new) = Len(old) + 1
      /\ \A i \in 1..Len(old) : new[i] = old[i]
      /\ new[Len(old) + 1] = bucket
  BY <1>1, AppendProperties
<1> HIDE DEF E, new
<1>3. ASSUME NEW i \in 1..Len(new) PROVE i \in 1..Len(old) \/ i = Len(old) + 1
  BY <1>1, <1>2
<1>4. ASSUME NEW i \in 1..Len(new)
      PROVE  new[i].updatedAt = new[i].lastSeenAt /\ new[i].lastSeenAt <= clock
  BY <1>2, <1>3 DEF Ordered
<1>5. ASSUME NEW i \in 1..Len(new), NEW j \in 1..Len(new), i < j
      PROVE  new[i].key # new[j].key /\ new[i].lastSeenAt <= new[j].lastSeenAt
  <2>1. i \in 1..Len(old)
    BY <1>5, <1>1, <1>2
  <2>2. CASE j \in 1..Len(old)
    BY <2>1, <2>2, <1>2, <1>5 DEF Ordered
  <2>3. CASE j = Len(old) + 1
    BY <2>1, <2>3, <1>2 DEF Ordered
  <2> QED
    BY <2>2, <2>3, <1>3
<1> QED
  BY <1>2, <1>4, <1>5 DEF Ordered, E, new

\* A known key has one place.
LEMMA PlaceIs ==
    ASSUME NEW limit, NEW max, NEW keys, NEW clock, NEW entries, NEW key,
           Ordered(entries, keys, limit, clock), Rate(limit, max)!Known(entries, key)
    PROVE  LET p == Rate(limit, max)!PlaceOf(entries, key) IN
           /\ p \in 1..Len(entries) /\ entries[p].key = key
           /\ \A i \in 1..Len(entries) : entries[i].key = key => i = p
<1> DEFINE p == Rate(limit, max)!PlaceOf(entries, key)
<1>1. DOMAIN entries = 1..Len(entries) /\ Len(entries) \in Nat
  BY LenProperties DEF Ordered
<1>2. p \in DOMAIN entries /\ entries[p].key = key
  <2>1. \E i \in DOMAIN entries : entries[i].key = key
    BY DEF Rate!Known
  <2> QED
    BY <2>1 DEF Rate!PlaceOf
<1> HIDE DEF p
<1>3. ASSUME NEW i \in 1..Len(entries), entries[i].key = key PROVE i = p
  <2>1. p \in 1..Len(entries)
    BY <1>1, <1>2
  <2>2. ~(i < p) /\ ~(p < i)
    BY <2>1, <1>2, <1>3 DEF Ordered
  <2> QED
    BY <2>1, <2>2, <1>1
<1> QED
  BY <1>1, <1>2, <1>3 DEF p

\* The bucket is the latest in its table, which loses nothing but the bucket's earlier entry
\* or, when it was full of others, its first.
IsReinserted(old, new, bucket, keys, limit, max, clock) ==
    /\ Ordered(new, keys, limit, clock) /\ Len(new) <= max
    /\ Has(new, bucket)
    /\ \A i \in 1..Len(new) :
          new[i] = bucket \/ (Has(old, new[i]) /\ new[i].key # bucket.key)
    /\ \A i \in 1..Len(old) :
          \/ old[i].key = bucket.key \/ Has(new, old[i])
          \/ /\ i = 1 /\ Len(new) = max
             /\ \A j \in 1..Len(new) : old[1].lastSeenAt <= new[j].lastSeenAt

LEMMA ReinsertedIs ==
    ASSUME AdmissionAssumption, NEW limit, NEW max \in Nat \ {0}, NEW keys, NEW clock \in Nat,
           NEW old, NEW bucket \in Entry(keys, limit),
           Ordered(old, keys, limit, clock), Len(old) <= max,
           bucket.updatedAt = clock, bucket.lastSeenAt = clock
    PROVE  IsReinserted(old, Rate(limit, max)!Reinserted(old, bucket), bucket, keys, limit,
                        max, clock)
<1> DEFINE E   == Entry(keys, limit)
           new == Rate(limit, max)!Reinserted(old, bucket)
<1>1. /\ old \in Seq(E) /\ Len(old) \in Nat /\ DOMAIN old = 1..Len(old)
      /\ \A i \in 1..Len(old) : old[i] \in E
  BY LenProperties, ElementOfSeq DEF Ordered
\* What all three cases share.
<1>2. ASSUME NEW rest \in Seq(E), Ordered(rest, keys, limit, clock), Len(rest) + 1 <= max,
             new = Append(rest, bucket),
             \A i \in 1..Len(rest) : Has(old, rest[i]) /\ rest[i].key # bucket.key
      PROVE  /\ Ordered(new, keys, limit, clock) /\ Len(new) = Len(rest) + 1 /\ Len(new) <= max
             /\ Has(new, bucket)
             /\ \A i \in 1..Len(new) :
                   new[i] = bucket \/ (Has(old, new[i]) /\ new[i].key # bucket.key)
             /\ \A i \in 1..Len(rest) : Has(new, rest[i])
             /\ \A j \in 1..Len(new) : new[j] = bucket \/ (j \in 1..Len(rest) /\ new[j] = rest[j])
  <2>1. Ordered(new, keys, limit, clock)
    BY <1>2, AppendKeepsOrder
  <2>2. /\ Len(rest) \in Nat /\ Len(new) = Len(rest) + 1
        /\ \A i \in 1..Len(rest) : new[i] = rest[i]
        /\ new[Len(rest) + 1] = bucket
    BY <1>2, AppendProperties, LenProperties
  <2> HIDE DEF new, E
  <2>3. Has(new, bucket)
    BY <2>2 DEF Has
  <2>4. \A i \in 1..Len(new) : i \in 1..Len(rest) \/ i = Len(rest) + 1
    BY <2>2
  <2>5. \A i \in 1..Len(new) :
           new[i] = bucket \/ (Has(old, new[i]) /\ new[i].key # bucket.key)
    BY <2>2, <2>4, <1>2
  <2>6. \A i \in 1..Len(rest) : Has(new, rest[i])
    BY <2>2 DEF Has
  <2>7. \A j \in 1..Len(new) : new[j] = bucket \/ (j \in 1..Len(rest) /\ new[j] = rest[j])
    BY <2>2, <2>4
  <2> QED
    BY <2>1, <2>2, <2>3, <2>5, <2>6, <2>7, <1>2
<1>3. CASE Rate(limit, max)!Known(old, bucket.key)
  <2> DEFINE p    == Rate(limit, max)!PlaceOf(old, bucket.key)
             rest == SubSeq(old, 1, p - 1) \o SubSeq(old, p + 1, Len(old))
  <2>1. /\ p \in 1..Len(old) /\ old[p].key = bucket.key
        /\ \A i \in 1..Len(old) : old[i].key = bucket.key => i = p
    BY <1>3, PlaceIs
  <2>2. new = Append(rest, bucket)
    BY <1>3 DEF Rate!Reinserted
  <2> HIDE DEF p, new
  <2>3. rest \in Seq(E) /\ Without(old, rest, p)
    BY <2>1, <1>1, RemovalIs
  <2> HIDE DEF rest
  <2>4. Ordered(rest, keys, limit, clock)
    BY <2>1, <2>3, RemovalKeepsOrder
  <2>5. Len(rest) + 1 <= max /\ Len(rest) = Len(old) - 1
    BY <2>3, <1>1 DEF Without
  <2>6. ASSUME NEW i \in 1..Len(rest) PROVE Has(old, rest[i]) /\ rest[i].key # bucket.key
    <3>1. (IF i < p THEN i ELSE i + 1) \in 1..Len(old) /\ (IF i < p THEN i ELSE i + 1) # p
      BY <2>5, <2>1, <1>1
    <3>2. rest[i] = old[IF i < p THEN i ELSE i + 1]
      BY <2>3 DEF Without
    <3> QED
      BY <3>1, <3>2, <2>1 DEF Has
  <2>7. ASSUME NEW i \in 1..Len(old), i # p PROVE \E j \in 1..Len(rest) : rest[j] = old[i]
    <3>1. CASE i < p
      <4>1. i \in 1..Len(rest)
        BY <3>1, <2>5, <2>1, <1>1
      <4> QED
        BY <4>1, <3>1, <2>3 DEF Without
    <3>2. CASE p < i
      <4>1. i - 1 \in 1..Len(rest) /\ ~(i - 1 < p) /\ (i - 1) + 1 = i
        BY <3>2, <2>5, <2>1, <1>1
      <4> QED
        BY <4>1, <2>3 DEF Without
    <3> QED
      BY <3>1, <3>2, <2>7, <2>1, <1>1
  <2>8. /\ Ordered(new, keys, limit, clock) /\ Len(new) <= max
        /\ Has(new, bucket)
        /\ \A i \in 1..Len(new) :
              new[i] = bucket \/ (Has(old, new[i]) /\ new[i].key # bucket.key)
        /\ \A i \in 1..Len(rest) : Has(new, rest[i])
    BY <2>2, <2>3, <2>4, <2>5, <2>6, <1>2 DEF new
  <2>9. \A i \in 1..Len(old) : old[i].key = bucket.key \/ Has(new, old[i])
    BY <2>1, <2>7, <2>8
  <2> QED
    BY <2>8, <2>9 DEF new, IsReinserted
<1>4. CASE ~Rate(limit, max)!Known(old, bucket.key) /\ Len(old) < max
  <2>1. ~(Len(old) >= max)
    BY <1>4, <1>1
  <2>2. new = Append(old, bucket)
    BY <1>4, <2>1 DEF Rate!Reinserted, Rate!Evicted
  <2>3. \A i \in 1..Len(old) : Has(old, old[i]) /\ old[i].key # bucket.key
    BY <1>4, <1>1 DEF Has, Rate!Known
  <2>4. Len(old) + 1 <= max
    BY <1>4, <1>1
  <2> HIDE DEF new
  <2>5. /\ Ordered(new, keys, limit, clock) /\ Len(new) <= max
        /\ Has(new, bucket)
        /\ \A i \in 1..Len(new) :
              new[i] = bucket \/ (Has(old, new[i]) /\ new[i].key # bucket.key)
        /\ \A i \in 1..Len(old) : Has(new, old[i])
    BY <1>1, <2>2, <2>3, <2>4, <1>2 DEF new
  <2> QED
    BY <2>5 DEF new, IsReinserted
<1>5. CASE ~Rate(limit, max)!Known(old, bucket.key) /\ ~(Len(old) < max)
  <2> DEFINE rest == Tail(old)
  <2>1. Len(old) = max /\ Len(old) >= max /\ old # <<>> /\ 1 \in 1..Len(old)
    BY <1>5, <1>1, EmptySeq
  <2>2. new = Append(rest, bucket)
    BY <1>5, <2>1 DEF Rate!Reinserted, Rate!Evicted
  <2>3. /\ rest \in Seq(E) /\ Len(rest) = Len(old) - 1
        /\ \A i \in 1..Len(rest) : rest[i] = old[i + 1]
    BY <1>1, <2>1, HeadTailProperties
  <2> HIDE DEF rest, new
  <2>4. Cut(old, rest, 1)
    <3>1. 1 \in 0..Len(old) /\ \A i \in 1..Len(rest) : 1 + i = i + 1
      BY <2>1, <2>3, <1>1
    <3> QED
      BY <3>1, <2>3 DEF Cut
  <2>5. Ordered(rest, keys, limit, clock)
    <3>1. clock <= clock
      OBVIOUS
    <3> QED
      BY <3>1, <2>3, <2>4, CutKeepsOrder
  <2>6. Len(rest) + 1 = max
    BY <2>1, <2>3, <1>1
  <2>7. ASSUME NEW i \in 1..Len(rest)
        PROVE  /\ Has(old, rest[i]) /\ rest[i].key # bucket.key
               /\ old[1].lastSeenAt <= rest[i].lastSeenAt
    <3>1. rest[i] = old[i + 1] /\ i + 1 \in 1..Len(old) /\ 1 < i + 1
      BY <2>3, <1>1
    <3> QED
      BY <3>1, <1>5, <1>1, <2>1 DEF Has, Rate!Known, Ordered
  <2>8. /\ Ordered(new, keys, limit, clock) /\ Len(new) = max /\ Len(new) <= max
        /\ Has(new, bucket)
        /\ \A i \in 1..Len(new) :
              new[i] = bucket \/ (Has(old, new[i]) /\ new[i].key # bucket.key)
        /\ \A i \in 1..Len(rest) : Has(new, rest[i])
        /\ \A j \in 1..Len(new) : new[j] = bucket \/ (j \in 1..Len(rest) /\ new[j] = rest[j])
    BY <2>2, <2>3, <2>5, <2>6, <2>7, <1>2 DEF new
  <2>9. \A j \in 1..Len(new) : old[1].lastSeenAt <= new[j].lastSeenAt
    <3>1. old[1].lastSeenAt <= bucket.lastSeenAt
      BY <2>1 DEF Ordered
    <3> QED
      BY <3>1, <2>7, <2>8
  <2>10. \A i \in 1..Len(old) : i = 1 \/ Has(new, old[i])
    <3>1. SUFFICES ASSUME NEW i \in 1..Len(old), i # 1 PROVE Has(new, old[i])
      OBVIOUS
    <3>2. i - 1 \in 1..Len(rest) /\ (i - 1) + 1 = i
      BY <3>1, <2>3, <1>1
    <3> QED
      BY <3>2, <2>3, <2>8
  <2> QED
    BY <2>8, <2>9, <2>10 DEF new, IsReinserted
<1> QED
  BY <1>3, <1>4, <1>5

-----------------------------------------------------------------------------
LEMMA KnownIsListed ==
    ASSUME NEW limit, NEW max, NEW S, NEW entries \in Seq(S), NEW key
    PROVE  Rate(limit, max)!Known(entries, key) <=> Listed(entries, key)
<1>1. DOMAIN entries = 1..Len(entries)
  BY LenProperties
<1> QED
  BY <1>1 DEF Rate!Known, Listed

LEMMA Products ==
    ASSUME NEW a \in Nat, NEW b \in Nat, NEW n \in Nat
    PROVE  /\ a * n \in Nat
           /\ (a + b) * n = a * n + b * n
           /\ a <= b => a * n <= b * n
OBVIOUS

\* As time passes, what was had beyond the refill drains as the bucket fills; when the bucket
\* has been idle for the retention time, nothing of it is left.
LEMMA Drains ==
    ASSUME AdmissionAssumption, NEW limit \in Nat \ {0}, NEW x \in Nat,
           NEW last \in Nat, NEW later \in Nat, last <= later, NEW e,
           e.tokens \in Nat, e.updatedAt \in Nat, e.updatedAt <= last, Paid(x, e, last, limit)
    PROVE  LET y == FromZero(x - (later - last) * limit) IN
           /\ y \in Nat
           /\ Paid(y, e, later, limit)
           /\ e.updatedAt <= later - Ttl => y = 0
<1> DEFINE u == e.updatedAt
           t == e.tokens
           y == FromZero(x - (later - last) * limit)
<1>1. /\ (later - last) * limit \in Nat /\ (last - u) * limit \in Nat
      /\ (later - u) * limit = (later - last) * limit + (last - u) * limit
  <2>1. later - last \in Nat /\ last - u \in Nat /\ (later - last) + (last - u) = later - u
    OBVIOUS
  <2> HIDE DEF u
  <2> QED
    BY <2>1, Products
<1>2. Window \in Nat /\ Ttl >= 2 * Window /\ Ttl \in Nat /\ limit * Window = Window * limit
      /\ Window * limit \in Nat
  BY DEF AdmissionAssumption
<1>3. y \in Nat
  BY <1>1 DEF FromZero
<1>4. Paid(y, e, later, limit)
  <2>1. CASE x <= (later - last) * limit
    <3>1. y = 0
      BY <2>1, <1>1 DEF FromZero
    <3> QED
      BY <3>1 DEF Paid
  <2>2. CASE ~(x <= (later - last) * limit)
    <3>1. y = x - (later - last) * limit /\ x # 0
      BY <2>2, <1>1 DEF FromZero
    <3>2. x + t + (last - u) * limit <= limit * Window
      BY <3>1 DEF Paid
    <3>3. y + t + (later - u) * limit = x + t + (last - u) * limit
      BY ONLY <3>1, <1>1, x \in Nat, t \in Nat
    <3> QED
      BY <3>2, <3>3 DEF Paid
  <2> QED
    BY <2>1, <2>2
<1>5. ASSUME e.updatedAt <= later - Ttl PROVE y = 0
  <2>1. SUFFICES ASSUME x > (later - last) * limit PROVE FALSE
    BY <1>1 DEF FromZero
  <2>2. x + t + (last - u) * limit <= Window * limit
    BY <2>1, <1>1, <1>2 DEF Paid
  <2>3. \A p, q, w \in Nat : x > p /\ x + t + q <= w => p < w /\ q < w
    BY ONLY x \in Nat, t \in Nat
  <2>4. (later - last) * limit < Window * limit /\ (last - u) * limit < Window * limit
    <3> HIDE DEF t, u
    <3> QED
      BY ONLY <2>1, <2>2, <2>3, <1>1, <1>2
  <2>5. last - u < Window
    <3>1. SUFFICES ASSUME Window <= last - u PROVE FALSE
      BY <1>2
    <3>2. Window * limit <= (last - u) * limit
      BY <3>1, <1>2, Products
    <3> QED
      BY ONLY <3>2, <2>4, <1>1, <1>2
  <2>6. Window <= later - last /\ later - last \in Nat
    BY <2>5, <1>5, <1>2
  <2>7. Window * limit <= (later - last) * limit
    BY <2>6, <1>2, Products
  <2> QED
    BY ONLY <2>7, <2>4, <1>1, <1>2
<1> QED
  BY <1>3, <1>4, <1>5

\* A bucket filled up to now, and what is left of it when it serves a request or not.
Filled(bucket, x, clock, limit) ==
    /\ bucket.tokens \in 0..limit * Window
    /\ bucket.updatedAt = clock
    /\ x = 0 \/ x + bucket.tokens <= limit * Window

Served(bucket) ==
    IF bucket.tokens >= Window THEN [bucket EXCEPT !.tokens = @ - Window] ELSE bucket

LEMMA ServingIsPaid ==
    ASSUME AdmissionAssumption, NEW keys, NEW limit \in Nat \ {0}, NEW x \in Nat,
           NEW clock \in Nat, NEW bucket \in Entry(keys, limit), Filled(bucket, x, clock, limit)
    PROVE  LET y == x + IF bucket.tokens >= Window THEN Window ELSE 0 IN
           /\ Served(bucket) \in Entry(keys, limit)
           /\ Served(bucket).key = bucket.key
           /\ Served(bucket).updatedAt = bucket.updatedAt
           /\ Served(bucket).lastSeenAt = bucket.lastSeenAt
           /\ y \in Nat
           /\ Paid(y, Served(bucket), clock, limit)
<1> DEFINE y == x + IF bucket.tokens >= Window THEN Window ELSE 0
<1>1. /\ Window \in Nat /\ limit * Window \in Nat
      /\ bucket.tokens \in Nat /\ bucket.tokens <= limit * Window
      /\ (clock - clock) * limit = 0
  BY DEF AdmissionAssumption, Filled
<1>2. CASE bucket.tokens >= Window
  <2>1. Served(bucket) = [bucket EXCEPT !.tokens = bucket.tokens - Window]
    BY <1>2 DEF Served
  <2>2. bucket.tokens - Window \in 0..(limit * Window)
    BY <1>1, <1>2
  <2>3. /\ Served(bucket) \in Entry(keys, limit)
        /\ Served(bucket).key = bucket.key
        /\ Served(bucket).updatedAt = bucket.updatedAt
        /\ Served(bucket).lastSeenAt = bucket.lastSeenAt
        /\ Served(bucket).tokens = bucket.tokens - Window
    BY <2>1, <2>2 DEF Entry
  <2>4. y = x + Window /\ y \in Nat
    BY <1>1, <1>2
  <2>5. x + bucket.tokens <= limit * Window
    BY <1>1 DEF Filled
  <2>6. y + Served(bucket).tokens + 0 <= limit * Window
    BY ONLY <2>3, <2>4, <2>5, <1>1, x \in Nat
  <2>7. Paid(y, Served(bucket), clock, limit)
    BY <2>3, <2>6, <1>1 DEF Paid, Filled
  <2> QED
    BY <2>3, <2>4, <2>7
<1>3. CASE ~(bucket.tokens >= Window)
  <2>1. Served(bucket) = bucket /\ y = x
    BY <1>3 DEF Served
  <2>2. x = 0 \/ x + bucket.tokens + 0 <= limit * Window
    BY <1>1 DEF Filled
  <2> QED
    BY <2>1, <2>2, <1>1 DEF Paid, Filled
<1> QED
  BY <1>2, <1>3

\* What a refill makes of a bucket that is paid for.
LEMMA RefillIsPaid ==
    ASSUME AdmissionAssumption, NEW keys, NEW limit \in Nat \ {0}, NEW max, NEW x \in Nat,
           NEW clock \in 0..MaxClock, NEW e \in Entry(keys, limit), e.updatedAt <= clock,
           Paid(x, e, clock, limit)
    PROVE  LET bucket == Rate(limit, max)!Refilled(e, clock) IN
           /\ bucket \in Entry(keys, limit) /\ bucket.key = e.key
           /\ bucket.lastSeenAt = clock
           /\ Filled(bucket, x, clock, limit)
<1> DEFINE gain   == (clock - e.updatedAt) * limit
           full   == limit * Window
           tokens == Rate(limit, max)!Smaller(full, e.tokens + gain)
           bucket == Rate(limit, max)!Refilled(e, clock)
<1>1. full \in Nat /\ e.tokens \in Nat /\ e.updatedAt \in Nat /\ clock \in Nat
  BY DEF AdmissionAssumption, Entry
<1>2. gain \in Nat
  <2>1. clock - e.updatedAt \in Nat
    BY <1>1
  <2> QED
    BY <2>1, Products
<1>3. bucket = [e EXCEPT !.tokens = tokens, !.updatedAt = clock, !.lastSeenAt = clock]
  BY DEF Rate!Refilled, Rate!Full
<1>4. x = 0 \/ x + e.tokens + gain <= full
  BY DEF Paid
<1> HIDE DEF gain, full
<1>5. tokens \in 0..full /\ tokens <= e.tokens + gain
  BY <1>1, <1>2 DEF Rate!Smaller
<1> HIDE DEF tokens
<1>6. bucket \in Entry(keys, limit) /\ bucket.key = e.key /\ bucket.lastSeenAt = clock
  BY <1>3, <1>5 DEF Entry, full
<1>7. bucket.tokens = tokens /\ bucket.updatedAt = clock
  BY <1>3 DEF Entry
<1>8. x = 0 \/ x + tokens <= full
  BY <1>1, <1>2, <1>4, <1>5
<1> QED
  BY <1>5, <1>6, <1>7, <1>8 DEF Filled, full

Kept(table, answer, limit, max) ==
    Rate(limit, max)!Pruned(table, answer.table.lastTimestamp).entries

Bucket(table, answer, key, limit, max) ==
    Rate(limit, max)!BucketOf(Kept(table, answer, limit, max), key, answer.table.lastTimestamp)

IsConsumed(table, answer, key, keys, limit, max) ==
    LET later  == answer.table.lastTimestamp
        kept   == Kept(table, answer, limit, max)
        bucket == Bucket(table, answer, key, limit, max)
    IN
    /\ later \in 0..MaxClock /\ table.lastTimestamp <= later
    /\ Ordered(kept, keys, limit, later) /\ Len(kept) <= max
    /\ IdleCut(table.entries, kept, later)
    /\ answer.allowed = (bucket.tokens >= Window)
    /\ answer.table.nextPruneAt \in Nat
    /\ answer.table = [entries       |-> Rate(limit, max)!Reinserted(kept, Served(bucket)),
                       lastTimestamp |-> later,
                       nextPruneAt   |-> answer.table.nextPruneAt]

\* What consume does to a table that fulfils the invariant, in the terms of the lemmas above.
LEMMA ConsumeIs ==
    ASSUME AdmissionAssumption, NEW keys, NEW limit \in Nat \ {0}, NEW max \in Nat \ {0},
           NEW key \in keys, NEW clock \in 0..MaxClock, NEW table, NEW owed,
           TableInv(table, owed, keys, limit, max)
    PROVE  IsConsumed(table, Rate(limit, max)!Consume(table, key, clock), key, keys, limit, max)
<1> DEFINE timestamp == Rate(limit, max)!Timestamp(table, clock)
           pruned    == Rate(limit, max)!Pruned(table, timestamp)
           kept      == pruned.entries
           bucket    == Rate(limit, max)!BucketOf(kept, key, timestamp)
           answer    == Rate(limit, max)!Consume(table, key, clock)
<1>1. /\ table \in Table(keys, limit) /\ Len(table.entries) <= max /\ Len(table.entries) \in Nat
      /\ Ordered(table.entries, keys, limit, table.lastTimestamp)
      /\ table.lastTimestamp \in 0..MaxClock
  BY LenProperties DEF TableInv, Table
<1>2. timestamp \in 0..MaxClock /\ table.lastTimestamp <= timestamp
  BY <1>1 DEF Rate!Timestamp, Rate!Larger, AdmissionAssumption
<1> HIDE DEF timestamp
<1>3. /\ pruned \in Table(keys, limit) /\ pruned.lastTimestamp = timestamp
      /\ Ordered(kept, keys, limit, timestamp)
      /\ IdleCut(table.entries, kept, timestamp)
  <2>1. IsPruned(table, pruned, keys, limit, timestamp)
    BY <1>1, <1>2, PrunedIs
  <2> QED
    BY <2>1 DEF IsPruned
<1>4. Len(kept) <= max
  BY <1>1, <1>3 DEF IdleCut, Cut
<1>5. answer = [allowed |-> bucket.tokens >= Window,
                table   |-> [pruned EXCEPT !.entries =
                               Rate(limit, max)!Reinserted(pruned.entries, Served(bucket))]]
  BY DEF Rate!Consume, Served, timestamp
<1> HIDE DEF pruned, bucket, answer
<1>6. /\ answer.allowed = (bucket.tokens >= Window)
      /\ answer.table = [pruned EXCEPT !.entries =
                               Rate(limit, max)!Reinserted(pruned.entries, Served(bucket))]
  BY <1>5
<1>7. answer.table = [entries       |-> Rate(limit, max)!Reinserted(kept, Served(bucket)),
                      lastTimestamp |-> timestamp,
                      nextPruneAt   |-> answer.table.nextPruneAt]
  BY <1>3, <1>6 DEF Table
<1>8. answer.table.nextPruneAt \in Nat
  BY <1>3, <1>6 DEF Table
<1>9. answer.table.lastTimestamp = timestamp
  BY <1>7
<1> QED
  BY <1>2, <1>3, <1>4, <1>6, <1>7, <1>8, <1>9
     DEF pruned, bucket, answer, IsConsumed, Kept, Bucket

\* An address that pruning has removed, or that was not in the table, has nothing to pay.
LEMMA GoneIsPaid ==
    ASSUME AdmissionAssumption, NEW keys, NEW limit \in Nat \ {0}, NEW max, NEW table,
           NEW owed, TableInv(table, owed, keys, limit, max),
           NEW later \in Nat, table.lastTimestamp <= later, NEW kept,
           IdleCut(table.entries, kept, later),
           NEW key \in keys, ~Listed(kept, key)
    PROVE  FromZero(owed[key] - (later - table.lastTimestamp) * limit) = 0
<1> DEFINE old  == table.entries
           last == table.lastTimestamp
<1>1. /\ old \in Seq(Entry(keys, limit)) /\ Len(old) \in Nat
      /\ \A i \in 1..Len(old) : old[i] \in Entry(keys, limit)
      /\ last \in Nat
      /\ owed[key] \in Nat
  BY LenProperties, ElementOfSeq DEF TableInv, Table, AdmissionAssumption
<1>2. (later - last) * limit \in Nat
  <2>1. later - last \in Nat
    BY <1>1
  <2> HIDE DEF last
  <2> QED
    BY <2>1, Products
<1>3. CASE ~Listed(old, key)
  <2>1. owed[key] = 0
    BY <1>3 DEF TableInv
  <2> QED
    BY <2>1, <1>2 DEF FromZero
<1>4. CASE Listed(old, key)
  <2> PICK k : Cut(old, kept, k) /\ \A i \in 1..k : old[i].lastSeenAt <= later - Ttl
    BY DEF IdleCut
  <2>1. PICK i \in 1..Len(old) : old[i].key = key
    BY <1>4 DEF Listed
  <2>2. i \in 1..k
    <3>1. SUFFICES ASSUME i > k PROVE FALSE
      BY <2>1, <1>1 DEF Cut
    <3>2. i - k \in 1..Len(kept) /\ k + (i - k) = i
      BY <3>1, <2>1, <1>1 DEF Cut
    <3>3. kept[i - k] = old[k + (i - k)]
      BY <3>2 DEF Cut
    <3> QED
      BY <3>2, <3>3, <2>1 DEF Listed
  <2>3. /\ old[i] \in Entry(keys, limit) /\ old[i].updatedAt <= last
        /\ old[i].updatedAt <= later - Ttl
        /\ Paid(owed[key], old[i], last, limit)
    BY <2>1, <2>2, <1>1 DEF TableInv, Ordered
  <2>4. old[i].tokens \in Nat /\ old[i].updatedAt \in Nat
    BY <2>3 DEF Entry, AdmissionAssumption
  <2> HIDE DEF old, last
  <2> QED
    BY <2>3, <2>4, <1>1, Drains DEF last
<1> QED
  BY <1>3, <1>4

\* The excess after an answer, of a limiter with these keys.
ExcessAfter(before, table, kept, answer, key, limit, keys) ==
    [i \in keys |->
        IF Listed(kept, i) /\ ~Listed(answer.table.entries, i) THEN 0
        ELSE Drained(before[i], table, answer.table, limit)
             + IF i = key /\ answer.allowed THEN Window ELSE 0]

\* A kept bucket stays, but for the first of a table that was full.
EvictsTheFirst(kept, new, max) ==
    \A i \in 1..Len(kept) :
        \/ Listed(new, kept[i].key)
        \/ Len(new) = max /\ \A j \in 1..Len(new) : kept[i].lastSeenAt <= new[j].lastSeenAt

ConsumeHolds(table, owed, answer, key, keys, limit, max) ==
    LET kept  == Kept(table, answer, limit, max)
        after == ExcessAfter(owed, table, kept, answer, key, limit, keys)
    IN
    /\ TableInv(answer.table, after, keys, limit, max)
    /\ Listed(answer.table.entries, key)
    /\ IdleCut(table.entries, kept, answer.table.lastTimestamp)
    /\ EvictsTheFirst(kept, answer.table.entries, max)

\* An answer keeps the invariant of its table, and evicts for no reason but a full table.
LEMMA ConsumeKeepsInv ==
    ASSUME AdmissionAssumption, NEW keys, NEW limit \in Nat \ {0}, NEW max \in Nat \ {0},
           NEW key \in keys, NEW clock \in 0..MaxClock, NEW table, NEW owed,
           TableInv(table, owed, keys, limit, max)
    PROVE  ConsumeHolds(table, owed, Rate(limit, max)!Consume(table, key, clock), key, keys,
                    limit, max)
<1> DEFINE old    == table.entries
           last   == table.lastTimestamp
           answer == Rate(limit, max)!Consume(table, key, clock)
           later  == answer.table.lastTimestamp
           kept   == Kept(table, answer, limit, max)
           bucket == Bucket(table, answer, key, limit, max)
           new    == Rate(limit, max)!Reinserted(kept, Served(bucket))
           after  == ExcessAfter(owed, table, kept, answer, key, limit, keys)
           left(i) == FromZero(owed[i] - (later - last) * limit)
           E      == Entry(keys, limit)
<1>1. /\ later \in 0..MaxClock /\ last <= later
      /\ Ordered(kept, keys, limit, later) /\ Len(kept) <= max
      /\ IdleCut(old, kept, later)
      /\ answer.allowed = (bucket.tokens >= Window)
      /\ answer.table.nextPruneAt \in Nat
      /\ answer.table = [entries       |-> new,
                         lastTimestamp |-> later,
                         nextPruneAt   |-> answer.table.nextPruneAt]
  <2>1. IsConsumed(table, answer, key, keys, limit, max)
    BY ConsumeIs
  <2> HIDE DEF answer
  <2> QED
    BY <2>1 DEF IsConsumed
<1> HIDE DEF answer
<1>2. answer.table.entries = new
  BY <1>1
<1>3. /\ last \in Nat /\ later \in Nat /\ owed \in [keys -> Nat]
      /\ \A i \in 1..Len(old) :
            /\ old[i] \in E
            /\ old[i].updatedAt <= last /\ old[i].updatedAt \in Nat /\ old[i].tokens \in Nat
            /\ old[i].key \in keys
            /\ Paid(owed[old[i].key], old[i], last, limit)
  <2>1. \A i \in 1..Len(old) : old[i] \in E
    BY ElementOfSeq DEF TableInv, Table
  <2>2. last \in 0..MaxClock
    BY DEF TableInv, Table
  <2>3. last \in Nat /\ later \in Nat
    BY <1>1, <2>2 DEF AdmissionAssumption
  <2>4. ASSUME NEW i \in 1..Len(old)
        PROVE  /\ old[i].updatedAt <= last
               /\ Paid(owed[old[i].key], old[i], last, limit)
    BY DEF TableInv, Ordered
  <2>5. ASSUME NEW i \in 1..Len(old)
        PROVE  /\ old[i].updatedAt \in Nat /\ old[i].tokens \in Nat
               /\ old[i].key \in keys
    BY <2>1 DEF Entry, AdmissionAssumption
  <2>6. owed \in [keys -> Nat]
    BY DEF TableInv
  <2> HIDE DEF old, last, later
  <2> QED
    BY <2>1, <2>3, <2>4, <2>5, <2>6
<1>4. kept \in Seq(E) /\ \A n \in 1..Len(kept) : kept[n] \in E
  BY <1>1, ElementOfSeq DEF Ordered
<1> HIDE DEF old, last, later, kept
\* What a kept bucket has to pay is paid at the time of the answer.
<1>5. ASSUME NEW n \in 1..Len(kept)
      PROVE  /\ left(kept[n].key) \in Nat
             /\ Paid(left(kept[n].key), kept[n], later, limit)
             /\ kept[n].updatedAt <= later
  <2>1. PICK i \in 1..Len(old) : kept[n] = old[i]
    <3>1. PICK k : Cut(old, kept, k)
      BY <1>1 DEF IdleCut
    <3>2. k + n \in 1..Len(old) /\ kept[n] = old[k + n]
      <4>1. Len(old) \in Nat
        BY LenProperties DEF TableInv, Table, old
      <4> QED
        BY <3>1, <4>1 DEF Cut
    <3> QED
      BY <3>2
  <2>2. /\ old[i].key \in keys /\ owed[old[i].key] \in Nat
        /\ old[i].updatedAt <= last /\ old[i].updatedAt \in Nat /\ old[i].tokens \in Nat
        /\ Paid(owed[old[i].key], old[i], last, limit)
    BY <1>3
  <2>3. /\ left(old[i].key) \in Nat
        /\ Paid(left(old[i].key), old[i], later, limit)
    BY <2>2, <1>1, <1>3, Drains
  <2>4. old[i].updatedAt <= later
    BY ONLY <2>2, <1>1, <1>3
  <2> HIDE DEF left
  <2> QED
    BY ONLY <2>1, <2>3, <2>4
<1>6. ASSUME NEW i \in keys, ~Listed(kept, i)
      PROVE  left(i) = 0
  <2>1. /\ table.lastTimestamp <= later /\ later \in Nat
        /\ IdleCut(table.entries, kept, later)
    BY <1>1, <1>3 DEF old, last
  <2>2. FromZero(owed[i] - (later - table.lastTimestamp) * limit) = 0
    BY ONLY <2>1, <1>6, GoneIsPaid, AdmissionAssumption, limit \in Nat \ {0}, i \in keys,
            TableInv(table, owed, keys, limit, max)
  <2> QED
    BY <2>2 DEF last
<1> HIDE DEF left
<1>7. \A i \in keys : left(i) \in Nat
  BY <1>5, <1>6 DEF Listed
<1>8. /\ bucket \in E /\ bucket.key = key /\ bucket.lastSeenAt = later
      /\ Filled(bucket, left(key), later, limit)
  <2>1. CASE Listed(kept, key)
    <3> DEFINE p == Rate(limit, max)!PlaceOf(kept, key)
    <3>1. Rate(limit, max)!Known(kept, key)
      BY <2>1, <1>4, KnownIsListed
    <3>2. p \in 1..Len(kept) /\ kept[p].key = key
      BY <3>1, <1>1, PlaceIs
    <3>3. bucket = Rate(limit, max)!Refilled(kept[p], later)
      BY <3>1 DEF Rate!BucketOf, Bucket, later, kept
    <3> HIDE DEF p, bucket
    <3>4. /\ left(key) \in Nat /\ Paid(left(key), kept[p], later, limit)
          /\ kept[p].updatedAt <= later /\ kept[p] \in E
      BY <3>2, <1>5, <1>4
    <3>5. LET filled == Rate(limit, max)!Refilled(kept[p], later) IN
          /\ filled \in Entry(keys, limit) /\ filled.key = kept[p].key
          /\ filled.lastSeenAt = later
          /\ Filled(filled, left(key), later, limit)
      BY ONLY <3>4, <1>1, RefillIsPaid, AdmissionAssumption, limit \in Nat \ {0}
    <3> QED
      BY <3>2, <3>3, <3>5
  <2>2. CASE ~Listed(kept, key)
    <3>1. ~Rate(limit, max)!Known(kept, key)
      BY <2>2, <1>4, KnownIsListed
    <3>2. bucket = [key |-> key, tokens |-> limit * Window, updatedAt |-> later,
                    lastSeenAt |-> later]
      BY <3>1 DEF Rate!BucketOf, Rate!Full, Bucket, later, kept
    <3>3. limit * Window \in Nat
      BY DEF AdmissionAssumption
    <3> QED
      BY <3>2, <3>3, <2>2, <1>1, <1>6 DEF Entry, Filled
  <2> QED
    BY <2>1, <2>2
<1> DEFINE served == Served(bucket)
<1> HIDE DEF bucket, new
<1>9. LET y == left(key) + IF bucket.tokens >= Window THEN Window ELSE 0 IN
      /\ served \in E /\ served.key = key
      /\ served.updatedAt = later /\ served.lastSeenAt = later
      /\ y \in Nat /\ Paid(y, served, later, limit)
  BY <1>8, <1>7, <1>3, ServingIsPaid DEF Filled
<1> HIDE DEF served
<1>10. /\ Ordered(new, keys, limit, later) /\ Len(new) <= max
       /\ Has(new, served)
       /\ \A i \in 1..Len(new) :
             new[i] = served \/ (Has(kept, new[i]) /\ new[i].key # served.key)
       /\ \A i \in 1..Len(kept) :
             \/ kept[i].key = served.key \/ Has(new, kept[i])
             \/ /\ i = 1 /\ Len(new) = max
                /\ \A j \in 1..Len(new) : kept[1].lastSeenAt <= new[j].lastSeenAt
  <2>1. IsReinserted(kept, new, served, keys, limit, max, later)
    BY <1>1, <1>3, <1>9, ReinsertedIs DEF new, served
  <2> QED
    BY <2>1 DEF IsReinserted
<1>11. Listed(new, key)
  BY <1>9, <1>10 DEF Has, Listed
<1>12. ASSUME NEW i \in keys
       PROVE  after[i] = IF Listed(kept, i) /\ ~Listed(new, i) THEN 0
                         ELSE left(i) + IF i = key /\ bucket.tokens >= Window THEN Window ELSE 0
  BY <1>1, <1>2 DEF ExcessAfter, Drained, left, later, last
<1>13. after \in [keys -> Nat]
  <2>1. after = [i \in keys |-> after[i]]
    BY DEF ExcessAfter
  <2>2. \A i \in keys : after[i] \in Nat
    BY <1>12, <1>7 DEF AdmissionAssumption
  <2> HIDE DEF after
  <2> QED
    BY <2>1, <2>2
<1> HIDE DEF after
<1>14. ASSUME NEW i \in keys, ~Listed(new, i) PROVE after[i] = 0
  <2>1. i # key
    BY <1>14, <1>11
  <2> QED
    BY <2>1, <1>14, <1>12, <1>6
<1>15. ASSUME NEW n \in 1..Len(new) PROVE Paid(after[new[n].key], new[n], later, limit)
  <2>1. CASE new[n] = served
    <3>1. after[key] = left(key) + IF bucket.tokens >= Window THEN Window ELSE 0
      BY <1>11, <1>12
    <3> QED
      BY <2>1, <3>1, <1>9
  <2>2. CASE Has(kept, new[n]) /\ new[n].key # served.key
    <3>1. PICK m \in 1..Len(kept) : kept[m] = new[n]
      BY <2>2 DEF Has
    <3>2. new[n].key \in keys /\ new[n].key # key /\ Listed(new, new[n].key)
      BY <3>1, <2>2, <1>4, <1>9 DEF Listed, Entry
    <3>3. after[new[n].key] = left(new[n].key) + 0 /\ left(new[n].key) \in Nat
      BY <3>2, <1>12, <1>7
    <3>4. after[new[n].key] = left(new[n].key)
      BY <3>3
    <3> QED
      BY <3>1, <3>4, <1>5
  <2> QED
    BY <2>1, <2>2, <1>10
<1>16. /\ answer.table \in Table(keys, limit) /\ answer.table.lastTimestamp = later
  <2>1. new \in Seq(E)
    BY <1>10 DEF Ordered
  <2> QED
    BY <2>1, <1>1 DEF Table, later
<1>17. TableInv(answer.table, after, keys, limit, max)
  BY <1>2, <1>10, <1>13, <1>14, <1>15, <1>16 DEF TableInv
<1>18. EvictsTheFirst(kept, new, max)
  <2>1. SUFFICES ASSUME NEW i \in 1..Len(kept), ~Listed(new, kept[i].key)
                 PROVE  /\ Len(new) = max
                        /\ \A j \in 1..Len(new) : kept[i].lastSeenAt <= new[j].lastSeenAt
    BY DEF EvictsTheFirst
  <2>2. kept[i].key # served.key /\ ~Has(new, kept[i])
    BY <2>1, <1>9, <1>11 DEF Has, Listed
  <2> QED
    BY <2>2, <1>10
<1> QED
  BY <1>1, <1>2, <1>11, <1>17, <1>18 DEF ConsumeHolds, answer, later, kept, after, old

-----------------------------------------------------------------------------
Stage == {"none", "reading", "aborted", "handling", "ended", "finished"}

InProgress(ip) == {r \in Waiting : request[r].ip = ip}

\* The slots: a request that waits has not been released, and has an address.
SlotsInv ==
    /\ request \in [Request -> [stage : Stage, ip : Ip \union {NoIp}, released : BOOLEAN]]
    /\ \A r \in Request : request[r].released <=> r \notin Waiting
    /\ \A r \in Waiting : request[r].ip \in Ip
    /\ activeGlobal = Cardinality(Waiting) /\ activeGlobal <= MaxActive
    /\ activeByIp = [i \in DOMAIN activeByIp |-> activeByIp[i]]
    /\ DOMAIN activeByIp = {request[r].ip : r \in Waiting}
    /\ \A i \in DOMAIN activeByIp :
          activeByIp[i] = Cardinality(InProgress(i)) /\ activeByIp[i] <= MaxActivePerIp

GuardInv ==
    /\ TableInv(ipTable, ipExcess, Ip, IpLimit, MaxEntries)
    /\ TableInv(globalTable, [k \in {"global"} |-> globalExcess], {"global"}, GlobalLimit, 1)
    /\ SlotsInv

LEMMA WaitingIsFinite ==
    ASSUME AdmissionAssumption, NEW ip
    PROVE  /\ IsFiniteSet(Waiting) /\ Cardinality(Waiting) \in Nat
           /\ IsFiniteSet(InProgress(ip)) /\ Cardinality(InProgress(ip)) \in Nat
           /\ Cardinality(Waiting) = 0 <=> Waiting = {}
           /\ Cardinality(InProgress(ip)) = 0 <=> InProgress(ip) = {}
<1>1. Waiting \subseteq Request /\ InProgress(ip) \subseteq Waiting
  BY DEF Waiting, InProgress
<1>2. IsFiniteSet(Waiting)
  BY <1>1, FS_Subset DEF AdmissionAssumption
<1>3. IsFiniteSet(InProgress(ip))
  BY <1>1, <1>2, FS_Subset
<1> QED
  BY <1>2, <1>3, FS_CardinalityType, FS_EmptySet

LEMMA ActiveIsInProgress ==
    ASSUME AdmissionAssumption, SlotsInv, NEW ip
    PROVE  /\ ActiveFor(ip) = Cardinality(InProgress(ip))
           /\ ActiveFor(ip) \in Nat
           /\ ip \in DOMAIN activeByIp <=> InProgress(ip) # {}
<1>1. ip \in DOMAIN activeByIp <=> InProgress(ip) # {}
  BY DEF SlotsInv, InProgress
<1>2. CASE ip \in DOMAIN activeByIp
  BY <1>1, <1>2, WaitingIsFinite DEF ActiveFor, SlotsInv
<1>3. CASE ip \notin DOMAIN activeByIp
  BY <1>1, <1>3, WaitingIsFinite DEF ActiveFor
<1> QED
  BY <1>1, <1>2, <1>3

\* A request gets a slot.
LEMMA AdmitKeepsSlots ==
    ASSUME AdmissionAssumption, SlotsInv, NEW ip \in Ip, HasCapacity(ip), Admit(ip)
    PROVE  SlotsInv'
<1>1. PICK r \in Request :
        /\ request[r].stage = "none"
        /\ request' = [request EXCEPT ![r] = [stage |-> "reading", ip |-> ip,
                                             released |-> FALSE]]
  BY DEF Admit
<1>2. request \in [Request -> [stage : Stage, ip : Ip \union {NoIp}, released : BOOLEAN]]
  BY DEF SlotsInv
<1>3. request' \in [Request -> [stage : Stage, ip : Ip \union {NoIp}, released : BOOLEAN]]
  <2>1. [stage |-> "reading", ip |-> ip, released |-> FALSE]
           \in [stage : Stage, ip : Ip \union {NoIp}, released : BOOLEAN]
    BY DEF Stage
  <2> QED
    BY <1>1, <1>2, <2>1
<1>4. /\ request'[r].stage = "reading" /\ request'[r].ip = ip
      /\ \A q \in Request : q # r => request'[q] = request[q]
  BY <1>1, <1>2
<1>5. ~request'[r].released
  BY <1>1, <1>2
<1>6. r \notin Waiting /\ Waiting' = Waiting \union {r}
  BY <1>1, <1>4 DEF Waiting
<1>7. \A q \in Request : request'[q].released <=> q \notin Waiting'
  BY <1>4, <1>5, <1>6 DEF SlotsInv
<1>8. \A q \in Waiting' : request'[q].ip \in Ip
  BY <1>4, <1>6 DEF SlotsInv, Waiting
<1>9. /\ activeGlobal' = Cardinality(Waiting') /\ activeGlobal' <= MaxActive
  <2>1. Cardinality(Waiting') = Cardinality(Waiting) + 1
    BY <1>6, WaitingIsFinite, FS_AddElement
  <2>2. activeGlobal = Cardinality(Waiting) /\ activeGlobal \in Nat /\ activeGlobal < MaxActive
    BY WaitingIsFinite DEF SlotsInv, HasCapacity
  <2> QED
    BY <2>1, <2>2 DEF Admit, AdmissionAssumption
<1>10. /\ activeByIp' = [i \in DOMAIN activeByIp \union {ip} |->
                            IF i = ip THEN ActiveFor(ip) + 1 ELSE activeByIp[i]]
       /\ DOMAIN activeByIp' = DOMAIN activeByIp \union {ip}
  BY DEF Admit
<1>11. DOMAIN activeByIp' = {request'[q].ip : q \in Waiting'}
  <2>1. DOMAIN activeByIp = {request[q].ip : q \in Waiting} /\ Waiting \subseteq Request
    BY DEF SlotsInv, Waiting
  <2>2. \A q \in Waiting : request'[q].ip = request[q].ip
    BY <1>4, <1>6, <2>1
  <2> QED
    BY <1>4, <1>6, <1>10, <2>1, <2>2
<1>12. InProgress(ip)' = InProgress(ip) \union {r} /\ r \notin InProgress(ip)
  BY <1>4, <1>6 DEF InProgress, Waiting
<1>13. \A i : i # ip => InProgress(i)' = InProgress(i)
  BY <1>4, <1>6 DEF InProgress, Waiting
<1>14. ASSUME NEW i \in DOMAIN activeByIp'
       PROVE  activeByIp'[i] = Cardinality(InProgress(i)') /\ activeByIp'[i] <= MaxActivePerIp
  <2>1. CASE i = ip
    <3>1. activeByIp'[i] = ActiveFor(ip) + 1
      BY <1>10, <2>1
    <3>2. Cardinality(InProgress(ip) \union {r}) = Cardinality(InProgress(ip)) + 1
      BY <1>12, WaitingIsFinite, FS_AddElement
    <3>3. ActiveFor(ip) < MaxActivePerIp
      BY DEF HasCapacity
    <3>4. Cardinality(InProgress(ip)') = Cardinality(InProgress(ip)) + 1
      BY <1>12, <3>2
    <3>5. ActiveFor(ip) = Cardinality(InProgress(ip)) /\ ActiveFor(ip) \in Nat
      BY ActiveIsInProgress
    <3>6. ActiveFor(ip) + 1 <= MaxActivePerIp
      BY <3>3, <3>5 DEF AdmissionAssumption
    <3>7. Cardinality(InProgress(i)') = Cardinality(InProgress(ip)')
      BY <2>1
    <3> QED
      BY <2>1, <3>1, <3>4, <3>5, <3>6, <3>7
  <2>2. CASE i # ip
    <3>1. i \in DOMAIN activeByIp /\ activeByIp'[i] = activeByIp[i]
      BY <1>10, <2>2
    <3> QED
      BY <3>1, <1>13, <2>2 DEF SlotsInv
  <2> QED
    BY <2>1, <2>2
<1>15. activeByIp' = [i \in DOMAIN activeByIp' |-> activeByIp'[i]]
  BY <1>10
<1> QED
  BY <1>3, <1>7, <1>8, <1>9, <1>11, <1>14, <1>15 DEF SlotsInv

\* A request goes on and keeps its slot.
LEMMA StepKeepsSlots ==
    ASSUME AdmissionAssumption, SlotsInv, NEW r \in Request,
           NEW from \in {"reading", "handling"}, NEW to \in {"handling", "ended", "aborted"},
           Step(r, from, to)
    PROVE  SlotsInv'
<1>1. /\ request[r].stage = from
      /\ request' = [request EXCEPT ![r].stage = to]
      /\ activeGlobal' = activeGlobal /\ activeByIp' = activeByIp
  BY DEF Step, slots
<1>2. request \in [Request -> [stage : Stage, ip : Ip \union {NoIp}, released : BOOLEAN]]
  BY DEF SlotsInv
<1>3. request' \in [Request -> [stage : Stage, ip : Ip \union {NoIp}, released : BOOLEAN]]
  BY <1>1, <1>2 DEF Stage
<1>4. /\ request'[r].stage = to
      /\ \A q \in Request : request'[q].ip = request[q].ip
      /\ \A q \in Request : q # r => request'[q] = request[q]
  BY <1>1, <1>2
<1>5. \A q \in Request : request'[q].released = request[q].released
  BY <1>1, <1>2
<1>6. Waiting' = Waiting /\ Waiting \subseteq Request
  BY <1>1, <1>4 DEF Waiting
<1>7. \A q \in Request : request'[q].released <=> q \notin Waiting'
  BY <1>5, <1>6 DEF SlotsInv
<1>8. \A i : InProgress(i)' = InProgress(i)
  BY <1>4, <1>6 DEF InProgress
<1>9. {request'[q].ip : q \in Waiting'} = {request[q].ip : q \in Waiting}
  BY <1>4, <1>6
<1>10. \A q \in Waiting' : request'[q].ip \in Ip
  BY <1>4, <1>6 DEF SlotsInv
<1> QED
  BY <1>1, <1>3, <1>6, <1>7, <1>8, <1>9, <1>10 DEF SlotsInv

\* A response ends, first or again.
LEMMA ReleaseKeepsSlots ==
    ASSUME AdmissionAssumption, SlotsInv, NEW r \in Request, Release(r),
           NEW after \in [stage : Stage, ip : Ip \union {NoIp}, released : BOOLEAN],
           after.stage \in {"none", "finished"}, after.released,
           request' = [request EXCEPT ![r] = after]
    PROVE  SlotsInv'
<1> PICK ip : ip = request[r].ip
  OBVIOUS
<1> DEFINE remaining == ActiveFor(ip) - 1
<1>1. request \in [Request -> [stage : Stage, ip : Ip \union {NoIp}, released : BOOLEAN]]
  BY DEF SlotsInv
<1>2. request' \in [Request -> [stage : Stage, ip : Ip \union {NoIp}, released : BOOLEAN]]
  BY <1>1
<1>3. request'[r] = after /\ \A q \in Request : q # r => request'[q] = request[q]
  BY <1>1
<1>4. Waiting' = Waiting \ {r} /\ Waiting \subseteq Request
  BY <1>3 DEF Waiting
<1>5. \A q \in Request : request'[q].released <=> q \notin Waiting'
  BY <1>3, <1>4 DEF SlotsInv
<1>6. \A q \in Waiting' : request'[q].ip = request[q].ip /\ request'[q].ip \in Ip
  BY <1>3, <1>4 DEF SlotsInv
<1>7. \A i : InProgress(i)' = InProgress(i) \ {r}
  BY <1>3, <1>4 DEF InProgress
<1>8. CASE request[r].released
  <2>1. activeGlobal' = activeGlobal /\ activeByIp' = activeByIp
    BY <1>8 DEF Release, slots
  <2>2. r \notin Waiting
    BY <1>8 DEF SlotsInv
  <2>3. Waiting' = Waiting /\ \A i : InProgress(i)' = InProgress(i)
    BY <2>2, <1>4, <1>7 DEF InProgress
  <2>4. {request'[q].ip : q \in Waiting'} = {request[q].ip : q \in Waiting}
    BY <2>3, <1>6
  <2> QED
    BY <1>2, <1>5, <1>6, <2>1, <2>3, <2>4 DEF SlotsInv
<1>9. CASE ~request[r].released
  <2>1. r \in Waiting /\ r \in InProgress(ip)
    BY <1>9 DEF SlotsInv, InProgress
  <2>2. /\ activeGlobal' = FromZero(activeGlobal - 1)
        /\ activeByIp' = IF remaining <= 0
                         THEN [i \in DOMAIN activeByIp \ {ip} |-> activeByIp[i]]
                         ELSE [activeByIp EXCEPT ![ip] = remaining]
    BY <1>9 DEF Release
  <2>3. activeGlobal' = Cardinality(Waiting') /\ activeGlobal' <= MaxActive
    <3>1. Cardinality(Waiting \ {r}) = Cardinality(Waiting) - 1
      BY <2>1, WaitingIsFinite, FS_RemoveElement
    <3>2. Cardinality(Waiting) \in Nat \ {0}
      BY <2>1, WaitingIsFinite
    <3>3. Cardinality(Waiting') = Cardinality(Waiting) - 1
      BY <1>4, <3>1
    <3>4. activeGlobal = Cardinality(Waiting) /\ activeGlobal <= MaxActive
      BY DEF SlotsInv
    <3>5. activeGlobal' = activeGlobal - 1
      BY <2>2, <3>2, <3>4 DEF FromZero
    <3> QED
      BY <3>2, <3>3, <3>4, <3>5 DEF AdmissionAssumption
  <2>4. /\ Cardinality(InProgress(ip)') = remaining
        /\ remaining \in Nat
        /\ remaining = 0 <=> InProgress(ip)' = {}
    <3>1. Cardinality(InProgress(ip) \ {r}) = Cardinality(InProgress(ip)) - 1
      BY <2>1, WaitingIsFinite, FS_RemoveElement
    <3>2. Cardinality(InProgress(ip)) \in Nat \ {0}
      BY <2>1, WaitingIsFinite
    <3>3. IsFiniteSet(InProgress(ip) \ {r})
      BY WaitingIsFinite, FS_RemoveElement
    <3>4. Cardinality(InProgress(ip) \ {r}) = 0 <=> InProgress(ip) \ {r} = {}
      BY <3>3, FS_EmptySet
    <3>5. InProgress(ip)' = InProgress(ip) \ {r}
      BY <1>7
    <3>6. remaining = Cardinality(InProgress(ip)) - 1
      BY ActiveIsInProgress
    <3> HIDE DEF remaining
    <3>7. Cardinality(InProgress(ip)') = Cardinality(InProgress(ip)) - 1
      BY <3>1, <3>5
    <3>8. remaining = 0 <=> InProgress(ip)' = {}
      BY <3>1, <3>4, <3>5, <3>6
    <3> QED
      BY <3>2, <3>6, <3>7, <3>8
  <2> HIDE DEF remaining
  <2>5. ip \in DOMAIN activeByIp
    BY <2>1, ActiveIsInProgress
  <2>6. ASSUME NEW i, i # ip PROVE InProgress(i)' = InProgress(i)
    BY <2>6, <1>7 DEF InProgress
  <2>7. activeByIp = [i \in DOMAIN activeByIp |-> activeByIp[i]]
    BY DEF SlotsInv
  <2>8. \A i : i \in {request'[q].ip : q \in Waiting'} <=> InProgress(i)' # {}
    BY DEF InProgress
  <2>9. \A i : i \in DOMAIN activeByIp <=> InProgress(i) # {}
    BY ActiveIsInProgress
  <2>10. CASE remaining <= 0
    <3>1. /\ activeByIp' = [i \in DOMAIN activeByIp \ {ip} |-> activeByIp[i]]
          /\ InProgress(ip)' = {}
      BY <2>2, <2>4, <2>10
    <3>2. DOMAIN activeByIp' = {request'[q].ip : q \in Waiting'}
      BY <3>1, <2>6, <2>8, <2>9
    <3>3. ASSUME NEW i \in DOMAIN activeByIp'
          PROVE  activeByIp'[i] = Cardinality(InProgress(i)') /\ activeByIp'[i] <= MaxActivePerIp
      BY <3>1, <2>6 DEF SlotsInv
    <3>4. activeByIp' = [i \in DOMAIN activeByIp' |-> activeByIp'[i]]
      BY <3>1
    <3> QED
      BY <1>2, <1>5, <1>6, <2>3, <3>2, <3>3, <3>4 DEF SlotsInv
  <2>11. CASE ~(remaining <= 0)
    <3>1. /\ activeByIp' = [activeByIp EXCEPT ![ip] = remaining]
          /\ InProgress(ip)' # {}
      BY <2>2, <2>4, <2>11
    <3>2. /\ DOMAIN activeByIp' = DOMAIN activeByIp
          /\ activeByIp'[ip] = remaining
          /\ \A i \in DOMAIN activeByIp : i # ip => activeByIp'[i] = activeByIp[i]
          /\ activeByIp' = [i \in DOMAIN activeByIp' |-> activeByIp'[i]]
      <4>1. PICK ips : ips = DOMAIN activeByIp
        OBVIOUS
      <4>2. activeByIp \in [ips -> Nat]
        <5>1. \A i \in ips : activeByIp[i] \in Nat
          BY <4>1, WaitingIsFinite DEF SlotsInv
        <5> QED
          BY <4>1, <5>1, <2>7
      <4>3. /\ activeByIp' \in [ips -> Nat] /\ activeByIp'[ip] = remaining
            /\ \A i \in ips : i # ip => activeByIp'[i] = activeByIp[i]
        BY <3>1, <2>4, <2>5, <4>1, <4>2
      <4> QED
        BY <4>1, <4>3
    <3>3. DOMAIN activeByIp' = {request'[q].ip : q \in Waiting'}
      <4>1. \A i : i \in DOMAIN activeByIp <=> InProgress(i)' # {}
        BY <3>1, <2>5, <2>6, <2>9
      <4> QED
        BY <4>1, <3>2, <2>8
    <3>4. ASSUME NEW i \in DOMAIN activeByIp'
          PROVE  activeByIp'[i] = Cardinality(InProgress(i)') /\ activeByIp'[i] <= MaxActivePerIp
      <4>1. CASE i = ip
        <5>1. activeByIp[ip] <= MaxActivePerIp /\ activeByIp[ip] = ActiveFor(ip)
          BY <2>5 DEF SlotsInv, ActiveFor
        <5>2. remaining = ActiveFor(ip) - 1 /\ ActiveFor(ip) \in Nat
          BY ActiveIsInProgress DEF remaining
        <5> QED
          BY <4>1, <3>2, <2>4, <5>1, <5>2 DEF AdmissionAssumption
      <4>2. CASE i # ip
        BY <4>2, <3>2, <2>6 DEF SlotsInv
      <4> QED
        BY <4>1, <4>2
    <3> QED
      BY <1>2, <1>5, <1>6, <2>3, <3>2, <3>3, <3>4 DEF SlotsInv
  <2> QED
    BY <2>10, <2>11
<1> QED
  BY <1>8, <1>9

-----------------------------------------------------------------------------
LEMMA GuardStarts == GuardInit => GuardInv
<1> SUFFICES ASSUME GuardInit PROVE GuardInv
  OBVIOUS
<1> USE AdmissionAssumption DEF AdmissionAssumption
<1>1. ASSUME NEW keys, NEW limit, NEW max \in Nat, NEW owed,
             owed \in [keys -> Nat], \A k \in keys : owed[k] = 0
      PROVE  TableInv(Rate(limit, max)!NewTable, owed, keys, limit, max)
  <2> DEFINE table == Rate(limit, max)!NewTable
  <2>1. <<>> \in Seq(Entry(keys, limit)) /\ Len(<<>>) = 0 /\ 1..0 = {}
    BY EmptySeq
  <2>2. /\ table.entries = <<>> /\ table.lastTimestamp = 0 /\ table \in Table(keys, limit)
    BY <2>1 DEF Rate!NewTable, Table
  <2> HIDE DEF table
  <2>3. Ordered(<<>>, keys, limit, 0)
    BY <2>1 DEF Ordered
  <2>4. \A i \in 1..Len(table.entries) :
           Paid(owed[table.entries[i].key], table.entries[i], table.lastTimestamp, limit)
    BY <2>1, <2>2
  <2>5. Len(table.entries) <= max
    BY <2>1, <2>2
  <2>6. Ordered(table.entries, keys, limit, table.lastTimestamp)
    BY <2>2, <2>3
  <2>7. TableInv(table, owed, keys, limit, max)
    BY <1>1, <2>2, <2>4, <2>5, <2>6 DEF TableInv
  <2> QED
    BY <2>7 DEF table
<1>2. TableInv(ipTable, ipExcess, Ip, IpLimit, MaxEntries)
  BY <1>1 DEF GuardInit
<1>3. TableInv(globalTable, [k \in {"global"} |-> globalExcess], {"global"}, GlobalLimit, 1)
  BY <1>1 DEF GuardInit
<1>4. SlotsInv
  <2>1. \A r \in Request : request[r] = NoRequest
    BY DEF GuardInit
  <2>2. Waiting = {}
    BY <2>1 DEF Waiting, NoRequest
  <2>3. request \in [Request -> [stage : Stage, ip : Ip \union {NoIp}, released : BOOLEAN]]
    BY DEF GuardInit, NoRequest, Stage
  <2>4. \A r \in Request : request[r].released
    BY <2>1 DEF NoRequest
  <2>5. activeGlobal = 0 /\ activeByIp = [i \in {} |-> 0] /\ Cardinality({}) = 0
    BY FS_EmptySet DEF GuardInit
  <2>6. DOMAIN activeByIp = {}
    BY <2>5
  <2>7. activeByIp = [i \in DOMAIN activeByIp |-> activeByIp[i]]
    BY <2>5, <2>6
  <2> QED
    BY <2>2, <2>3, <2>4, <2>5, <2>6, <2>7 DEF SlotsInv
<1> QED
  BY <1>2, <1>3, <1>4 DEF GuardInv

LEMMA HasBucketIsListed ==
    ASSUME NEW S, NEW entries \in Seq(S), NEW ip
    PROVE  HasBucket(entries, ip) <=> Listed(entries, ip)
BY KnownIsListed DEF HasBucket

\* What an arrival does to the bucket of its address.
LEMMA ArriveAtIpTable ==
    ASSUME AdmissionAssumption, GuardInv, NEW ip \in Ip, NEW clock \in 0..MaxClock,
           Arrive(ip, clock)
    PROVE  LET own == Rate(IpLimit, MaxEntries)!Consume(ipTable, ip, clock) IN
           /\ ipTable' = own.table
           /\ ConsumeHolds(ipTable, ipExcess, own, ip, Ip, IpLimit, MaxEntries)
           /\ TableInv(ipTable', ipExcess', Ip, IpLimit, MaxEntries)
<1> DEFINE own  == Rate(IpLimit, MaxEntries)!Consume(ipTable, ip, clock)
           kept == Kept(ipTable, own, IpLimit, MaxEntries)
<1>1. ipTable' = own.table /\ ipExcess' = IpExcessAfter(ip, own)
  BY DEF Arrive
<1>2. ConsumeHolds(ipTable, ipExcess, own, ip, Ip, IpLimit, MaxEntries)
  BY ConsumeKeepsInv DEF GuardInv, AdmissionAssumption
<1>3. IsConsumed(ipTable, own, ip, Ip, IpLimit, MaxEntries)
  BY ConsumeIs DEF GuardInv, AdmissionAssumption
<1> HIDE DEF own
<1>4. /\ kept \in Seq(Entry(Ip, IpLimit))
      /\ own.table.entries \in Seq(Entry(Ip, IpLimit))
  BY <1>2, <1>3 DEF IsConsumed, Ordered, ConsumeHolds, TableInv
<1>5. kept = Rate(IpLimit, MaxEntries)!Pruned(ipTable, own.table.lastTimestamp).entries
  BY DEF Kept
<1> HIDE DEF kept
<1>6. IpExcessAfter(ip, own) = ExcessAfter(ipExcess, ipTable, kept, own, ip, IpLimit, Ip)
  BY <1>4, <1>5, HasBucketIsListed DEF IpExcessAfter, ExcessAfter
<1> QED
  BY <1>1, <1>2, <1>6 DEF ConsumeHolds, own, kept

LEMMA ArriveAtGlobalTable ==
    ASSUME AdmissionAssumption, GuardInv, NEW ip \in Ip, NEW clock \in 0..MaxClock,
           Arrive(ip, clock)
    PROVE  TableInv(globalTable', [k \in {"global"} |-> globalExcess'], {"global"},
                    GlobalLimit, 1)
<1> DEFINE own    == Rate(IpLimit, MaxEntries)!Consume(ipTable, ip, clock)
           shared == Rate(GlobalLimit, 1)!Consume(globalTable, "global", clock)
           kept   == Kept(globalTable, shared, GlobalLimit, 1)
           before == [k \in {"global"} |-> globalExcess]
<1>1. CASE own.allowed
  <2>1. globalTable' = shared.table /\ globalExcess' = GlobalExcessAfter(shared)
    BY <1>1 DEF Arrive
  <2>2. ConsumeHolds(globalTable, before, shared, "global", {"global"}, GlobalLimit, 1)
    <3>1. TableInv(globalTable, before, {"global"}, GlobalLimit, 1) /\ 1 \in Nat \ {0}
      BY DEF GuardInv
    <3> HIDE DEF before
    <3> QED
      BY <3>1, ConsumeKeepsInv DEF AdmissionAssumption
  <2> HIDE DEF shared, kept
  <2>3. Listed(shared.table.entries, "global")
    BY <2>2 DEF ConsumeHolds
  <2>4. [k \in {"global"} |-> GlobalExcessAfter(shared)]
          = ExcessAfter(before, globalTable, kept, shared, "global", GlobalLimit, {"global"})
    BY <2>3 DEF GlobalExcessAfter, ExcessAfter
  <2> QED
    BY <2>1, <2>2, <2>4 DEF ConsumeHolds, kept
<1>2. CASE ~own.allowed
  BY <1>2 DEF Arrive, GuardInv
<1> QED
  BY <1>1, <1>2

LEMMA ArriveKeepsInv ==
    ASSUME AdmissionAssumption, GuardInv, NEW ip \in Ip, NEW clock \in 0..MaxClock,
           Arrive(ip, clock)
    PROVE  GuardInv'
<1>1. SlotsInv'
  <2>1. CASE UNCHANGED <<slots, request>>
    <3>1. activeGlobal' = activeGlobal /\ activeByIp' = activeByIp /\ request' = request
      BY <2>1 DEF slots
    <3>2. Waiting' = Waiting /\ \A i : InProgress(i)' = InProgress(i)
      BY <3>1 DEF Waiting, InProgress
    <3> QED
      BY <3>1, <3>2 DEF GuardInv, SlotsInv
  <2>2. CASE HasCapacity(ip) /\ Admit(ip)
    BY <2>2, AdmitKeepsSlots DEF GuardInv
  <2> QED
    BY <2>1, <2>2 DEF Arrive
<1> QED
  BY <1>1, ArriveAtIpTable, ArriveAtGlobalTable DEF GuardInv

\* Everything but an arrival leaves the tables alone.
LEMMA SlotsAlone ==
    ASSUME GuardInv, SlotsInv', UNCHANGED tables
    PROVE  GuardInv'
<1>1. /\ ipTable' = ipTable /\ ipExcess' = ipExcess
      /\ globalTable' = globalTable /\ globalExcess' = globalExcess
  BY DEF tables
<1>2. TableInv(ipTable', ipExcess', Ip, IpLimit, MaxEntries)
  BY <1>1 DEF GuardInv
<1>3. TableInv(globalTable', [k \in {"global"} |-> globalExcess'], {"global"}, GlobalLimit, 1)
  BY <1>1 DEF GuardInv
<1> QED
  BY <1>2, <1>3 DEF GuardInv

LEMMA EndKeepsInv ==
    ASSUME AdmissionAssumption, GuardInv, NEW r \in Request, Finish(r) \/ Close(r)
    PROVE  GuardInv'
<1> DEFINE Row == [stage : Stage, ip : Ip \union {NoIp}, released : BOOLEAN]
<1>1. request \in [Request -> Row] /\ SlotsInv
  BY DEF GuardInv, SlotsInv
<1>2. CASE Finish(r)
  <2> DEFINE after == [request[r] EXCEPT !.stage = "finished", !.released = TRUE]
  <2>1. Release(r) /\ UNCHANGED tables
    BY <1>2 DEF Finish
  <2>2. request' = [request EXCEPT ![r] = after]
    BY <1>1, <1>2 DEF Finish
  <2>3. after \in Row /\ after.stage = "finished"
    BY <1>1 DEF Stage
  <2>4. after.released
    BY <1>1
  <2> HIDE DEF after
  <2>5. SlotsInv'
    BY <1>1, <2>1, <2>2, <2>3, <2>4, ReleaseKeepsSlots
  <2> QED
    BY <2>1, <2>5, SlotsAlone
<1>3. CASE Close(r)
  <2>1. Release(r) /\ UNCHANGED tables /\ request' = [request EXCEPT ![r] = NoRequest]
    BY <1>3 DEF Close
  <2>2. NoRequest \in Row /\ NoRequest.stage = "none"
    BY DEF NoRequest, Stage
  <2>3. NoRequest.released
    BY DEF NoRequest
  <2>4. SlotsInv'
    BY <1>1, <2>1, <2>2, <2>3, ReleaseKeepsSlots
  <2> QED
    BY <2>1, <2>4, SlotsAlone
<1> QED
  BY <1>2, <1>3

LEMMA GuardInductive ==
    ASSUME AdmissionAssumption, GuardInv, [GuardNext]_guardVars
    PROVE  GuardInv'
<1>1. ASSUME NEW ip \in Ip, NEW clock \in 0..MaxClock, Arrive(ip, clock) PROVE GuardInv'
  BY <1>1, ArriveKeepsInv
<1>2. ASSUME NEW r \in Request, NEW from \in {"reading", "handling"},
             NEW to \in {"handling", "ended", "aborted"}, Step(r, from, to)
      PROVE  GuardInv'
  BY <1>2, StepKeepsSlots, SlotsAlone DEF GuardInv, Step
<1>3. ASSUME NEW r \in Request, Finish(r) \/ Close(r) PROVE GuardInv'
  BY <1>3, EndKeepsInv
<1>4. CASE UNCHANGED guardVars
  <2>1. /\ activeGlobal' = activeGlobal /\ activeByIp' = activeByIp /\ request' = request
        /\ UNCHANGED tables
    BY <1>4 DEF guardVars, tables
  <2>2. Waiting' = Waiting /\ \A i : InProgress(i)' = InProgress(i)
    BY <2>1 DEF Waiting, InProgress
  <2>3. SlotsInv'
    BY <2>1, <2>2 DEF GuardInv, SlotsInv
  <2> QED
    BY <2>1, <2>3, SlotsAlone
<1>5. ASSUME NEW r \in Request, BodyEnds(r) \/ BodyRefused(r) \/ Aborted(r) \/ Respond(r)
      PROVE  GuardInv'
  BY <1>2, <1>5 DEF BodyEnds, BodyRefused, Aborted, Respond
<1> QED
  BY <1>1, <1>3, <1>4, <1>5 DEF GuardNext

LEMMA GuardInvariant == GuardSpec => []GuardInv
<1> USE AdmissionAssumption
<1>1. GuardInit => GuardInv
  BY GuardStarts
<1>2. GuardInv /\ [GuardNext]_guardVars => GuardInv'
  BY GuardInductive
<1> QED
  BY <1>1, <1>2, PTL DEF GuardSpec

\* What key has had beyond its refill is at most a full bucket.
LEMMA ExcessIsBounded ==
    ASSUME AdmissionAssumption, NEW keys, NEW limit \in Nat \ {0}, NEW max, NEW table,
           NEW owed, TableInv(table, owed, keys, limit, max), NEW key \in keys
    PROVE  owed[key] <= limit * Window
<1>1. limit * Window \in Nat /\ owed[key] \in Nat
  BY DEF AdmissionAssumption, TableInv
<1>2. CASE ~Listed(table.entries, key)
  BY <1>1, <1>2 DEF TableInv
<1>3. CASE Listed(table.entries, key)
  <2>1. PICK i \in 1..Len(table.entries) : table.entries[i].key = key
    BY <1>3 DEF Listed
  <2> DEFINE e    == table.entries[i]
             gain == (table.lastTimestamp - e.updatedAt) * limit
  <2>2. e \in Entry(keys, limit) /\ table.lastTimestamp \in Nat
    BY <2>1, ElementOfSeq DEF TableInv, Table, AdmissionAssumption
  <2>3. e.updatedAt \in Nat /\ e.updatedAt <= table.lastTimestamp /\ e.tokens \in Nat
    <3>1. e.updatedAt \in 0..MaxClock /\ e.tokens \in 0..limit * Window
      BY <2>2 DEF Entry
    <3>2. e.updatedAt <= table.lastTimestamp
      BY <2>1 DEF TableInv, Ordered
    <3> QED
      BY <1>1, <3>1, <3>2 DEF AdmissionAssumption
  <2>4. gain \in Nat
    <3>1. table.lastTimestamp - e.updatedAt \in Nat
      BY <2>2, <2>3
    <3> QED
      BY <3>1, Products
  <2>5. owed[key] = 0 \/ owed[key] + e.tokens + gain <= limit * Window
    BY <2>1 DEF TableInv, Paid
  <2> HIDE DEF e, gain
  <2> QED
    BY ONLY <1>1, <2>3, <2>4, <2>5
<1> QED
  BY <1>2, <1>3

\* Matchmaking's admission keeps its types and its limits: the tables stay within their
\* sizes, the requests in progress within MaxActive and MaxActivePerIp, in httpGuard.ts and
\* rateLimit.ts.
THEOREM GuardTypeCorrect == GuardSpec => []GuardTypeOK
<1>1. GuardInv => GuardTypeOK
  <2> SUFFICES ASSUME GuardInv PROVE GuardTypeOK
    OBVIOUS
  <2> USE AdmissionAssumption DEF AdmissionAssumption
  <2>1. ipTable.entries \in Seq(Entry(Ip, IpLimit)) /\ Len(ipTable.entries) <= MaxEntries
    BY DEF GuardInv, TableInv, Table
  <2>2. /\ globalTable.entries \in Seq(Entry({"global"}, GlobalLimit))
        /\ Len(globalTable.entries) <= 1
    BY DEF GuardInv, TableInv, Table
  <2>3. activeGlobal \in 0..MaxActive
    BY WaitingIsFinite DEF GuardInv, SlotsInv
  <2>4. DOMAIN activeByIp \subseteq Ip
    BY DEF GuardInv, SlotsInv
  <2>5. ASSUME NEW i \in DOMAIN activeByIp PROVE activeByIp[i] \in 1..MaxActivePerIp
    <3>1. activeByIp[i] = Cardinality(InProgress(i)) /\ activeByIp[i] <= MaxActivePerIp
      BY DEF GuardInv, SlotsInv
    <3>2. InProgress(i) # {}
      BY ActiveIsInProgress DEF GuardInv
    <3>3. Cardinality(InProgress(i)) \in Nat \ {0}
      BY <3>2, WaitingIsFinite
    <3> QED
      BY <3>1, <3>3
  <2>6. request \in [Request -> [stage : {"none", "reading", "aborted", "handling", "ended",
                                         "finished"},
                                ip : Ip \union {NoIp}, released : BOOLEAN]]
    BY DEF GuardInv, SlotsInv, Stage
  <2> QED
    BY <2>1, <2>2, <2>3, <2>4, <2>5, <2>6 DEF GuardTypeOK
<1> QED
  BY <1>1, GuardInvariant, PTL

\* Whatever arrives, breaks off, finishes and closes in whichever order: the counts of
\* MatchmakingHttpGuard are those of the requests in progress, and no address and not all
\* together get more than a full bucket and its refill over any interval, however the clock
\* jumps and the table is pruned (TokenBucketRateLimiter.consume).
THEOREM AdmissionAlwaysBounded == GuardSpec => []AdmissionIsBounded
<1>1. GuardInv => AdmissionIsBounded
  <2> SUFFICES ASSUME GuardInv PROVE AdmissionIsBounded
    OBVIOUS
  <2>1. SlotsMatchRequests
    BY DEF GuardInv, SlotsInv, SlotsMatchRequests, InProgress
  <2>2. ASSUME NEW i \in Ip PROVE ipExcess[i] <= Rate(IpLimit, MaxEntries)!Full
    <3>1. ipExcess[i] <= IpLimit * Window
      BY AdmissionAssumption, ExcessIsBounded DEF GuardInv, AdmissionAssumption
    <3> QED
      BY <3>1 DEF Rate!Full
  <2>3. globalExcess <= Rate(GlobalLimit, 1)!Full
    <3> DEFINE owed == [k \in {"global"} |-> globalExcess]
    <3>1. TableInv(globalTable, owed, {"global"}, GlobalLimit, 1)
      BY DEF GuardInv
    <3>2. owed["global"] = globalExcess
      OBVIOUS
    <3> HIDE DEF owed
    <3>3. owed["global"] <= GlobalLimit * Window
      BY <3>1, AdmissionAssumption, ExcessIsBounded DEF AdmissionAssumption
    <3> QED
      BY <3>2, <3>3 DEF Rate!Full
  <2> QED
    BY <2>1, <2>2, <2>3 DEF AdmissionIsBounded, BucketsHold
<1> QED
  BY <1>1, GuardInvariant, PTL

\* A bucket leaves the table only when it was idle for the retention time, or as the one that
\* was quiet for longest in a full table (the order of the Map in rateLimit.ts).
THEOREM EvictionAlwaysFair == GuardSpec => EvictionIsFair
<1> DEFINE Fair ==
      \A i \in Ip :
         LET before == ipTable.entries
             after  == ipTable'.entries
         IN
         HasBucket(before, i) /\ ~HasBucket(after, i) =>
            LET seenAt == before[Rate(IpLimit, MaxEntries)!PlaceOf(before, i)].lastSeenAt IN
            \/ seenAt + Ttl <= ipTable'.lastTimestamp
            \/ /\ Len(after) = MaxEntries
               /\ \A n \in DOMAIN after : after[n].lastSeenAt >= seenAt
<1>1. GuardInv /\ [GuardNext]_guardVars => [Fair]_guardVars
  <2> SUFFICES ASSUME GuardInv, GuardNext PROVE Fair
    OBVIOUS
  <2>1. CASE ipTable' = ipTable
    BY <2>1
  <2>2. ASSUME NEW ip \in Ip, NEW clock \in 0..MaxClock, Arrive(ip, clock),
               NEW i \in Ip, HasBucket(ipTable.entries, i), ~HasBucket(ipTable'.entries, i)
        PROVE  LET before == ipTable.entries
                   after  == ipTable'.entries
                   seenAt == before[Rate(IpLimit, MaxEntries)!PlaceOf(before, i)].lastSeenAt
               IN
               \/ seenAt + Ttl <= ipTable'.lastTimestamp
               \/ /\ Len(after) = MaxEntries
                  /\ \A n \in DOMAIN after : after[n].lastSeenAt >= seenAt
    <3> DEFINE before == ipTable.entries
               after  == ipTable'.entries
               later  == ipTable'.lastTimestamp
               own    == Rate(IpLimit, MaxEntries)!Consume(ipTable, ip, clock)
               kept   == Kept(ipTable, own, IpLimit, MaxEntries)
               p      == Rate(IpLimit, MaxEntries)!PlaceOf(before, i)
               seenAt == before[p].lastSeenAt
    <3>1. /\ ipTable' = own.table
          /\ IdleCut(before, kept, later) /\ EvictsTheFirst(kept, after, MaxEntries)
          /\ TableInv(ipTable', ipExcess', Ip, IpLimit, MaxEntries)
      BY <2>2, AdmissionAssumption, ArriveAtIpTable DEF ConsumeHolds
    <3>2. TableInv(ipTable, ipExcess, Ip, IpLimit, MaxEntries)
      BY DEF GuardInv
    <3>3. /\ before \in Seq(Entry(Ip, IpLimit)) /\ after \in Seq(Entry(Ip, IpLimit))
          /\ later \in 0..MaxClock
          /\ Ordered(before, Ip, IpLimit, ipTable.lastTimestamp)
      BY <3>1, <3>2 DEF TableInv, Table
    <3> HIDE DEF own
    <3>4. p \in 1..Len(before) /\ before[p].key = i
      BY <2>2, <3>3, PlaceIs DEF HasBucket
    <3> HIDE DEF kept, p
    <3>5. ~Listed(after, i)
      BY <2>2, <3>3, HasBucketIsListed
    <3>6. /\ seenAt \in Nat /\ DOMAIN after = 1..Len(after) /\ Len(before) \in Nat
          /\ \A n \in 1..Len(after) : after[n].lastSeenAt \in Nat
      <4>1. /\ DOMAIN after = 1..Len(after) /\ Len(before) \in Nat
            /\ \A n \in 1..Len(after) : after[n] \in Entry(Ip, IpLimit)
            /\ before[p] \in Entry(Ip, IpLimit)
        BY <3>3, <3>4, ElementOfSeq, LenProperties
      <4>2. \A e \in Entry(Ip, IpLimit) : e.lastSeenAt \in Nat
        BY AdmissionAssumption DEF Entry, AdmissionAssumption
      <4> QED
        BY <4>1, <4>2
    <3> HIDE DEF before, after, later, seenAt
    <3>7. PICK k : Cut(before, kept, k) /\ \A n \in 1..k : before[n].lastSeenAt <= later - Ttl
      BY <3>1 DEF IdleCut
    <3>8. CASE p <= k
      <4>1. p \in 1..k
        BY <3>4, <3>6, <3>7, <3>8 DEF Cut
      <4>2. seenAt <= later - Ttl
        BY <4>1, <3>7 DEF seenAt
      <4>3. seenAt + Ttl <= later
        BY <4>2, <3>3, <3>6, AdmissionAssumption DEF AdmissionAssumption
      <4> QED
        BY <4>3 DEF before, later, seenAt, p
    <3>9. CASE p > k
      <4>1. p - k \in 1..Len(kept) /\ k + (p - k) = p
        BY <3>4, <3>6, <3>7, <3>9 DEF Cut
      <4>2. kept[p - k] = before[p]
        BY <4>1, <3>7 DEF Cut
      <4>3. /\ Len(after) = MaxEntries
            /\ \A n \in 1..Len(after) : seenAt <= after[n].lastSeenAt
        BY <4>1, <4>2, <3>1, <3>4, <3>5 DEF EvictsTheFirst, seenAt
      <4>4. \A n \in DOMAIN after : after[n].lastSeenAt >= seenAt
        BY <4>3, <3>6
      <4> QED
        BY <4>3, <4>4 DEF before, after, seenAt, p
    <3> QED
      BY <3>4, <3>6, <3>7, <3>8, <3>9 DEF Cut
  <2>3. ASSUME NEW r \in Request,
               \/ BodyEnds(r) \/ BodyRefused(r) \/ Aborted(r) \/ Respond(r)
               \/ Finish(r) \/ Close(r)
        PROVE  ipTable' = ipTable
    BY <2>3 DEF BodyEnds, BodyRefused, Aborted, Respond, Step, Finish, Close, tables
  <2>4. ASSUME NEW ip \in Ip, NEW clock \in 0..MaxClock, Arrive(ip, clock) PROVE Fair
    BY <2>2, <2>4
  <2> QED
    BY <2>1, <2>3, <2>4 DEF GuardNext
<1> QED
  BY <1>1, GuardInvariant, PTL DEF GuardSpec, EvictionIsFair
-----------------------------------------------------------------------------
(*****************************************************************************)
(* The session. What a refill would hand out now, the credit, never grows    *)
(* faster than the clock pays, and every step walked is taken from it. So    *)
(* the excess over speed and the credit together stay within the cap, and    *)
(* after a respawn the distance from the spawn and the credit together stay  *)
(* within what the clock has paid since.                                     *)
(*****************************************************************************)
Credit(a) == Refilled(a).tokens

Typed ==
    /\ now \in Nat
    /\ budget \in [Axis -> [tokens : Nat, refillAt : Nat]]
    /\ \A a \in Axis : budget[a].refillAt <= now
    /\ position \in Position
    /\ excess \in [Axis -> Nat]
    /\ respawnedAt \in -1..now

ExcessIsPaid == \A a \in Axis : excess[a] + Credit(a) <= Cap[a]

RespawnIsPaid ==
    respawnedAt >= 0 =>
        \A a \in Axis :
            Distance(Spawn[a], position[a]) + Credit(a) <= (now - respawnedAt) * Speed[a]

TravelInv == Typed /\ ExcessIsPaid /\ RespawnIsPaid
-----------------------------------------------------------------------------
\* What a refill yields, in the terms the arithmetic needs.
LEMMA CreditIs ==
    ASSUME Typed, NEW a \in Axis
    PROVE  /\ Speed[a] \in Nat /\ Cap[a] \in Nat
           /\ (now - budget[a].refillAt) * Speed[a] \in Nat
           /\ Credit(a) = Smaller(Cap[a], budget[a].tokens
                                            + (now - budget[a].refillAt) * Speed[a])
           /\ Credit(a) \in Nat
           /\ Refilled(a) = [tokens |-> Credit(a), refillAt |-> now]
<1>1. Speed[a] \in Nat /\ Cap[a] \in Nat
  BY GuardAssumption
<1>2. /\ budget[a].tokens \in Nat /\ budget[a].refillAt \in Nat
      /\ now \in Nat /\ budget[a].refillAt <= now
  BY DEF Typed
<1>3. Larger(budget[a].refillAt, now) = now
  BY <1>2 DEF Larger
<1>4. (now - budget[a].refillAt) * Speed[a] \in Nat
  BY <1>1, <1>2
<1>5. Refilled(a) = [tokens   |-> Smaller(Cap[a], budget[a].tokens
                                            + (now - budget[a].refillAt) * Speed[a]),
                     refillAt |-> now]
  BY <1>3 DEF Refilled
<1>6. Smaller(Cap[a], budget[a].tokens + (now - budget[a].refillAt) * Speed[a]) \in Nat
  BY <1>1, <1>2, <1>4 DEF Smaller
<1> QED
  BY <1>1, <1>4, <1>5, <1>6 DEF Credit

\* A pause of one unit pays for one unit of walking, at most.
LEMMA OneUnitMore ==
    ASSUME NEW m \in Int, NEW n \in Nat
    PROVE  (m + 1) * n = m * n + n
OBVIOUS

\* The distance of two points is a natural number and obeys the triangle inequality.
LEMMA Triangle ==
    ASSUME NEW m \in Int, NEW n \in Int, NEW o \in Int
    PROVE  /\ Distance(m, n) \in Nat
           /\ Distance(m, m) = 0
           /\ Distance(m, o) <= Distance(m, n) + Distance(n, o)
BY DEF Distance

LEMMA Coordinates ==
    ASSUME NEW p \in Position, NEW a \in Axis
    PROVE  p[a] \in Int
BY GuardAssumption
-----------------------------------------------------------------------------
LEMMA TravelInit == Init => TravelInv
<1> SUFFICES ASSUME Init PROVE TravelInv
  OBVIOUS
<1>1. Typed
  BY GuardAssumption DEF Init, Typed
<1>2. ExcessIsPaid
  <2> SUFFICES ASSUME NEW a \in Axis PROVE excess[a] + Credit(a) <= Cap[a]
    BY DEF ExcessIsPaid
  <2>1. Credit(a) <= Cap[a] /\ Credit(a) \in Nat /\ Cap[a] \in Nat
    BY <1>1, CreditIs DEF Smaller, Typed
  <2> QED
    BY <2>1 DEF Init
<1>3. RespawnIsPaid
  <2>1. ~(respawnedAt >= 0)
    BY DEF Init
  <2> QED
    BY <2>1 DEF RespawnIsPaid
<1> QED
  BY <1>1, <1>2, <1>3 DEF TravelInv

\* Steps that neither let time pass nor touch the walk.
LEMMA WalkUnchanged ==
    ASSUME TravelInv, UNCHANGED <<now, walk>>
    PROVE  TravelInv'
BY DEF TravelInv, Typed, ExcessIsPaid, RespawnIsPaid, Credit, Refilled, walk

\* The clock pays every axis its speed, up to the cap.
LEMMA TickPreserves == TravelInv /\ Tick => TravelInv'
<1> SUFFICES ASSUME TravelInv, Tick PROVE TravelInv'
  OBVIOUS
<1> USE DEF TravelInv
<1>1. /\ now' = now + 1 /\ budget' = budget /\ position' = position
      /\ respawnedAt' = respawnedAt
      /\ excess' = [a \in Axis |-> Larger(0, excess[a] - Speed[a])]
  BY DEF Tick
<1>2. ASSUME NEW a \in Axis PROVE Larger(0, excess[a] - Speed[a]) \in Nat
  BY CreditIs DEF Larger, Typed
<1>3. Typed'
  <2>1. excess' \in [Axis -> Nat]
    BY <1>1, <1>2
  <2>2. /\ now' \in Nat /\ respawnedAt' \in -1..now'
        /\ \A a \in Axis : budget'[a].refillAt <= now'
    BY <1>1 DEF Typed
  <2> QED
    BY <1>1, <2>1, <2>2 DEF Typed
<1>4. ASSUME NEW a \in Axis
      PROVE  /\ Credit(a)' \in Nat /\ Credit(a) \in Nat /\ Speed[a] \in Nat /\ Cap[a] \in Nat
             /\ Credit(a)' <= Credit(a) + Speed[a] /\ Credit(a)' <= Cap[a]
  <2>1. Credit(a)' = Smaller(Cap[a], budget[a].tokens
                                     + (now + 1 - budget[a].refillAt) * Speed[a])
    <3>1. Larger(budget[a].refillAt, now + 1) = now + 1
      BY DEF Larger, Typed
    <3>2. Credit(a)' = Smaller(Cap[a], budget'[a].tokens
                 + (Larger(budget'[a].refillAt, now') - budget'[a].refillAt) * Speed[a])
      BY DEF Credit, Refilled
    <3>3. /\ budget'[a].tokens = budget[a].tokens
          /\ budget'[a].refillAt = budget[a].refillAt
          /\ Larger(budget'[a].refillAt, now') = now + 1
      BY <1>1, <3>1
    <3>4. budget[a].refillAt \in Nat /\ now \in Nat /\ Speed[a] \in Nat
      BY CreditIs DEF Typed
    <3> QED
      BY <3>2, <3>3, <3>4
  <2>2. (now + 1 - budget[a].refillAt) * Speed[a]
          = (now - budget[a].refillAt) * Speed[a] + Speed[a]
    <3>1. now - budget[a].refillAt \in Int /\ Speed[a] \in Nat
      BY CreditIs DEF Typed
    <3>2. now + 1 - budget[a].refillAt = (now - budget[a].refillAt) + 1
      BY DEF Typed
    <3> QED
      BY <3>1, <3>2, OneUnitMore
  <2> DEFINE paid == (now - budget[a].refillAt) * Speed[a]
  <2>3. /\ paid \in Nat /\ Speed[a] \in Nat /\ Cap[a] \in Nat /\ budget[a].tokens \in Nat
        /\ Credit(a) = Smaller(Cap[a], budget[a].tokens + paid)
    BY CreditIs DEF Typed
  <2>4. Credit(a)' = Smaller(Cap[a], budget[a].tokens + (paid + Speed[a]))
    BY <2>1, <2>2
  <2> HIDE DEF paid
  <2> QED
    BY <2>3, <2>4 DEF Smaller
<1>5. ExcessIsPaid'
  <2> SUFFICES ASSUME NEW a \in Axis PROVE excess'[a] + Credit(a)' <= Cap[a]
    BY DEF ExcessIsPaid
  <2>1. excess[a] \in Nat /\ excess[a] + Credit(a) <= Cap[a]
    BY DEF ExcessIsPaid, Typed
  <2>2. excess'[a] = Larger(0, excess[a] - Speed[a])
    BY <1>1
  <2> QED
    BY <1>4, <2>1, <2>2 DEF Larger
<1>6. RespawnIsPaid'
  <2> SUFFICES ASSUME respawnedAt >= 0, NEW a \in Axis
               PROVE  Distance(Spawn[a], position[a]) + Credit(a)'
                        <= (now + 1 - respawnedAt) * Speed[a]
    <3>1. /\ now' = now + 1 /\ respawnedAt' = respawnedAt /\ position' = position
          /\ now \in Nat /\ respawnedAt \in Int
      BY <1>1 DEF Typed
    <3>2. \A a \in Axis : Speed[a] \in Nat
      BY GuardAssumption
    <3> QED
      BY <3>1, <3>2 DEF RespawnIsPaid
  <2>1. (now + 1 - respawnedAt) * Speed[a] = (now - respawnedAt) * Speed[a] + Speed[a]
    <3>1. now - respawnedAt \in Int /\ now + 1 - respawnedAt = (now - respawnedAt) + 1
      BY DEF Typed
    <3> QED
      BY <1>4, <3>1, OneUnitMore
  <2>2. Distance(Spawn[a], position[a]) + Credit(a) <= (now - respawnedAt) * Speed[a]
    BY DEF RespawnIsPaid
  <2> DEFINE since == (now - respawnedAt) * Speed[a]
             far   == Distance(Spawn[a], position[a])
  <2>3. far \in Nat
    BY Coordinates, Triangle, GuardAssumption DEF Typed
  <2>4. since \in Int
    BY <1>4 DEF Typed
  <2>5. far + Credit(a) <= since
    BY <2>2
  <2>6. far + Credit(a)' <= since + Speed[a]
    <3> HIDE DEF since, far
    <3> QED
      BY <2>3, <2>4, <2>5, <1>4
  <2> QED
    BY <2>1, <2>6
<1> QED
  BY <1>3, <1>5, <1>6

\* After any of the three steps below a budget was touched at now, so its tokens are the
\* credit: nothing is left to be paid.
LEMMA CreditAfter ==
    ASSUME Typed', now' = now, NEW a \in Axis, budget'[a].refillAt = now,
           budget'[a].tokens <= Cap[a]
    PROVE  Credit(a)' = budget'[a].tokens
<1>1. now \in Nat /\ Speed[a] \in Nat /\ Cap[a] \in Nat /\ budget'[a].tokens \in Nat
  BY GuardAssumption DEF Typed
<1>2. Larger(now, now) = now /\ (now - now) * Speed[a] = 0
  BY <1>1 DEF Larger
<1>3. Credit(a)' = Smaller(Cap[a], budget'[a].tokens + (now - now) * Speed[a])
  BY <1>2 DEF Credit, Refilled
<1> QED
  BY <1>1, <1>2, <1>3 DEF Smaller
LEMMA CorrectionPreserves ==
    ASSUME TravelInv, NEW to \in Position, NEW sequence \in Nat, MoveBeyondBudget(to, sequence)
    PROVE  TravelInv'
<1> USE DEF TravelInv
<1>1. /\ now' = now /\ position' = position /\ excess' = excess /\ respawnedAt' = respawnedAt
      /\ budget' = [a \in Axis |-> Refilled(a)]
  BY DEF MoveBeyondBudget, ConsumeMoveToken
<1>2. ASSUME NEW a \in Axis
      PROVE  /\ budget'[a] = [tokens |-> Credit(a), refillAt |-> now]
             /\ Credit(a) \in Nat /\ Credit(a) <= Cap[a]
  BY <1>1, CreditIs DEF Smaller, Typed
<1>3. Typed'
  BY <1>1, <1>2 DEF Typed
<1>4. ASSUME NEW a \in Axis PROVE Credit(a)' = Credit(a)
  BY <1>1, <1>2, <1>3, CreditAfter
<1> QED
  BY <1>1, <1>3, <1>4 DEF ExcessIsPaid, RespawnIsPaid

LEMMA RespawnPreserves ==
    ASSUME TravelInv, NEW sequence \in Nat, Respawn(sequence)
    PROVE  TravelInv'
<1> USE DEF TravelInv
<1>1. /\ now' = now /\ position' = Spawn /\ excess' = excess /\ respawnedAt' = now
      /\ budget' = [a \in Axis |-> Emptied(a)]
  BY DEF Respawn, ConsumeMoveToken
<1>2. ASSUME NEW a \in Axis
      PROVE  budget'[a] = [tokens |-> 0, refillAt |-> now]
  <2>1. /\ budget[a].refillAt \in Nat /\ now \in Nat /\ budget[a].refillAt <= now
    BY DEF Typed
  <2>2. Larger(budget[a].refillAt, now) = now
    BY <2>1 DEF Larger
  <2> QED
    BY <1>1, <2>2 DEF Emptied
<1>3. Typed'
  BY <1>1, <1>2, GuardAssumption DEF Typed
<1>4. ASSUME NEW a \in Axis
      PROVE  /\ Credit(a)' = 0 /\ Credit(a) \in Nat /\ Cap[a] \in Nat /\ Speed[a] \in Nat
             /\ excess[a] \in Nat
  BY <1>1, <1>2, <1>3, CreditIs, CreditAfter DEF Typed
<1>5. ExcessIsPaid'
  BY <1>1, <1>4 DEF ExcessIsPaid
<1>6. RespawnIsPaid'
  <2> SUFFICES ASSUME NEW a \in Axis
               PROVE  Distance(Spawn[a], Spawn[a]) + 0 <= (now - now) * Speed[a]
    BY <1>1, <1>4 DEF RespawnIsPaid
  <2>1. Distance(Spawn[a], Spawn[a]) = 0
    BY Coordinates, Triangle, GuardAssumption
  <2>2. (now - now) * Speed[a] = 0
    BY <1>4 DEF Typed
  <2> QED
    BY <2>1, <2>2
<1> QED
  BY <1>3, <1>5, <1>6

LEMMA MovePreserves ==
    ASSUME TravelInv, NEW to \in Position, NEW sequence \in Nat, Move(to, sequence)
    PROVE  TravelInv'
<1> USE DEF TravelInv
<1> DEFINE step(a) == Distance(position[a], to[a])
<1>1. /\ now' = now /\ position' = to /\ respawnedAt' = respawnedAt
      /\ excess' = [a \in Axis |-> excess[a] + step(a)]
      /\ budget' = [a \in Axis |-> [Refilled(a) EXCEPT !.tokens = Larger(0, @ - step(a))]]
      /\ \A a \in Axis : step(a) <= Credit(a)
  BY DEF Move, ConsumeMoveToken, InBudget, Credit
<1>2. ASSUME NEW a \in Axis
      PROVE  /\ step(a) \in Nat /\ Credit(a) \in Nat /\ Cap[a] \in Nat /\ Credit(a) <= Cap[a]
             /\ Speed[a] \in Nat /\ excess[a] \in Nat
             /\ position[a] \in Int /\ to[a] \in Int /\ Spawn[a] \in Int
  <2>1. position[a] \in Int /\ to[a] \in Int /\ Spawn[a] \in Int
    BY Coordinates, GuardAssumption DEF Typed
  <2>2. step(a) \in Nat
    BY <2>1, Triangle
  <2>3. Credit(a) \in Nat /\ Cap[a] \in Nat /\ Speed[a] \in Nat /\ Credit(a) <= Cap[a]
    <3>1. /\ Speed[a] \in Nat /\ Cap[a] \in Nat /\ budget[a].tokens \in Nat
          /\ (now - budget[a].refillAt) * Speed[a] \in Nat
          /\ Credit(a) = Smaller(Cap[a], budget[a].tokens
                                            + (now - budget[a].refillAt) * Speed[a])
      BY CreditIs DEF Typed
    <3> QED
      BY <3>1 DEF Smaller
  <2> HIDE DEF step
  <2> QED
    BY <2>1, <2>2, <2>3 DEF Typed
<1>3. ASSUME NEW a \in Axis
      PROVE  budget'[a] = [tokens |-> Credit(a) - step(a), refillAt |-> now]
  <2>1. budget'[a] = [tokens |-> Larger(0, Credit(a) - step(a)), refillAt |-> now]
    BY <1>1, CreditIs
  <2>2. Larger(0, Credit(a) - step(a)) = Credit(a) - step(a)
    <3>1. step(a) \in Nat /\ Credit(a) \in Nat /\ step(a) <= Credit(a)
      BY <1>1, <1>2
    <3> HIDE DEF step
    <3> QED
      BY <3>1 DEF Larger
  <2> QED
    BY <2>1, <2>2
<1>4. ASSUME NEW a \in Axis PROVE Credit(a) - step(a) \in Nat /\ Credit(a) - step(a) <= Cap[a]
  <2>1. step(a) \in Nat /\ Credit(a) \in Nat /\ step(a) <= Credit(a)
        /\ Credit(a) <= Cap[a] /\ Cap[a] \in Nat
    BY <1>1, <1>2
  <2> HIDE DEF step
  <2> QED
    BY <2>1
<1>5. Typed'
  <2>1. budget' \in [Axis -> [tokens : Nat, refillAt : Nat]]
    <3>1. ASSUME NEW a \in Axis PROVE budget'[a] \in [tokens : Nat, refillAt : Nat]
      <4> DEFINE left == Credit(a) - step(a)
      <4>1. now \in Nat /\ left \in Nat
        BY <1>4 DEF Typed
      <4>2. budget'[a] = [tokens |-> left, refillAt |-> now]
        BY <1>3
      <4> HIDE DEF left
      <4> QED
        BY <4>1, <4>2
    <3> QED
      BY <1>1, <3>1
  <2>2. excess' \in [Axis -> Nat]
    BY <1>1, <1>2
  <2>3. \A a \in Axis : budget'[a].refillAt <= now'
    <3>1. ASSUME NEW a \in Axis PROVE budget'[a].refillAt = now
      <4> DEFINE left == Credit(a) - step(a)
      <4>1. budget'[a] = [tokens |-> left, refillAt |-> now]
        BY <1>3
      <4> HIDE DEF left
      <4> QED
        BY <4>1
    <3> QED
      BY <1>1, <3>1 DEF Typed
  <2> QED
    BY <1>1, <2>1, <2>2, <2>3 DEF Typed
<1>6. ASSUME NEW a \in Axis PROVE Credit(a)' = Credit(a) - step(a)
  BY <1>1, <1>3, <1>4, <1>5, CreditAfter
<1>7. ExcessIsPaid'
  <2> SUFFICES ASSUME NEW a \in Axis PROVE excess'[a] + Credit(a)' <= Cap[a]
    BY DEF ExcessIsPaid
  <2>1. excess'[a] = excess[a] + step(a) /\ Credit(a)' = Credit(a) - step(a)
    BY <1>1, <1>6
  <2>2. /\ excess[a] + Credit(a) <= Cap[a]
        /\ step(a) \in Nat /\ Credit(a) \in Nat /\ excess[a] \in Nat /\ Cap[a] \in Nat
    BY <1>2 DEF ExcessIsPaid
  <2> HIDE DEF step
  <2> QED
    BY <2>1, <2>2
<1>8. RespawnIsPaid'
  <2> SUFFICES ASSUME respawnedAt >= 0, NEW a \in Axis
               PROVE  Distance(Spawn[a], to[a]) + Credit(a)' <= (now - respawnedAt) * Speed[a]
    BY <1>1 DEF RespawnIsPaid
  <2> DEFINE since == (now - respawnedAt) * Speed[a]
             far   == Distance(Spawn[a], position[a])
             reach == Distance(Spawn[a], to[a])
  <2>1. far + Credit(a) <= since
    BY DEF RespawnIsPaid
  <2>2. reach <= far + step(a) /\ reach \in Nat /\ far \in Nat
    BY <1>2, Triangle
  <2>3. since \in Int
    BY <1>2 DEF Typed
  <2>4. Credit(a)' = Credit(a) - step(a) /\ Credit(a) \in Nat /\ step(a) \in Nat
    BY <1>2, <1>6
  <2>5. reach + Credit(a)' <= since
    <3> HIDE DEF since, far, reach, step
    <3> QED
      BY <2>1, <2>2, <2>3, <2>4
  <2> QED
    BY <2>5
<1> QED
  BY <1>5, <1>7, <1>8
-----------------------------------------------------------------------------
LEMMA TravelNext == TravelInv /\ [Next]_vars => TravelInv'
<1> SUFFICES ASSUME TravelInv, [Next]_vars PROVE TravelInv'
  OBVIOUS
<1> USE GuardAssumption
<1>1. CASE Tick
  BY <1>1, TickPreserves
<1>2. CASE MoveTooFast \/ MoveMalformed \/ MoveStale
  BY <1>2, WalkUnchanged DEF MoveTooFast, MoveMalformed, MoveStale, ConsumeMoveToken
<1>3. ASSUME NEW sequence \in 1..MaxSequence, Respawn(sequence) PROVE TravelInv'
  BY <1>3, RespawnPreserves
<1>4. ASSUME NEW sequence \in 1..MaxSequence, NEW to \in Position, Move(to, sequence)
      PROVE  TravelInv'
  BY <1>4, MovePreserves
<1>5. ASSUME NEW sequence \in 1..MaxSequence, NEW to \in Position,
             MoveBeyondBudget(to, sequence)
      PROVE  TravelInv'
  BY <1>5, CorrectionPreserves
<1>6. CASE OtherMalformed
  BY <1>6, WalkUnchanged DEF OtherMalformed
<1>7. ASSUME NEW connected \in BOOLEAN, ZapFlash(connected) PROVE TravelInv'
  BY <1>7, WalkUnchanged DEF ZapFlash
<1>8. CASE UNCHANGED vars
  BY <1>8, WalkUnchanged DEF vars, walk
<1> QED
  BY <1>1, <1>2, <1>3, <1>4, <1>5, <1>6, <1>7, <1>8 DEF Next

LEMMA TravelInductive == Spec => []TravelInv
<1> QED
  BY TravelInit, TravelNext, PTL DEF Spec

LEMMA TravelImplies == TravelInv => TravelIsBounded /\ RespawnBuysNoBurst
<1> SUFFICES ASSUME TravelInv PROVE TravelIsBounded /\ RespawnBuysNoBurst
  OBVIOUS
<1> USE DEF TravelInv
<1>1. ASSUME NEW a \in Axis
      PROVE  /\ Credit(a) \in Nat /\ Cap[a] \in Nat /\ Speed[a] \in Nat /\ excess[a] \in Nat
             /\ Distance(Spawn[a], position[a]) \in Nat
  BY CreditIs, Coordinates, Triangle, GuardAssumption DEF Typed
<1>2. TravelIsBounded
  <2> SUFFICES ASSUME NEW a \in Axis PROVE excess[a] <= Cap[a]
    BY DEF TravelIsBounded
  <2>1. excess[a] + Credit(a) <= Cap[a]
    BY DEF ExcessIsPaid
  <2> QED
    BY <1>1, <2>1
<1>3. RespawnBuysNoBurst
  <2> SUFFICES ASSUME respawnedAt >= 0, NEW a \in Axis
               PROVE  Distance(Spawn[a], position[a]) <= (now - respawnedAt) * Speed[a]
    BY DEF RespawnBuysNoBurst
  <2> DEFINE since == (now - respawnedAt) * Speed[a]
             far   == Distance(Spawn[a], position[a])
  <2>1. far + Credit(a) <= since
    BY DEF RespawnIsPaid
  <2>2. since \in Int
    BY <1>1 DEF Typed
  <2>3. far \in Nat /\ Credit(a) \in Nat
    BY <1>1
  <2>4. far <= since
    <3> HIDE DEF since, far
    <3> QED
      BY <2>1, <2>2, <2>3
  <2> QED
    BY <2>4
<1> QED
  BY <1>2, <1>3

\* Whatever limits are configured and whatever a session sends, over any interval it walks
\* at most speed times the interval plus the cap (PalaceRoom.ts consumeMovementBudget).
THEOREM TravelBounded == Spec => []TravelIsBounded
<1> QED
  BY TravelInductive, TravelImplies, PTL

\* The respawn shortcut around the budget is never worth anything: after it a session is no
\* further from the spawn than its speed allows since (PalaceRoom.ts resetDistanceBudget).
THEOREM NoRespawnBurst == Spec => []RespawnBuysNoBurst
<1> QED
  BY TravelInductive, TravelImplies, PTL

\* Both together: no sequence of moves, pauses, corrections and respawns gets a session
\* further than walking would (PalaceRoom.ts #handleMovement).
THEOREM TravelAlwaysHonest == Spec => []TravelIsHonest
<1> QED
  BY TravelBounded, NoRespawnBurst, PTL DEF TravelIsHonest
-----------------------------------------------------------------------------
(*****************************************************************************)
(* The session's windows. Timestamps come in the order of the clock, so what *)
(* is past is always a first part, and cutting it off early or late leaves   *)
(* the same: the room, which cuts whenever it looks, counts what a window    *)
(* really let through. Invalid messages are counted in windows that do not   *)
(* overlap; two of them together bound any other.                            *)
(*****************************************************************************)
\* Timestamps in the order of a clock that stands at time.
Ascending(stamps, time) ==
    /\ stamps \in Seq(Nat)
    /\ \A i \in 1..Len(stamps) : stamps[i] <= time
    /\ \A i, j \in 1..Len(stamps) : i < j => stamps[i] <= stamps[j]

\* kept is sent without first elements that are past the window.
Behind(sent, kept, time, window) ==
    \E k : Cut(sent, kept, k) /\ \A i \in 1..k : sent[i] <= time - window

\* None of what is left is past it.
Fresh(stamps, time, window) == \A i \in 1..Len(stamps) : stamps[i] > time - window

LEMMA RecentIs ==
    ASSUME now \in Nat, NEW window \in Nat, NEW stamps, Ascending(stamps, now)
    PROVE  /\ Ascending(Recent(stamps, window), now)
           /\ Behind(stamps, Recent(stamps, window), now, window)
           /\ Fresh(Recent(stamps, window), now, window)
<1> DEFINE n       == Len(stamps)
           expired == {i \in DOMAIN stamps : \A j \in 1..i : stamps[j] <= now - window}
           k       == Cardinality(expired)
           recent  == Recent(stamps, window)
<1>1. /\ stamps \in Seq(Nat) /\ n \in Nat /\ DOMAIN stamps = 1..n
      /\ \A i \in 1..n : stamps[i] \in Nat
  BY LenProperties, ElementOfSeq DEF Ascending
<1>2. k \in 0..n /\ expired = 1..k
  <2>1. expired \subseteq 1..n /\ \A i \in expired : \A j \in 1..i : j \in expired
    BY <1>1
  <2> HIDE DEF expired
  <2> QED
    BY <1>1, <2>1, PrefixIsInterval
<1>3. \A i \in 1..k : stamps[i] <= now - window
  <2>1. \A i \in expired : i \in 1..n /\ \A j \in 1..i : stamps[j] <= now - window
    BY <1>1
  <2>2. \A i \in 1..k : i \in expired /\ i \in 1..i
    BY <1>2
  <2> QED
    BY <2>1, <2>2
<1>4. \A i \in 1..n : (\A j \in 1..i : stamps[j] <= now - window) => i \in expired
  BY <1>1
<1>5. recent = SubSeq(stamps, k + 1, n)
  BY DEF Recent
<1> HIDE DEF k, n, expired
<1>6. ASSUME k + 1 \in 1..n PROVE stamps[k + 1] > now - window
  <2>1. SUFFICES ASSUME ~(stamps[k + 1] > now - window) PROVE FALSE
    OBVIOUS
  <2>2. \A j \in 1..(k + 1) : stamps[j] <= now - window
    <3>1. \A j \in 1..(k + 1) : j \in 1..k \/ j = k + 1
      BY <1>2
    <3>2. stamps[k + 1] <= now - window
      BY <1>1, <1>6, <2>1
    <3> QED
      BY <3>1, <3>2, <1>3
  <2>3. k + 1 \in expired
    BY <1>6, <2>2, <1>4
  <2> QED
    BY <2>3, <1>2
<1>7. recent \in Seq(Nat) /\ Cut(stamps, recent, k)
  BY <1>1, <1>2, <1>5, SuffixIsCut DEF n
<1> HIDE DEF recent
<1>8. /\ Len(recent) = n - k /\ Len(recent) \in Nat
      /\ \A i \in 1..Len(recent) : recent[i] = stamps[k + i] /\ k + i \in 1..n
  BY <1>1, <1>2, <1>7 DEF Cut, n
<1>9. Ascending(recent, now)
  <2>1. ASSUME NEW i \in 1..Len(recent) PROVE recent[i] <= now
    BY <1>8 DEF Ascending, n
  <2>2. ASSUME NEW i \in 1..Len(recent), NEW j \in 1..Len(recent), i < j
        PROVE  recent[i] <= recent[j]
    <3>1. k + i < k + j
      BY <1>2, <1>8, <2>2
    <3> QED
      BY <3>1, <1>8 DEF Ascending, n
  <2> QED
    BY <1>7, <2>1, <2>2 DEF Ascending
<1>10. ASSUME NEW i \in 1..Len(recent) PROVE recent[i] > now - window
  <2>1. recent[i] = stamps[k + i] /\ k + i \in 1..n
    BY <1>8
  <2>2. k + 1 \in 1..n /\ stamps[k + 1] > now - window
    BY <2>1, <1>1, <1>2, <1>6
  <2>3. stamps[k + 1] <= stamps[k + i]
    <3>1. i = 1 \/ k + 1 < k + i
      BY <1>2, <1>8
    <3> QED
      BY <2>1, <2>2, <3>1, <1>1 DEF Ascending, n
  <2> QED
    BY <2>1, <2>2, <2>3, <1>1
<1> QED
  BY <1>3, <1>7, <1>9, <1>10 DEF Behind, Fresh, recent

\* However often the expired ones are cut off, the same ones are left.
LEMMA FreshIsUnique ==
    ASSUME NEW time \in Nat, NEW window \in Nat, NEW sent \in Seq(Nat),
           NEW s \in Seq(Nat), NEW t \in Seq(Nat),
           Behind(sent, s, time, window), Fresh(s, time, window),
           Behind(sent, t, time, window), Fresh(t, time, window)
    PROVE  s = t
<1>1. PICK k : Cut(sent, s, k) /\ \A i \in 1..k : sent[i] <= time - window
  BY DEF Behind
<1>2. PICK m : Cut(sent, t, m) /\ \A i \in 1..m : sent[i] <= time - window
  BY DEF Behind
<1>3. /\ Len(sent) \in Nat /\ \A i \in 1..Len(sent) : sent[i] \in Nat
  BY LenProperties, ElementOfSeq
<1>4. k \in 0..Len(sent) /\ m \in 0..Len(sent)
  BY <1>1, <1>2 DEF Cut
<1>5. ~(k < m)
  <2>1. SUFFICES ASSUME k < m PROVE FALSE
    OBVIOUS
  <2>2. 1 \in 1..Len(s) /\ k + 1 \in 1..m /\ k + 1 \in 1..Len(sent)
    BY <2>1, <1>1, <1>3, <1>4 DEF Cut
  <2>3. s[1] = sent[k + 1] /\ s[1] > time - window /\ sent[k + 1] <= time - window
    BY <2>2, <1>1, <1>2 DEF Cut, Fresh
  <2> QED
    BY <2>2, <2>3, <1>3
<1>6. ~(m < k)
  <2>1. SUFFICES ASSUME m < k PROVE FALSE
    OBVIOUS
  <2>2. 1 \in 1..Len(t) /\ m + 1 \in 1..k /\ m + 1 \in 1..Len(sent)
    BY <2>1, <1>2, <1>3, <1>4 DEF Cut
  <2>3. t[1] = sent[m + 1] /\ t[1] > time - window /\ sent[m + 1] <= time - window
    BY <2>2, <1>1, <1>2 DEF Cut, Fresh
  <2> QED
    BY <2>2, <2>3, <1>3
<1>7. k = m
  BY <1>4, <1>5, <1>6
<1> QED
  BY <1>1, <1>2, <1>7, SeqEqual DEF Cut

LEMMA BehindTwice ==
    ASSUME NEW time \in Nat, NEW window \in Nat, NEW sent \in Seq(Nat),
           NEW s \in Seq(Nat), NEW t,
           Behind(sent, s, time, window), Behind(s, t, time, window)
    PROVE  Behind(sent, t, time, window)
<1>1. PICK k : Cut(sent, s, k) /\ \A i \in 1..k : sent[i] <= time - window
  BY DEF Behind
<1>2. PICK m : Cut(s, t, m) /\ \A i \in 1..m : s[i] <= time - window
  BY DEF Behind
<1>3. Len(sent) \in Nat /\ Len(s) \in Nat /\ k \in 0..Len(sent) /\ m \in 0..Len(s)
  BY <1>1, <1>2, LenProperties DEF Cut
<1>4. Cut(sent, t, k + m)
  <2>1. k + m \in 0..Len(sent) /\ Len(t) = Len(sent) - (k + m)
    BY <1>1, <1>2, <1>3 DEF Cut
  <2>2. ASSUME NEW i \in 1..Len(t) PROVE t[i] = sent[(k + m) + i]
    <3>1. m + i \in 1..Len(s) /\ k + (m + i) = (k + m) + i
      BY <1>2, <1>3 DEF Cut
    <3>2. t[i] = s[m + i] /\ s[m + i] = sent[k + (m + i)]
      BY <1>1, <1>2, <3>1 DEF Cut
    <3> QED
      BY <3>1, <3>2
  <2> QED
    BY <2>1, <2>2 DEF Cut
<1>5. ASSUME NEW i \in 1..(k + m) PROVE sent[i] <= time - window
  <2>1. CASE i <= k
    BY <2>1, <1>1, <1>3
  <2>2. CASE i > k
    <3>1. i - k \in 1..m /\ i - k \in 1..Len(s) /\ k + (i - k) = i
      BY <2>2, <1>3
    <3> QED
      BY <3>1, <1>1, <1>2 DEF Cut
  <2> QED
    BY <2>1, <2>2, <1>3
<1> QED
  BY <1>4, <1>5 DEF Behind
-----------------------------------------------------------------------------
\* The room keeps, of what was sent in a window, all but first elements that are past, and
\* no more than max were sent.
WindowHolds(sent, kept, time, window, max) ==
    /\ Ascending(sent, time) /\ Ascending(kept, time)
    /\ Behind(sent, kept, time, window)
    /\ Len(sent) <= max

\* The first InvalidLimit - 1 messages before the ones counted are the ones of an earlier
\* window, which are past before the next is opened; what is before them is past for good.
InvalidsAreCounted ==
    /\ Ascending(invalids, now)
    /\ invalidCount \in 0..InvalidLimit /\ invalidWindowStartedAt \in 0..now
    /\ closing \in BOOLEAN
    /\ ~closing => invalidCount < InvalidLimit
    /\ \A i \in 1..Len(invalids) - invalidCount : invalids[i] <= invalidWindowStartedAt
    /\ \A i \in 1..Len(invalids) - invalidCount - (InvalidLimit - 1) :
          invalids[i] <= invalidWindowStartedAt - InvalidWindow

WindowsInv ==
    /\ now \in Nat
    /\ WindowHolds(moved, movementTimestamps, now, MoveWindow, MaxMoves)
    /\ WindowHolds(flashed, zapFlashTimestamps, now, ZapWindow, MaxZaps)
    /\ InvalidsAreCounted
-----------------------------------------------------------------------------
LEMMA NothingYet ==
    ASSUME NEW time \in Nat, NEW window \in Nat, NEW max \in Nat
    PROVE  Ascending(<<>>, time) /\ WindowHolds(<<>>, <<>>, time, window, max)
<1>1. <<>> \in Seq(Nat) /\ Len(<<>>) = 0
  BY EmptySeq
<1>2. Ascending(<<>>, time)
  BY <1>1 DEF Ascending
<1>3. Cut(<<>>, <<>>, 0)
  BY <1>1 DEF Cut
<1>4. Behind(<<>>, <<>>, time, window)
  BY <1>3 DEF Behind
<1> QED
  BY <1>1, <1>2, <1>4 DEF WindowHolds

LEMMA Later ==
    ASSUME NEW time \in Nat, NEW window \in Nat, NEW max, NEW sent, NEW kept
    PROVE  /\ Ascending(sent, time) => Ascending(sent, time + 1)
           /\ WindowHolds(sent, kept, time, window, max)
                => WindowHolds(sent, kept, time + 1, window, max)
<1>1. ASSUME NEW s, Ascending(s, time) PROVE Ascending(s, time + 1)
  <2>1. \A i \in 1..Len(s) : s[i] \in Nat /\ s[i] <= time
    BY <1>1, ElementOfSeq DEF Ascending
  <2> QED
    BY <1>1, <2>1 DEF Ascending
<1>2. ASSUME Ascending(sent, time), Behind(sent, kept, time, window)
      PROVE  Behind(sent, kept, time + 1, window)
  <2>1. PICK k : Cut(sent, kept, k) /\ \A i \in 1..k : sent[i] <= time - window
    BY <1>2 DEF Behind
  <2>2. Len(sent) \in Nat /\ \A i \in 1..Len(sent) : sent[i] \in Nat
    BY <1>2, LenProperties, ElementOfSeq DEF Ascending
  <2>3. \A i \in 1..k : i \in 1..Len(sent)
    BY <2>1, <2>2 DEF Cut
  <2>4. \A i \in 1..k : sent[i] <= time + 1 - window
    BY <2>1, <2>2, <2>3
  <2> QED
    BY <2>1, <2>4 DEF Behind
<1> QED
  BY <1>1, <1>2 DEF WindowHolds

LEMMA AppendAscends ==
    ASSUME NEW time \in Nat, NEW stamps, Ascending(stamps, time)
    PROVE  /\ Ascending(Append(stamps, time), time)
           /\ Len(Append(stamps, time)) = Len(stamps) + 1
           /\ \A i \in 1..Len(stamps) : Append(stamps, time)[i] = stamps[i]
           /\ Append(stamps, time)[Len(stamps) + 1] = time
<1> DEFINE new == Append(stamps, time)
           n   == Len(stamps)
<1>1. stamps \in Seq(Nat) /\ n \in Nat
  BY LenProperties DEF Ascending
<1>2. /\ new \in Seq(Nat) /\ Len(new) = n + 1
      /\ \A i \in 1..n : new[i] = stamps[i]
      /\ new[n + 1] = time
  BY <1>1, AppendProperties
<1> HIDE DEF new
<1>3. ASSUME NEW i \in 1..Len(new) PROVE new[i] <= time
  <2>1. CASE i \in 1..n
    BY <1>2, <2>1 DEF Ascending
  <2>2. CASE i = n + 1
    BY <1>2, <2>2
  <2> QED
    BY <1>1, <1>2, <2>1, <2>2
<1>4. ASSUME NEW i \in 1..Len(new), NEW j \in 1..Len(new), i < j PROVE new[i] <= new[j]
  <2>1. CASE j \in 1..n
    <3>1. i \in 1..n
      BY <1>1, <1>4, <2>1
    <3> QED
      BY <1>2, <1>4, <2>1, <3>1 DEF Ascending
  <2>2. CASE j = n + 1
    BY <1>2, <1>3, <2>2
  <2> QED
    BY <1>1, <1>2, <2>1, <2>2
<1> HIDE DEF n
<1>5. Ascending(new, time)
  BY <1>2, <1>3, <1>4 DEF Ascending
<1> QED
  BY <1>2, <1>5 DEF n, new

\* Cutting off what is past leaves a window that holds.
LEMMA CutHolds ==
    ASSUME now \in Nat, NEW window \in Nat, NEW max, NEW sent, NEW kept,
           WindowHolds(sent, kept, now, window, max)
    PROVE  WindowHolds(sent, Recent(kept, window), now, window, max)
<1>1. Ascending(sent, now) /\ Ascending(kept, now) /\ Behind(sent, kept, now, window)
  BY DEF WindowHolds
<1>2. Ascending(Recent(kept, window), now) /\ Behind(kept, Recent(kept, window), now, window)
  BY <1>1, RecentIs
<1>3. Behind(sent, Recent(kept, window), now, window)
  BY <1>1, <1>2, BehindTwice DEF Ascending
<1> QED
  BY <1>1, <1>2, <1>3 DEF WindowHolds

\* One more is let through when what is kept of the window leaves room for it.
LEMMA OneMoreHolds ==
    ASSUME now \in Nat, NEW window \in Nat, NEW max \in Nat, NEW sent, NEW kept,
           WindowHolds(sent, kept, now, window, max), Len(Recent(kept, window)) < max
    PROVE  WindowHolds(Append(Recent(sent, window), now), Append(Recent(kept, window), now),
                       now, window, max)
<1>1. Ascending(sent, now) /\ Ascending(kept, now) /\ Behind(sent, kept, now, window)
  BY DEF WindowHolds
<1>2. /\ Ascending(Recent(kept, window), now)
      /\ Behind(kept, Recent(kept, window), now, window)
      /\ Fresh(Recent(kept, window), now, window)
  BY <1>1, RecentIs
<1>3. /\ Ascending(Recent(sent, window), now)
      /\ Behind(sent, Recent(sent, window), now, window)
      /\ Fresh(Recent(sent, window), now, window)
  BY <1>1, RecentIs
<1>4. Behind(sent, Recent(kept, window), now, window)
  BY <1>1, <1>2, BehindTwice DEF Ascending
<1>5. Recent(sent, window) = Recent(kept, window)
  BY <1>1, <1>2, <1>3, <1>4, FreshIsUnique DEF Ascending
<1> DEFINE new == Append(Recent(kept, window), now)
<1>6. Ascending(new, now) /\ Len(new) = Len(Recent(kept, window)) + 1
  BY <1>2, AppendAscends
<1> HIDE DEF new
<1>7. Len(Recent(kept, window)) \in Nat
  BY <1>2, LenProperties DEF Ascending
<1>8. Len(new) <= max
  BY <1>6, <1>7
<1>9. Cut(new, new, 0)
  BY <1>6, <1>7 DEF Cut
<1>10. Behind(new, new, now, window)
  BY <1>9 DEF Behind
<1>11. WindowHolds(new, new, now, window, max)
  BY <1>6, <1>8, <1>10 DEF WindowHolds
<1> QED
  BY <1>5, <1>11 DEF new
-----------------------------------------------------------------------------
LEMMA WindowsStart == Init => WindowsInv
<1> SUFFICES ASSUME Init PROVE WindowsInv
  OBVIOUS
<1>1. /\ now = 0 /\ movementTimestamps = <<>> /\ zapFlashTimestamps = <<>>
      /\ invalidCount = 0 /\ invalidWindowStartedAt = 0 /\ closing = FALSE
      /\ moved = <<>> /\ flashed = <<>> /\ invalids = <<>>
  BY DEF Init
<1>2. /\ WindowHolds(<<>>, <<>>, 0, MoveWindow, MaxMoves)
      /\ WindowHolds(<<>>, <<>>, 0, ZapWindow, MaxZaps)
      /\ Ascending(<<>>, 0)
  BY NothingYet, GuardAssumption
<1>3. InvalidsAreCounted
  <2>1. Len(<<>>) = 0 /\ InvalidLimit \in Nat \ {0}
    BY GuardAssumption, EmptySeq
  <2>2. invalidCount \in 0..InvalidLimit /\ invalidWindowStartedAt \in 0..now
        /\ invalidCount < InvalidLimit
    BY <1>1, <2>1
  <2>3. /\ 1..Len(invalids) - invalidCount = {}
        /\ 1..Len(invalids) - invalidCount - (InvalidLimit - 1) = {}
    BY <1>1, <2>1
  <2>4. closing \in BOOLEAN /\ Ascending(invalids, now)
    BY <1>1, <1>2
  <2> QED
    BY <2>2, <2>3, <2>4 DEF InvalidsAreCounted
<1> QED
  BY <1>1, <1>2, <1>3 DEF WindowsInv

\* Counting one more: the ones counted before are the last ones, and a new count starts only
\* when the one before has stayed below its limit and is past.
LEMMA RecordKeepsCount ==
    ASSUME now \in Nat, InvalidsAreCounted, ~closing, RecordInvalidMessage, now' = now
    PROVE  InvalidsAreCounted'
<1> DEFINE s     == invalidWindowStartedAt
           n     == Len(invalids)
           left  == Recent(invalids, InvalidWindow)
           c     == invalidCount
<1>1. /\ InvalidLimit \in Nat \ {0} /\ InvalidWindow \in Nat \ {0}
  BY GuardAssumption
<1>2. /\ Ascending(invalids, now) /\ c \in 0..InvalidLimit - 1 /\ s \in 0..now
      /\ \A i \in 1..n - c : invalids[i] <= s
      /\ \A i \in 1..n - c - (InvalidLimit - 1) : invalids[i] <= s - InvalidWindow
  BY <1>1 DEF InvalidsAreCounted
<1>3. Ascending(left, now) /\ Behind(invalids, left, now, InvalidWindow)
  BY <1>1, <1>2, RecentIs
<1>4. PICK k : Cut(invalids, left, k)
  BY <1>3 DEF Behind
<1>5. /\ invalids \in Seq(Nat) /\ n \in Nat /\ Len(left) \in Nat
      /\ \A i \in 1..n : invalids[i] \in Nat /\ invalids[i] <= now
  BY <1>2, <1>3, LenProperties, ElementOfSeq DEF Ascending
<1>6. invalids' = Append(left, now)
  BY DEF RecordInvalidMessage
<1>7. /\ Ascending(invalids', now) /\ Len(invalids') = Len(left) + 1
      /\ \A i \in 1..Len(left) : invalids'[i] = left[i]
      /\ invalids'[Len(left) + 1] = now
  BY <1>3, <1>6, AppendAscends
<1>8. invalidCount' = (IF now - s >= InvalidWindow THEN 1 ELSE c + 1)
      /\ invalidWindowStartedAt' = (IF now - s >= InvalidWindow THEN now ELSE s)
  BY DEF RecordInvalidMessage
<1>9. closing' \in BOOLEAN /\ (~closing' => ~(invalidCount' >= InvalidLimit))
  <2>1. closing' = (invalidCount' >= InvalidLimit)
    BY DEF RecordInvalidMessage
  <2>2. closing' = TRUE \/ closing' = FALSE
    <3>1. CASE invalidCount' >= InvalidLimit
      BY <2>1, <3>1, SMT
    <3>2. CASE ~(invalidCount' >= InvalidLimit)
      BY <2>1, <3>2, SMT
    <3> QED
      BY <3>1, <3>2
  <2>3. ~closing' => ~(invalidCount' >= InvalidLimit)
    BY <2>1, Zenon
  <2> QED
    BY <2>2, <2>3
<1>10. /\ k \in 0..n /\ Len(left) = n - k
       /\ \A i \in 1..Len(left) : i + k \in 1..n /\ invalids'[i] = invalids[i + k]
  <2>1. /\ k \in 0..n /\ Len(left) = n - k
        /\ \A i \in 1..Len(left) : left[i] = invalids[k + i]
    BY <1>4 DEF Cut
  <2> HIDE DEF n, left
  <2>2. \A i \in 1..Len(left) : k + i \in 1..n /\ k + i = i + k
    BY <1>5, <2>1
  <2> QED
    BY <1>7, <2>1, <2>2
<1> HIDE DEF n, left, c, s
<1>11. /\ invalidCount' \in 0..InvalidLimit /\ invalidWindowStartedAt' \in 0..now
       /\ invalidCount' \in 1..InvalidLimit
  BY <1>1, <1>2, <1>8
<1>12. ASSUME NEW i \in 1..Len(invalids') - invalidCount'
       PROVE  invalids'[i] <= invalidWindowStartedAt'
  <2>1. i \in 1..Len(left)
    BY <1>5, <1>7, <1>11
  <2>2. invalids'[i] = invalids[i + k] /\ i + k \in 1..n
    BY <1>10, <2>1
  <2>3. CASE now - s >= InvalidWindow
    BY <1>5, <1>8, <2>2, <2>3
  <2>4. CASE ~(now - s >= InvalidWindow)
    <3>1. i + k \in 1..n - c
      BY <1>2, <1>5, <1>7, <1>8, <1>10, <2>4
    <3> QED
      BY <1>2, <1>8, <2>2, <2>4, <3>1
  <2> QED
    BY <2>3, <2>4
<1>13. ASSUME NEW i \in 1..Len(invalids') - invalidCount' - (InvalidLimit - 1)
       PROVE  invalids'[i] <= invalidWindowStartedAt' - InvalidWindow
  <2>1. i \in 1..Len(left)
    BY <1>1, <1>5, <1>7, <1>11
  <2>2. invalids'[i] = invalids[i + k] /\ i + k \in 1..n /\ invalids[i + k] \in Nat
    BY <1>5, <1>10, <2>1
  <2>3. CASE now - s >= InvalidWindow
    <3>1. i + k \in 1..n - c
      BY <1>1, <1>2, <1>5, <1>7, <1>8, <1>10, <2>3
    <3>2. invalids[i + k] <= s /\ invalidWindowStartedAt' = now
      BY <1>2, <1>8, <2>3, <3>1
    <3> QED
      BY <1>1, <1>2, <2>2, <2>3, <3>2
  <2>4. CASE ~(now - s >= InvalidWindow)
    <3>1. i + k \in 1..n - c - (InvalidLimit - 1)
      BY <1>1, <1>2, <1>5, <1>7, <1>8, <1>10, <2>4
    <3> QED
      BY <1>2, <1>8, <2>2, <2>4, <3>1
  <2> QED
    BY <2>3, <2>4
<1>14. ~closing' => invalidCount' < InvalidLimit
  BY <1>1, <1>9, <1>11
<1> QED
  BY <1>7, <1>9, <1>11, <1>12, <1>13, <1>14 DEF InvalidsAreCounted

LEMMA CountUnchanged ==
    ASSUME InvalidsAreCounted, UNCHANGED <<now, invalid>>
    PROVE  InvalidsAreCounted'
BY DEF InvalidsAreCounted, invalid

\* What each part of an action does to its part of the invariant.
LEMMA MovesUnchanged ==
    ASSUME WindowsInv, UNCHANGED <<now, movementTimestamps, moved>>
    PROVE  WindowHolds(moved', movementTimestamps', now', MoveWindow, MaxMoves)
BY DEF WindowsInv

LEMMA FlashesUnchanged ==
    ASSUME WindowsInv, UNCHANGED <<now, zapFlashTimestamps, flashed>>
    PROVE  WindowHolds(flashed', zapFlashTimestamps', now', ZapWindow, MaxZaps)
BY DEF WindowsInv

LEMMA TokenHolds ==
    ASSUME WindowsInv, ConsumeMoveToken
    PROVE  /\ now' \in Nat
           /\ WindowHolds(moved', movementTimestamps', now', MoveWindow, MaxMoves)
           /\ WindowHolds(flashed', zapFlashTimestamps', now', ZapWindow, MaxZaps)
<1>1. /\ now' = now /\ zapFlashTimestamps' = zapFlashTimestamps /\ flashed' = flashed
      /\ movementTimestamps' = Append(Recent(movementTimestamps, MoveWindow), now)
      /\ moved' = Append(Recent(moved, MoveWindow), now)
      /\ Len(Recent(movementTimestamps, MoveWindow)) < MaxMoves
  BY DEF ConsumeMoveToken, MayMove
<1>2. MoveWindow \in Nat /\ MaxMoves \in Nat
  BY GuardAssumption
<1>3. now \in Nat /\ WindowHolds(moved, movementTimestamps, now, MoveWindow, MaxMoves)
  BY DEF WindowsInv
<1>4. WindowHolds(moved', movementTimestamps', now', MoveWindow, MaxMoves)
  BY <1>1, <1>2, <1>3, OneMoreHolds
<1> QED
  BY <1>1, <1>3, <1>4, FlashesUnchanged
-----------------------------------------------------------------------------
LEMMA WindowsAtTick == WindowsInv /\ Tick => WindowsInv'
<1> SUFFICES ASSUME WindowsInv, Tick PROVE WindowsInv'
  OBVIOUS
<1>1. /\ now' = now + 1 /\ UNCHANGED <<windows, invalid, moved, flashed>>
  BY DEF Tick
<1>2. now \in Nat /\ MoveWindow \in Nat /\ ZapWindow \in Nat
  BY GuardAssumption DEF WindowsInv
<1>3. /\ WindowHolds(moved, movementTimestamps, now + 1, MoveWindow, MaxMoves)
      /\ WindowHolds(flashed, zapFlashTimestamps, now + 1, ZapWindow, MaxZaps)
  BY <1>2, Later DEF WindowsInv
<1>4. InvalidsAreCounted'
  <2>1. InvalidsAreCounted
    BY DEF WindowsInv
  <2>2. Ascending(invalids, now + 1)
    BY <1>2, <2>1, Later DEF InvalidsAreCounted
  <2>3. invalidWindowStartedAt \in 0..now + 1
    BY <1>2, <2>1 DEF InvalidsAreCounted
  <2> QED
    BY <1>1, <2>1, <2>2, <2>3 DEF InvalidsAreCounted, invalid
<1> QED
  BY <1>1, <1>2, <1>3, <1>4 DEF WindowsInv, windows

LEMMA WindowsAtMove ==
    ASSUME WindowsInv, ConsumeMoveToken, RecordInvalidMessage \/ UNCHANGED invalid
    PROVE  WindowsInv'
<1>1. now' = now /\ ~closing /\ now \in Nat /\ InvalidsAreCounted
  BY DEF ConsumeMoveToken, WindowsInv
<1>2. InvalidsAreCounted'
  BY <1>1, RecordKeepsCount, CountUnchanged
<1> QED
  BY <1>2, TokenHolds DEF WindowsInv

LEMMA WindowsAtMoveTooFast == WindowsInv /\ MoveTooFast => WindowsInv'
<1> SUFFICES ASSUME WindowsInv, MoveTooFast PROVE WindowsInv'
  OBVIOUS
<1>1. /\ movementTimestamps' = Recent(movementTimestamps, MoveWindow) /\ closing' = TRUE
      /\ UNCHANGED <<now, zapFlashTimestamps, invalidCount, invalidWindowStartedAt, invalids,
                     moved, flashed>>
  BY DEF MoveTooFast
<1>2. /\ now \in Nat /\ MoveWindow \in Nat
      /\ WindowHolds(moved, movementTimestamps, now, MoveWindow, MaxMoves)
  BY GuardAssumption DEF WindowsInv
<1>3. WindowHolds(moved', movementTimestamps', now', MoveWindow, MaxMoves)
  BY <1>1, <1>2, CutHolds
<1>4. InvalidsAreCounted'
  BY <1>1 DEF WindowsInv, InvalidsAreCounted
<1> QED
  BY <1>1, <1>2, <1>3, <1>4, FlashesUnchanged DEF WindowsInv

LEMMA WindowsAtZapFlash ==
    ASSUME WindowsInv, NEW connected \in BOOLEAN, ZapFlash(connected)
    PROVE  WindowsInv'
<1> DEFINE recent == Recent(zapFlashTimestamps, ZapWindow)
<1>1. /\ UNCHANGED <<now, movementTimestamps, invalid, moved>>
      /\ \/ /\ Len(recent) < MaxZaps
            /\ zapFlashTimestamps' = Append(recent, now)
            /\ flashed' = Append(Recent(flashed, ZapWindow), now)
         \/ zapFlashTimestamps' = recent /\ flashed' = flashed
  BY DEF ZapFlash
<1>2. /\ now \in Nat /\ ZapWindow \in Nat /\ MaxZaps \in Nat
      /\ WindowHolds(flashed, zapFlashTimestamps, now, ZapWindow, MaxZaps)
  BY GuardAssumption DEF WindowsInv
<1>3. WindowHolds(flashed', zapFlashTimestamps', now', ZapWindow, MaxZaps)
  <2>1. CASE zapFlashTimestamps' = recent /\ flashed' = flashed
    BY <1>1, <1>2, <2>1, CutHolds
  <2>2. CASE /\ Len(recent) < MaxZaps
             /\ zapFlashTimestamps' = Append(recent, now)
             /\ flashed' = Append(Recent(flashed, ZapWindow), now)
    BY <1>1, <1>2, <2>2, OneMoreHolds
  <2> QED
    BY <1>1, <2>1, <2>2
<1>4. InvalidsAreCounted'
  BY <1>1, CountUnchanged DEF WindowsInv
<1> QED
  BY <1>1, <1>2, <1>3, <1>4, MovesUnchanged DEF WindowsInv

LEMMA WindowsInductive == WindowsInv /\ [Next]_vars => WindowsInv'
<1> SUFFICES ASSUME WindowsInv, [Next]_vars PROVE WindowsInv'
  OBVIOUS
<1>1. CASE Tick
  BY <1>1, WindowsAtTick
<1>2. CASE MoveTooFast
  BY <1>2, WindowsAtMoveTooFast
<1>3. CASE MoveMalformed
  BY <1>3, WindowsAtMove DEF MoveMalformed
<1>4. CASE MoveStale
  BY <1>4, WindowsAtMove DEF MoveStale, invalid
<1>5. ASSUME NEW sequence \in 1..MaxSequence, Respawn(sequence) PROVE WindowsInv'
  BY <1>5, WindowsAtMove DEF Respawn, invalid
<1>6. ASSUME NEW sequence \in 1..MaxSequence, NEW to \in Position, Move(to, sequence)
      PROVE  WindowsInv'
  BY <1>6, WindowsAtMove DEF Move, invalid
<1>7. ASSUME NEW sequence \in 1..MaxSequence, NEW to \in Position,
             MoveBeyondBudget(to, sequence)
      PROVE  WindowsInv'
  BY <1>7, WindowsAtMove DEF MoveBeyondBudget
<1>8. CASE OtherMalformed
  <2>1. /\ ~closing /\ RecordInvalidMessage
        /\ UNCHANGED <<now, movementTimestamps, zapFlashTimestamps, moved, flashed>>
    BY <1>8 DEF OtherMalformed, windows
  <2>2. now \in Nat /\ InvalidsAreCounted
    BY DEF WindowsInv
  <2>3. InvalidsAreCounted'
    BY <2>1, <2>2, RecordKeepsCount
  <2> QED
    BY <2>1, <2>2, <2>3, MovesUnchanged, FlashesUnchanged DEF WindowsInv
<1>9. ASSUME NEW connected \in BOOLEAN, ZapFlash(connected) PROVE WindowsInv'
  BY <1>9, WindowsAtZapFlash
<1>10. CASE UNCHANGED vars
  <2>1. UNCHANGED <<now, movementTimestamps, zapFlashTimestamps, moved, flashed, invalid>>
    BY <1>10 DEF vars, invalid
  <2>2. InvalidsAreCounted'
    BY <2>1, CountUnchanged DEF WindowsInv
  <2> QED
    BY <2>1, <2>2, MovesUnchanged, FlashesUnchanged DEF WindowsInv
<1> QED
  BY <1>1, <1>2, <1>3, <1>4, <1>5, <1>6, <1>7, <1>8, <1>9, <1>10 DEF Next

LEMMA WindowsInvariant == Spec => []WindowsInv
<1> QED
  BY WindowsStart, WindowsInductive, PTL DEF Spec
-----------------------------------------------------------------------------
\* Of the last InvalidWindow no more are left than two counts below the limit.
LEMMA BurstIsBounded ==
    ASSUME WindowsInv, ~closing
    PROVE  Len(Recent(invalids, InvalidWindow)) <= 2 * (InvalidLimit - 1)
<1> DEFINE s    == invalidWindowStartedAt
           n    == Len(invalids)
           left == Recent(invalids, InvalidWindow)
           c    == invalidCount
<1>1. InvalidLimit \in Nat \ {0} /\ InvalidWindow \in Nat \ {0} /\ now \in Nat
  BY GuardAssumption DEF WindowsInv
<1>2. /\ Ascending(invalids, now) /\ c \in 0..InvalidLimit - 1 /\ s \in 0..now
      /\ \A i \in 1..n - c - (InvalidLimit - 1) : invalids[i] <= s - InvalidWindow
  BY <1>1 DEF InvalidsAreCounted, WindowsInv
<1>3. Behind(invalids, left, now, InvalidWindow) /\ Fresh(left, now, InvalidWindow)
  BY <1>1, <1>2, RecentIs
<1>4. PICK k : Cut(invalids, left, k)
  BY <1>3 DEF Behind
<1>5. n \in Nat /\ \A i \in 1..n : invalids[i] \in Nat
  BY <1>2, LenProperties, ElementOfSeq DEF Ascending
<1>6. /\ k \in 0..n /\ Len(left) = n - k
      /\ 1 \in 1..Len(left) => invalids[k + 1] > now - InvalidWindow
  BY <1>3, <1>4 DEF Cut, Fresh
<1> HIDE DEF n, left, c, s
<1>7. SUFFICES ASSUME Len(left) > 2 * (InvalidLimit - 1) PROVE FALSE
  BY <1>1, <1>5, <1>6 DEF left
<1>8. 1 \in 1..Len(left) /\ k + 1 \in 1..n /\ k + 1 \in 1..n - c - (InvalidLimit - 1)
  BY <1>1, <1>2, <1>5, <1>6, <1>7
<1>9. invalids[k + 1] <= s - InvalidWindow /\ invalids[k + 1] > now - InvalidWindow
      /\ invalids[k + 1] \in Nat
  BY <1>2, <1>5, <1>6, <1>8
<1> QED
  BY <1>1, <1>2, <1>9

\* No second lets more than MaxMoves move messages through and no minute more than MaxZaps
\* flashes, wherever it starts, and a session that sends invalid messages is closed within
\* two windows' worth of them (consumeMoveToken, #handleZapFlash, #recordInvalidMessage).
THEOREM WindowsAlwaysHold == Spec => []WindowsHold
<1>1. WindowsInv => WindowsHold
  BY BurstIsBounded
     DEF WindowsInv, WindowHolds, WindowsHold, RatesAreBounded, InvalidBurstIsBounded
<1> QED
  BY WindowsInvariant, <1>1, PTL
-----------------------------------------------------------------------------
BudgetsAreCapped ==
    /\ \A a \in Axis : budget[a].tokens <= Cap[a]
    /\ lastSequence \in Nat

LEMMA CapsHold == TravelInv /\ BudgetsAreCapped /\ [Next]_vars => BudgetsAreCapped'
<1> SUFFICES ASSUME TravelInv, BudgetsAreCapped, [Next]_vars PROVE BudgetsAreCapped'
  OBVIOUS
<1>1. Typed
  BY DEF TravelInv
<1>2. ASSUME NEW a \in Axis
      PROVE  /\ Cap[a] \in Nat /\ Refilled(a).tokens \in Nat /\ Refilled(a).tokens <= Cap[a]
  <2>1. /\ Cap[a] \in Nat /\ Speed[a] \in Nat /\ Credit(a) \in Nat
        /\ (now - budget[a].refillAt) * Speed[a] \in Nat
        /\ Credit(a) = Smaller(Cap[a], budget[a].tokens
                                         + (now - budget[a].refillAt) * Speed[a])
    BY <1>1, CreditIs
  <2>2. budget[a].tokens \in Nat
    BY <1>1 DEF Typed
  <2> QED
    BY <2>1, <2>2 DEF Credit, Smaller
<1>3. CASE UNCHANGED <<budget, lastSequence>>
  BY <1>3 DEF BudgetsAreCapped
<1>4. ASSUME NEW sequence \in 1..MaxSequence, Respawn(sequence) PROVE BudgetsAreCapped'
  <2>1. budget' = [a \in Axis |-> Emptied(a)] /\ lastSequence' = sequence
    BY <1>4 DEF Respawn
  <2>2. \A a \in Axis : budget'[a].tokens = 0 /\ Cap[a] \in Nat
    BY <1>2, <2>1 DEF Emptied
  <2>3. sequence \in Nat
    BY GuardAssumption
  <2> QED
    BY <2>1, <2>2, <2>3 DEF BudgetsAreCapped
<1>5. ASSUME NEW sequence \in 1..MaxSequence, NEW to \in Position, Move(to, sequence)
      PROVE  BudgetsAreCapped'
  <2> DEFINE travelled(a) == Distance(position[a], to[a])
  <2>1. /\ budget' = [a \in Axis |-> [Refilled(a) EXCEPT !.tokens = Larger(0, @ - travelled(a))]]
        /\ lastSequence' = sequence
    BY <1>5 DEF Move
  <2>2. ASSUME NEW a \in Axis PROVE budget'[a].tokens <= Cap[a]
    <3>1. travelled(a) \in Nat
      BY <1>1, Coordinates, Triangle DEF Typed
    <3> HIDE DEF travelled
    <3>2. Refilled(a) = [tokens |-> Credit(a), refillAt |-> now]
      BY <1>1, CreditIs
    <3>3. budget'[a].tokens = Larger(0, Refilled(a).tokens - travelled(a))
      BY <2>1, <3>2
    <3> QED
      BY <1>2, <3>1, <3>3 DEF Larger
  <2>3. sequence \in Nat
    BY GuardAssumption
  <2> QED
    BY <2>1, <2>2, <2>3 DEF BudgetsAreCapped
<1>6. ASSUME NEW sequence \in 1..MaxSequence, NEW to \in Position,
             MoveBeyondBudget(to, sequence)
      PROVE  BudgetsAreCapped'
  <2>1. budget' = [a \in Axis |-> Refilled(a)] /\ lastSequence' = lastSequence
    BY <1>6 DEF MoveBeyondBudget
  <2> QED
    BY <1>2, <2>1 DEF BudgetsAreCapped
<1>7. CASE \/ Tick \/ MoveTooFast \/ MoveMalformed \/ MoveStale \/ OtherMalformed
           \/ \E connected \in BOOLEAN : ZapFlash(connected)
  BY <1>3, <1>7
     DEF Tick, MoveTooFast, MoveMalformed, MoveStale, OtherMalformed, ZapFlash, walk
<1>8. CASE UNCHANGED vars
  BY <1>3, <1>8 DEF vars
<1> QED
  BY <1>4, <1>5, <1>6, <1>7, <1>8 DEF Next

\* What the guard keeps of a session is of its type: no budget above its cap, no counter above
\* its limit, no window ahead of the clock (the MovementGuard).
THEOREM SessionTypeCorrect == Spec => []TypeOK
<1>1. Init => BudgetsAreCapped
  BY GuardAssumption DEF Init, BudgetsAreCapped
<1>2. TravelInv /\ WindowsInv /\ BudgetsAreCapped => TypeOK
  BY DEF TravelInv, Typed, WindowsInv, WindowHolds, InvalidsAreCounted, Ascending,
         BudgetsAreCapped, TypeOK
<1> QED
  BY TravelInductive, WindowsInvariant, CapsHold, <1>1, <1>2, PTL DEF Spec
===============================================================================
