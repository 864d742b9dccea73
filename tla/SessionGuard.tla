----------------------------- MODULE SessionGuard -----------------------------
(***************************************************************************)
(* What the room allows one session over time (the MovementGuard of        *)
(* PalaceRoom.ts): the sliding windows on move messages and zap flashes,   *)
(* the window on invalid messages, and the two distance budgets that bound *)
(* how far a session travels. Both axes are a coordinate each (the         *)
(* horizontal plane is walked along a line); clocks, distances and limits  *)
(* are integers of one unit.                                               *)
(***************************************************************************)
EXTENDS Integers, Sequences, FiniteSets

CONSTANTS
    Axis,                        \* horizontal and vertical
    MoveWindow, MaxMoves,        \* one second, MAX_MOVE_MESSAGES_PER_SECOND
    ZapWindow, MaxZaps,          \* one minute, MAX_ZAP_FLASHES_PER_MINUTE
    InvalidWindow, InvalidLimit, \* INVALID_MOVEMENT_WINDOW_MS and _LIMIT
    Tolerance,                   \* MOVEMENT_TOLERANCE
    Speed, Cap,                  \* per axis: refill per time unit, most tokens
    Position,                    \* well-formed positions: [Axis -> coordinate]
    Spawn,                       \* PALACE_SPAWN
    MaxSequence, MaxTime         \* bounds: sequence numbers sent, the clock

ASSUME GuardAssumption ==
    /\ MoveWindow \in Nat \ {0} /\ MaxMoves \in Nat \ {0}
    /\ ZapWindow \in Nat \ {0} /\ MaxZaps \in Nat \ {0}
    /\ InvalidWindow \in Nat \ {0} /\ InvalidLimit \in Nat \ {0}
    /\ Tolerance \in Nat
    /\ Speed \in [Axis -> Nat]
    /\ Cap \in [Axis -> Nat]
    /\ \A a \in Axis : Cap[a] >= Tolerance
    /\ Position \subseteq [Axis -> Int]
    /\ Spawn \in Position
    /\ MaxSequence \in Nat /\ MaxTime \in Nat

VARIABLES
    now,            \* performance.now()
    movementTimestamps,
    zapFlashTimestamps,
    invalidCount, invalidWindowStartedAt,
    budget,         \* budget[a]: [tokens, refillAt]
    position,       \* the replicated position
    lastSequence,
    closing,
    \* history
    moved,          \* the move messages let through in the second up to the last of them
    flashed,        \* the flashes broadcast in the minute up to the last of them
    invalids,       \* the times of the invalid messages of the last InvalidWindow
    excess,         \* excess[a]: how far any interval up to now beats Speed times its length
    respawnedAt     \* the last respawn, or -1

windows == <<movementTimestamps, zapFlashTimestamps>>
invalid == <<invalidCount, invalidWindowStartedAt, closing, invalids>>
walk    == <<budget, position, lastSequence, excess, respawnedAt>>
vars == <<now, movementTimestamps, zapFlashTimestamps, invalidCount, invalidWindowStartedAt,
          budget, position, lastSequence, closing, moved, flashed, invalids, excess,
          respawnedAt>>

Smaller(m, n)  == IF m <= n THEN m ELSE n
Larger(m, n)   == IF m >= n THEN m ELSE n
Distance(m, n) == IF m <= n THEN n - m ELSE m - n

\* onJoin
Init ==
    /\ now = 0
    /\ movementTimestamps = <<>> /\ zapFlashTimestamps = <<>>
    /\ invalidCount = 0 /\ invalidWindowStartedAt = 0
    /\ budget = [a \in Axis |-> [tokens |-> Tolerance, refillAt |-> 0]]
    /\ position = Spawn
    /\ lastSequence = 0
    /\ closing = FALSE
    /\ moved = <<>> /\ flashed = <<>> /\ invalids = <<>>
    /\ excess = [a \in Axis |-> 0]
    /\ respawnedAt = -1
-----------------------------------------------------------------------------
\* The timestamps within the window. They are in the order of the clock, so that what
\* consumeMoveToken shifts and #handleZapFlash filters out are the first ones.
Recent(timestamps, window) ==
    LET expired == {i \in DOMAIN timestamps : \A j \in 1..i : timestamps[j] <= now - window}
    IN  SubSeq(timestamps, Cardinality(expired) + 1, Len(timestamps))

\* A bug: banking without the cap.
RefilledUncapped(a) ==
    LET b == budget[a] IN [tokens |-> b.tokens + (now - b.refillAt) * Speed[a], refillAt |-> now]

\* A bug: the same time is paid out again.
RefilledTwice(a) ==
    LET b == budget[a] IN
    [b EXCEPT !.tokens = Smaller(Cap[a], b.tokens + (now - b.refillAt) * Speed[a])]

\* refillDistanceBudget
Refilled(a) ==
    LET effectiveNow == Larger(budget[a].refillAt, now)
        elapsed      == effectiveNow - budget[a].refillAt
    IN  [tokens   |-> Smaller(Cap[a], budget[a].tokens + elapsed * Speed[a]),
         refillAt |-> effectiveNow]

\* A bug: a respawn keeps what was saved up.
EmptiedNot(a) == budget[a]

\* resetDistanceBudget
Emptied(a) == [tokens |-> 0, refillAt |-> Larger(budget[a].refillAt, now)]

\* A bug: the message that opens a window is not counted.
RecordInvalidMessageFree ==
    LET expired == now - invalidWindowStartedAt >= InvalidWindow
        count   == IF expired THEN 0 ELSE invalidCount + 1
    IN
    /\ invalidCount' = count
    /\ invalidWindowStartedAt' = IF expired THEN now ELSE invalidWindowStartedAt
    /\ closing' = (count >= InvalidLimit)
    /\ invalids' = Append(Recent(invalids, InvalidWindow), now)

\* #recordInvalidMessage, and #closeForPolicy at the limit.
RecordInvalidMessage ==
    LET expired == now - invalidWindowStartedAt >= InvalidWindow
        count   == IF expired THEN 1 ELSE invalidCount + 1
    IN
    /\ invalidCount' = count
    /\ invalidWindowStartedAt' = IF expired THEN now ELSE invalidWindowStartedAt
    /\ closing' = (count >= InvalidLimit)
    /\ invalids' = Append(Recent(invalids, InvalidWindow), now)

\* A bug: room for one more.
MayMoveOneMore == Len(Recent(movementTimestamps, MoveWindow)) <= MaxMoves

\* consumeMoveToken: whether it succeeds, and what it then does.
MayMove == Len(Recent(movementTimestamps, MoveWindow)) < MaxMoves
ConsumeMoveToken ==
    /\ ~closing
    /\ MayMove
    /\ movementTimestamps' = Append(Recent(movementTimestamps, MoveWindow), now)
    /\ moved' = Append(Recent(moved, MoveWindow), now)
    /\ UNCHANGED <<now, zapFlashTimestamps, flashed>>

Tick ==
    /\ now < MaxTime
    /\ now' = now + 1
    /\ excess' = [a \in Axis |-> Larger(0, excess[a] - Speed[a])]
    /\ UNCHANGED <<windows, invalid, budget, position, lastSequence, moved, flashed, respawnedAt>>

\* #handleMovement, by outcome; every message below the rate takes a token first.
MoveTooFast ==
    /\ ~closing
    /\ ~MayMove
    /\ movementTimestamps' = Recent(movementTimestamps, MoveWindow)
    /\ closing' = TRUE
    /\ UNCHANGED <<now, zapFlashTimestamps, invalidCount, invalidWindowStartedAt, invalids,
                   walk, moved, flashed>>

MoveMalformed ==
    /\ ConsumeMoveToken
    /\ RecordInvalidMessage
    /\ UNCHANGED walk

\* A sequence number at or below the last one: late or repeated.
MoveStale ==
    /\ ConsumeMoveToken
    /\ UNCHANGED <<invalid, walk>>

IsRespawn(to) == to = Spawn /\ position # Spawn
InBudget(to)  == \A a \in Axis : Distance(position[a], to[a]) <= Refilled(a).tokens

\* Beyond a budget: corrected and counted as invalid; both budgets are refilled first.
MoveBeyondBudget(to, sequence) ==
    /\ sequence > lastSequence
    /\ ~IsRespawn(to) /\ ~InBudget(to)
    /\ ConsumeMoveToken
    /\ budget' = [a \in Axis |-> Refilled(a)]
    /\ RecordInvalidMessage
    /\ UNCHANGED <<position, lastSequence, excess, respawnedAt>>

\* The one teleport: back to the spawn, with empty budgets.
Respawn(sequence) ==
    /\ sequence > lastSequence
    /\ IsRespawn(Spawn)
    /\ ConsumeMoveToken
    /\ budget' = [a \in Axis |-> Emptied(a)]
    /\ position' = Spawn
    /\ lastSequence' = sequence
    /\ respawnedAt' = now
    /\ UNCHANGED <<invalid, excess>>

Move(to, sequence) ==
    LET travelled(a) == Distance(position[a], to[a]) IN
    /\ sequence > lastSequence
    /\ ~IsRespawn(to) /\ InBudget(to)
    /\ ConsumeMoveToken
    /\ budget' = [a \in Axis |-> [Refilled(a) EXCEPT !.tokens = Larger(0, @ - travelled(a))]]
    /\ position' = to
    /\ lastSequence' = sequence
    /\ excess' = [a \in Axis |-> excess[a] + travelled(a)]
    /\ UNCHANGED <<invalid, respawnedAt>>

\* A malformed module or raid message.
OtherMalformed ==
    /\ ~closing
    /\ RecordInvalidMessage
    /\ UNCHANGED <<now, windows, walk, moved, flashed>>

\* #handleZapFlash: only a flash that is broadcast uses up the window.
ZapFlash(targetConnected) ==
    LET recent == Recent(zapFlashTimestamps, ZapWindow)
        shown  == Len(recent) < MaxZaps /\ targetConnected
    IN
    /\ ~closing
    /\ zapFlashTimestamps' = IF shown THEN Append(recent, now) ELSE recent
    /\ flashed' = IF shown THEN Append(Recent(flashed, ZapWindow), now) ELSE flashed
    /\ UNCHANGED <<now, movementTimestamps, invalid, walk, moved>>

Next ==
    \/ Tick
    \/ MoveTooFast \/ MoveMalformed \/ MoveStale
    \/ \E sequence \in 1..MaxSequence :
        \/ Respawn(sequence)
        \/ \E to \in Position : Move(to, sequence) \/ MoveBeyondBudget(to, sequence)
    \/ OtherMalformed
    \/ \E connected \in BOOLEAN : ZapFlash(connected)

Spec == Init /\ [][Next]_vars
-----------------------------------------------------------------------------
\* Type invariant of the guard.
TypeOK ==
    /\ now \in Nat
    /\ movementTimestamps \in Seq(Nat) /\ zapFlashTimestamps \in Seq(Nat)
    /\ invalidCount \in 0..InvalidLimit /\ invalidWindowStartedAt \in 0..now
    /\ budget \in [Axis -> [tokens : Nat, refillAt : Nat]]
    /\ \A a \in Axis : budget[a].tokens <= Cap[a] /\ budget[a].refillAt <= now
    /\ position \in Position
    /\ lastSequence \in Nat
    /\ closing \in BOOLEAN
    /\ moved \in Seq(Nat) /\ flashed \in Seq(Nat) /\ invalids \in Seq(Nat)
    /\ excess \in [Axis -> Nat]
    /\ respawnedAt \in -1..now

\* However moves are batched, held back and corrected: over any interval a session walks at
\* most its speed times the interval, plus the cap of the budget (consumeMovementBudget).
TravelIsBounded == \A a \in Axis : excess[a] <= Cap[a]

\* A respawn buys no burst: afterwards a session is never further from the spawn than its
\* speed allows since then (resetDistanceBudget).
RespawnBuysNoBurst ==
    respawnedAt >= 0 =>
        \A a \in Axis : Distance(Spawn[a], position[a]) <= (now - respawnedAt) * Speed[a]

\* A session gets nowhere faster than it may walk, respawns included.
TravelIsHonest == TravelIsBounded /\ RespawnBuysNoBurst

\* No second lets more than MaxMoves move messages through, wherever it starts, and no
\* minute more than MaxZaps flashes.
RatesAreBounded ==
    /\ Len(moved) <= MaxMoves
    /\ Len(flashed) <= MaxZaps

\* The invalid window is counted from its first message, so a burst across its end may hold
\* almost twice the limit before the session is closed, and never more.
InvalidBurstIsBounded ==
    ~closing => Len(Recent(invalids, InvalidWindow)) <= 2 * (InvalidLimit - 1)

\* No window of the guard lets more through than it promises, however messages fall into it.
WindowsHold == RatesAreBounded /\ InvalidBurstIsBounded
===============================================================================
