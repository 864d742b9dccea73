--------------------------- MODULE RaidLedgerProofs ---------------------------
(***************************************************************************)
(* The ledger's invariants and its refinement of RaidCount, for any number *)
(* of processes, runs and conflicts.                                       *)
(***************************************************************************)
EXTENDS RaidLedger, Sequences, TLAPS

\* A head that was read is one the stream had: its row is stored, with its hash.
SeenIsPast ==
    \A p \in Process :
        seen[p] # NoHead => /\ seen[p].revision \in DOMAIN events
                            /\ seen[p].hash = events[seen[p].revision].contentHash

\* What each attempt of record() knows of the commits since it was entered.
AttemptsSawCommits ==
    \A p \in Process :
        /\ pc[p] = "getHead" => base[p] + (attempt[p] - 1) <= Count
        /\ pc[p] = "append"  => base[p] + (attempt[p] - 1) <= NextRevision(seen[p])
        /\ pc[p] = "conflict" => base[p] + 2 <= Count

TotalsHonest ==
    \A p \in Process :
        /\ total[p] <= Seed + Count
        /\ pc[p] = "return" => /\ seen[p] # NoHead
                               /\ total[p] <= Seed + NextRevision(seen[p])

RunsOnce ==
    /\ \A i, j \in DOMAIN events : events[i].payload = events[j].payload => i = j
    /\ \A i \in DOMAIN events : events[i].payload \in counted
    /\ \A p \in Process : run[p] # NoRun => run[p] \in counted
    /\ \A p, q \in Process : run[p] = run[q] /\ p # q => run[p] = NoRun
    /\ \A p \in Process :
         pc[p] \in {"getHead", "append"} =>
            /\ run[p] \in Run
            /\ \A i \in DOMAIN events : events[i].payload # run[p]

IInv ==
    /\ TypeOK
    /\ StreamVerifies
    /\ SeenIsPast
    /\ AttemptsSawCommits
    /\ TotalsHonest
    /\ RunsOnce
-----------------------------------------------------------------------------
\* Facts about heads: null has no revision, every other head one more than it.
LEMMA HeadFacts ==
    ASSUME TypeOK
    PROVE  /\ Count \in Nat
           /\ head # NoHead => Count = head.revision + 1 /\ Count > 0
           /\ head = NoHead => Count = 0
           /\ NextRevision(head) = Count
           /\ \A p \in Process : NextRevision(seen[p]) \in Nat
  BY DEF TypeOK, IsHead, Count, NextRevision, NoHead

\* A stale head is what makes an append conflict: a head as long as the stream is the
\* current one, and its digest is not stored yet.
LEMMA CurrentHeadAppends ==
    ASSUME IInv, NEW p \in Process, NEW t \in Time,
           NextRevision(seen[p]) = Count
    PROVE  Appendable(NextRevision(seen[p]), HeadHash(seen[p]),
                      ContentHash(NextRevision(seen[p]), HeadHash(seen[p]), run[p], t))
<1>1. HeadHash(seen[p]) = HeadHash(head)
  <2>1. CASE head = NoHead
    <3>1. NextRevision(seen[p]) = 0
      BY <2>1, HeadFacts DEF IInv
    <3>2. seen[p] = NoHead
      BY <3>1 DEF IInv, TypeOK, IsHead, NextRevision
    <3> QED BY <2>1, <3>2
  <2>2. CASE head # NoHead
    <3>1. seen[p] # NoHead /\ seen[p].revision = head.revision
      BY <2>2, HeadFacts DEF IInv, TypeOK, IsHead, NextRevision
    <3> QED
      BY <2>2, <3>1 DEF IInv, SeenIsPast, StreamVerifies, HeadHash
  <2> QED BY <2>1, <2>2
<1>2. NextRevision(seen[p]) \notin DOMAIN events
  BY HeadFacts DEF IInv, StreamVerifies
<1>3. \A k \in DOMAIN events :
        events[k].contentHash # ContentHash(NextRevision(seen[p]), HeadHash(seen[p]), run[p], t)
  BY <1>2 DEF IInv, StreamVerifies, ContentHash
<1>4. NextRevision(seen[p]) = NextRevision(head)
  BY HeadFacts DEF IInv
<1> QED BY <1>1, <1>2, <1>3, <1>4 DEF Appendable

\* A committed append stores exactly the row it announces and moves the head onto it.
LEMMA AppendEffect ==
    ASSUME IInv, NEW p \in Process, NEW t \in Time, AppendCommit(p, t)
    PROVE  /\ head' # NoHead
           /\ head'.revision = Count
           /\ head'.createdAt \in Time /\ head'.updatedAt = t
           /\ Count' = Count + 1
           /\ NextRevision(seen[p]) = Count /\ HeadHash(seen[p]) = HeadHash(head)
           /\ DOMAIN events = 0..Count - 1
           /\ DOMAIN events' = 0..Count
           /\ \A k \in DOMAIN events : events'[k] = events[k]
           /\ events'[Count].revision = Count
           /\ events'[Count].prevHash = HeadHash(head)
           /\ events'[Count].payload = run[p]
           /\ events'[Count].timestamp = t
           /\ events'[Count].contentHash = ContentHash(Count, HeadHash(head), run[p], t)
           /\ head'.hash = events'[Count].contentHash
           /\ head'.createdAt = IF head = NoHead THEN t ELSE head.createdAt
<1>1. NextRevision(seen[p]) = Count /\ HeadHash(seen[p]) = HeadHash(head)
  BY HeadFacts DEF IInv, AppendCommit, Appendable
<1>2. DOMAIN events = 0..Count - 1
  BY DEF IInv, StreamVerifies
<1>3. Count \in Nat
  BY HeadFacts DEF IInv
<1>4. /\ head'.revision = Count
      /\ head'.hash = ContentHash(Count, HeadHash(head), run[p], t)
      /\ head'.createdAt = IF head = NoHead THEN t ELSE head.createdAt
      /\ head'.updatedAt = t
  BY <1>1 DEF AppendCommit, MoveHead
<1>5. head' # NoHead
  BY <1>3, <1>4 DEF NoHead
<1>6. head'.createdAt \in Time
  BY <1>4 DEF IInv, TypeOK, IsHead
<1>7. Count' = Count + 1
  BY <1>4, <1>5 DEF Count
<1>8. events' = [k \in DOMAIN events \union {Count} |->
                   IF k \in DOMAIN events THEN events[k]
                   ELSE [revision    |-> Count,
                         prevHash    |-> HeadHash(head),
                         payload     |-> run[p],
                         timestamp   |-> t,
                         contentHash |-> ContentHash(Count, HeadHash(head), run[p], t)]]
  BY <1>1 DEF AppendCommit, InsertEvent
<1>9. Count \notin DOMAIN events
  BY <1>2, <1>3
<1>10. DOMAIN events' = 0..Count
  BY <1>2, <1>3, <1>8
<1> QED BY <1>1, <1>2, <1>3, <1>4, <1>5, <1>6, <1>7, <1>8, <1>9, <1>10
-----------------------------------------------------------------------------
LEMMA InitIInv == Init => IInv
  BY LedgerAssumption
  DEF Init, IInv, TypeOK, StreamVerifies, SeenIsPast, AttemptsSawCommits, TotalsHonest, RunsOnce,
      Count, NoHead, PC, LatestSchema

\* Steps that leave the store alone cannot break the stream.
LEMMA StoreUnchanged ==
    ASSUME IInv, UNCHANGED <<head, events>>
    PROVE  StreamVerifies' /\ Count' = Count
  BY DEF IInv, StreamVerifies, Count, ContentHash

LEMMA LeavePreserves ==
    ASSUME IInv, NEW p \in Process,
           Leave(p, "idle") \/ Leave(p, "down"), UNCHANGED <<store, counted>>,
           \/ total' = total
           \/ /\ pc[p] = "return"
              /\ total' = [total EXCEPT ![p] = Seed + NextRevision(seen[p])]
    PROVE  IInv'
<1> USE LedgerAssumption DEF IInv
<1>1. StreamVerifies' /\ Count' = Count
  BY StoreUnchanged DEF store
<1>2. UNCHANGED <<head, events, schema, migrations>>
  BY DEF store
<1>3. TypeOK'
  BY <1>2, HeadFacts DEF TypeOK, Leave, PC, IsHead
<1>4. SeenIsPast'
  BY <1>2 DEF SeenIsPast, Leave, TypeOK
<1>5. AttemptsSawCommits'
  BY <1>1, <1>2 DEF AttemptsSawCommits, Leave, TypeOK, NextRevision
<1>6. TotalsHonest'
  <2> SUFFICES ASSUME NEW q \in Process
               PROVE  /\ total'[q] <= Seed + Count
                      /\ pc'[q] = "return" => /\ seen'[q] # NoHead
                                             /\ total'[q] <= Seed + NextRevision(seen'[q])
    BY <1>1 DEF TotalsHonest, NextRevision
  <2>1. CASE q = p
    <3>1. pc'[q] # "return"
      BY <2>1 DEF Leave, TypeOK
    <3>2. CASE total' = total
      BY <3>1, <3>2 DEF TotalsHonest
    <3>3. CASE pc[p] = "return" /\ total' = [total EXCEPT ![p] = Seed + NextRevision(seen[p])]
      <4>1. NextRevision(seen[p]) <= Count
        BY <3>3, HeadFacts DEF TotalsHonest, SeenIsPast, StreamVerifies, NextRevision
      <4> QED BY <2>1, <3>1, <3>3, <4>1, HeadFacts DEF TypeOK
    <3> QED BY <3>2, <3>3
  <2>2. CASE q # p
    BY <2>2 DEF TotalsHonest, Leave, TypeOK
  <2> QED BY <2>1, <2>2
<1>7. RunsOnce'
  BY <1>2 DEF RunsOnce, Leave, TypeOK
<1> QED BY <1>1, <1>3, <1>4, <1>5, <1>6, <1>7
\* The committed append: the only step that changes the stream.
LEMMA AppendPreserves ==
    ASSUME IInv, NEW p \in Process, NEW t \in Time, AppendCommit(p, t)
    PROVE  IInv'
<1> USE LedgerAssumption DEF IInv
<1>1. Count \in Nat /\ Count' = Count + 1
  BY HeadFacts, AppendEffect
<1>2. /\ pc[p] = "append" /\ run[p] \in Run
      /\ pc' = [pc EXCEPT ![p] = "return"]
      /\ seen' = [seen EXCEPT ![p] = head']
      /\ UNCHANGED <<schema, migrations, attempt, run, base, counted, total>>
  BY DEF AppendCommit, RunsOnce
<1>3. TypeOK'
  <2>1. head'.revision \in Nat /\ head'.createdAt \in Time /\ head'.updatedAt \in Time
    BY AppendEffect, <1>1
  <2>2. DOMAIN events' \subseteq Nat
    BY AppendEffect, <1>1
  <2>3. \A k \in DOMAIN events' : events'[k].payload \in Run /\ events'[k].timestamp \in Time
    <3>1. \A k \in DOMAIN events' : k = Count \/ (k \in DOMAIN events /\ events'[k] = events[k])
      BY AppendEffect, <1>1
    <3>2. events'[Count].payload \in Run /\ events'[Count].timestamp \in Time
      BY AppendEffect, <1>2
    <3> QED BY <3>1, <3>2 DEF TypeOK
  <2>4. \A q \in Process : seen'[q] # NoHead => IsHead(seen'[q])
    BY <1>2, <2>1 DEF TypeOK, IsHead
  <2> QED BY <1>2, <2>1, <2>2, <2>3, <2>4 DEF TypeOK, IsHead, PC
<1>4. StreamVerifies'
  <2>1. DOMAIN events' = 0..Count' - 1
    BY AppendEffect, <1>1
  <2>2. ASSUME NEW k \in DOMAIN events'
        PROVE  /\ events'[k].revision = k
               /\ events'[k].prevHash = IF k = 0 THEN NoHash ELSE events'[k - 1].contentHash
               /\ events'[k].contentHash = ContentHash(events'[k].revision, events'[k].prevHash,
                                                      events'[k].payload, events'[k].timestamp)
    <3>1. CASE k \in DOMAIN events
      <4>1. k = 0 \/ k - 1 \in DOMAIN events
        BY <3>1, <1>1 DEF StreamVerifies
      <4> QED BY <3>1, <4>1, AppendEffect DEF StreamVerifies
    <3>2. CASE k = Count
      <4>1. HeadHash(head) = IF k = 0 THEN NoHash ELSE events'[k - 1].contentHash
        <5>1. CASE head = NoHead
          BY <3>2, <5>1, HeadFacts DEF HeadHash
        <5>2. CASE head # NoHead
          <6>1. k = head.revision + 1 /\ k # 0 /\ head.revision \in DOMAIN events
            <7>1. head.revision \in Nat
              BY <5>2 DEF TypeOK, IsHead
            <7>2. Count = head.revision + 1
              BY <5>2, HeadFacts
            <7>3. DOMAIN events = 0..Count - 1
              BY DEF StreamVerifies
            <7> QED BY <3>2, <7>1, <7>2, <7>3
          <6>2. k - 1 = head.revision /\ head.revision \in Nat
            BY <5>2, <6>1 DEF TypeOK, IsHead
          <6>3. events'[k - 1].contentHash = head.hash
            BY <5>2, <6>1, <6>2, AppendEffect DEF StreamVerifies
          <6> QED BY <5>2, <6>1, <6>3 DEF HeadHash
        <5> QED BY <5>1, <5>2
      <4> QED BY <3>2, <4>1, AppendEffect
    <3> QED BY <3>1, <3>2, <1>1, AppendEffect
  <2>3. /\ head'.hash = events'[head'.revision].contentHash
        /\ head'.createdAt = events'[0].timestamp
        /\ head'.updatedAt = events'[head'.revision].timestamp
    <3>1. CASE head = NoHead
      BY <3>1, AppendEffect, HeadFacts
    <3>2. CASE head # NoHead
      <4>1. 0 \in DOMAIN events
        BY <3>2, HeadFacts, AppendEffect
      <4> QED BY <3>2, <4>1, AppendEffect DEF StreamVerifies
    <3> QED BY <3>1, <3>2
  <2> QED BY <2>1, <2>2, <2>3 DEF StreamVerifies
<1>5. SeenIsPast'
  <2> SUFFICES ASSUME NEW q \in Process, seen'[q] # NoHead
               PROVE  /\ seen'[q].revision \in DOMAIN events'
                      /\ seen'[q].hash = events'[seen'[q].revision].contentHash
    BY DEF SeenIsPast
  <2>1. CASE q = p
    BY <2>1, <1>1, <1>2, AppendEffect DEF TypeOK
  <2>2. CASE q # p
    BY <2>2, <1>1, <1>2, AppendEffect DEF TypeOK, SeenIsPast
  <2> QED BY <2>1, <2>2
<1>6. AttemptsSawCommits'
  BY <1>1, <1>2 DEF AttemptsSawCommits, TypeOK, NextRevision
<1>7. TotalsHonest'
  <2> SUFFICES ASSUME NEW q \in Process
               PROVE  /\ total[q] <= Seed + Count'
                      /\ pc'[q] = "return" => /\ seen'[q] # NoHead
                                             /\ total[q] <= Seed + NextRevision(seen'[q])
    BY <1>2 DEF TotalsHonest, NextRevision
  <2>1. total[q] <= Seed + Count'
    BY <1>1 DEF TotalsHonest, TypeOK
  <2>2. CASE q = p
    <3>1. seen'[q] = head' /\ head' # NoHead /\ NextRevision(seen'[q]) = Count'
      BY <2>2, <1>1, <1>2, AppendEffect DEF TypeOK, NextRevision
    <3> QED BY <2>1, <3>1
  <2>3. CASE q # p
    BY <2>1, <2>3, <1>2 DEF TotalsHonest, TypeOK
  <2> QED BY <2>1, <2>2, <2>3
<1>8. RunsOnce'
  <2>1. \A i \in DOMAIN events' : i = Count \/ (i \in DOMAIN events /\ events'[i] = events[i])
    BY <1>1, AppendEffect
  <2>2. \A i \in DOMAIN events : events[i].payload # run[p]
    BY <1>2 DEF RunsOnce
  <2>3. events'[Count].payload = run[p] /\ run[p] \in counted
    BY <1>2, AppendEffect DEF RunsOnce
  <2>4. \A i, j \in DOMAIN events' : events'[i].payload = events'[j].payload => i = j
    BY <2>1, <2>2, <2>3 DEF RunsOnce
  <2>5. \A i \in DOMAIN events' : events'[i].payload \in counted
    BY <2>1, <2>3 DEF RunsOnce
  <2>6. ASSUME NEW q \in Process, pc'[q] \in {"getHead", "append"}
        PROVE  run[q] \in Run /\ \A i \in DOMAIN events' : events'[i].payload # run[q]
    <3>1. q # p /\ pc[q] \in {"getHead", "append"}
      BY <2>6, <1>2 DEF TypeOK
    <3>2. run[q] \in Run /\ run[q] # run[p]
      BY <3>1, <1>2 DEF RunsOnce
    <3> QED BY <2>1, <2>3, <3>1, <3>2 DEF RunsOnce
  <2> QED BY <1>2, <2>4, <2>5, <2>6 DEF RunsOnce
<1> QED BY <1>3, <1>4, <1>5, <1>6, <1>7, <1>8

\* Entering and repeating record() and opening the database, action by action.
LEMMA StepPreserves ==
    ASSUME IInv, NEW p \in Process, Step(p)
    PROVE  IInv'
<1> USE LedgerAssumption DEF IInv
<1>1. CASE Open(p) \/ OpenRefused(p)
  <2>1. StreamVerifies' /\ Count' = Count
    BY <1>1, StoreUnchanged DEF Open, OpenRefused, store
  <2>2. UNCHANGED <<store, attempt, seen, run, base, counted, total>>
    BY <1>1 DEF Open, OpenRefused
  <2>3. \E to \in {"migrate", "refused"} : pc' = [pc EXCEPT ![p] = to]
    BY <1>1 DEF Open, OpenRefused
  <2> QED BY <2>1, <2>2, <2>3
          DEF store, TypeOK, PC, IsHead, SeenIsPast, AttemptsSawCommits, TotalsHonest, RunsOnce,
              NextRevision
<1>2. CASE Migrate(p)
  <2>1. StreamVerifies' /\ Count' = Count
    BY <1>2, StoreUnchanged DEF Migrate
  <2> QED BY <1>2, <2>1
          DEF Migrate, TypeOK, PC, IsHead, SeenIsPast, AttemptsSawCommits, TotalsHonest, RunsOnce,
              NextRevision, LatestSchema
<1>3. CASE CreateRoom(p)
  <2>1. StreamVerifies' /\ Count' = Count
    BY <1>3, StoreUnchanged DEF CreateRoom, store
  <2>2. TotalsHonest'
    BY <1>3, <2>1, HeadFacts DEF CreateRoom, TotalsHonest, TypeOK, store, NextRevision
  <2> QED BY <1>3, <2>1, <2>2, HeadFacts
          DEF CreateRoom, store, TypeOK, PC, IsHead, SeenIsPast, AttemptsSawCommits, RunsOnce,
              NextRevision
<1>4. ASSUME NEW r \in Run, Record(p, r) PROVE IInv'
  <2>1. StreamVerifies' /\ Count' = Count
    BY <1>4, StoreUnchanged DEF Record, store
  <2>2. TypeOK'
    BY <1>4, HeadFacts DEF Record, store, TypeOK, PC, IsHead
  <2>3. SeenIsPast' /\ TotalsHonest'
    BY <1>4, <2>1 DEF Record, store, TypeOK, SeenIsPast, TotalsHonest, NextRevision
  <2>4. AttemptsSawCommits'
    BY <1>4, <2>1, HeadFacts DEF Record, store, TypeOK, AttemptsSawCommits, NextRevision
  <2>5. RunsOnce'
    BY <1>4 DEF Record, store, TypeOK, RunsOnce
  <2> QED BY <2>1, <2>2, <2>3, <2>4, <2>5
<1>5. CASE GetHead(p)
  <2>1. StreamVerifies' /\ Count' = Count
    BY <1>5, StoreUnchanged DEF GetHead, store
  <2>2. TypeOK'
    BY <1>5 DEF GetHead, store, TypeOK, PC, IsHead
  <2>3. SeenIsPast'
    BY <1>5, HeadFacts DEF GetHead, store, TypeOK, SeenIsPast, StreamVerifies, IsHead
  <2>4. AttemptsSawCommits'
    BY <1>5, <2>1, HeadFacts DEF GetHead, store, TypeOK, AttemptsSawCommits, NextRevision
  <2>5. TotalsHonest' /\ RunsOnce'
    BY <1>5, <2>1 DEF GetHead, store, TypeOK, TotalsHonest, RunsOnce, NextRevision
  <2> QED BY <2>1, <2>2, <2>3, <2>4, <2>5
<1>6. ASSUME NEW t \in Time, AppendCommit(p, t) PROVE IInv'
  BY <1>6, AppendPreserves
<1>7. ASSUME NEW t \in Time, AppendConflict(p, t) PROVE IInv'
  <2>1. StreamVerifies' /\ Count' = Count
    BY <1>7, StoreUnchanged DEF AppendConflict, store
  <2>2. pc[p] = "append" /\ UNCHANGED <<store, seen, run, base, counted, total>>
    BY <1>7 DEF AppendConflict
  <2>3. NextRevision(seen[p]) < Count
    <3>1. NextRevision(seen[p]) # Count
      BY <1>7, CurrentHeadAppends DEF AppendConflict
    <3>2. NextRevision(seen[p]) <= Count
      BY HeadFacts DEF SeenIsPast, StreamVerifies, NextRevision
    <3> QED BY <3>1, <3>2, HeadFacts
  <2>4. \/ /\ attempt[p] = 1
           /\ pc' = [pc EXCEPT ![p] = "getHead"]
           /\ attempt' = [attempt EXCEPT ![p] = 2]
        \/ /\ attempt[p] = 2
           /\ pc' = [pc EXCEPT ![p] = "conflict"]
           /\ UNCHANGED attempt
    BY <1>7 DEF AppendConflict, TypeOK
  <2>5. TypeOK'
    BY <2>2, <2>4 DEF store, TypeOK, PC, IsHead
  <2>6. AttemptsSawCommits'
    <3>1. base[p] + (attempt[p] - 1) < Count
      BY <2>2, <2>3, HeadFacts DEF AttemptsSawCommits, TypeOK
    <3> QED BY <2>1, <2>2, <2>4, <3>1, HeadFacts DEF AttemptsSawCommits, TypeOK, NextRevision
  <2>7. SeenIsPast' /\ TotalsHonest' /\ RunsOnce'
    BY <2>1, <2>2, <2>4 DEF store, TypeOK, SeenIsPast, TotalsHonest, RunsOnce, NextRevision
  <2> QED BY <2>1, <2>5, <2>6, <2>7
<1>8. CASE AppendError(p)
  <2>1. StreamVerifies' /\ Count' = Count
    BY <1>8, StoreUnchanged DEF AppendError, store
  <2> QED BY <1>8, <2>1
          DEF AppendError, store, TypeOK, PC, IsHead, SeenIsPast, AttemptsSawCommits, TotalsHonest,
              RunsOnce, NextRevision
<1>9. CASE Return(p)
  BY <1>9, LeavePreserves DEF Return
<1>10. CASE Throw(p)
  <2>1. UNCHANGED <<store, counted>>
    BY <1>10 DEF Throw
  <2>2. total' = total /\ Leave(p, "idle")
    BY <1>10 DEF Throw
  <2> QED BY <2>1, <2>2, LeavePreserves DEF store
<1>11. CASE Crash(p)
  <2>1. UNCHANGED <<store, counted>>
    BY <1>11 DEF Crash
  <2>2. total' = total /\ Leave(p, "down")
    BY <1>11 DEF Crash
  <2> QED BY <2>1, <2>2, LeavePreserves DEF store
<1> QED
  BY <1>1, <1>2, <1>3, <1>4, <1>5, <1>6, <1>7, <1>8, <1>9, <1>10, <1>11 DEF Step
LEMMA NextPreserves == IInv /\ [Next]_vars => IInv'
<1> SUFFICES ASSUME IInv, [Next]_vars PROVE IInv'
  OBVIOUS
<1>1. CASE Next
  BY <1>1, StepPreserves DEF Next
<1>2. CASE UNCHANGED vars
  BY <1>2 DEF vars, IInv, TypeOK, PC, IsHead, StreamVerifies, SeenIsPast, AttemptsSawCommits,
              TotalsHonest, RunsOnce, Count, NextRevision
<1> QED BY <1>1, <1>2
-----------------------------------------------------------------------------
LEMMA Inductive == Spec => []IInv
  BY InitIInv, NextPreserves, PTL DEF Spec

\* The stored stream passes verifyStream in every reachable state, for any number of
\* processes appending, conflicting, failing and crashing.
THEOREM StreamAlwaysVerifies == Spec => []StreamVerifies
<1>1. IInv => StreamVerifies
  BY DEF IInv
<1> QED BY <1>1, Inductive, PTL

\* Type correctness of the ledger.
THEOREM TypeCorrect == Spec => []TypeOK
<1>1. IInv => TypeOK
  BY DEF IInv
<1> QED BY <1>1, Inductive, PTL

\* record() loses a run to a conflict only after two foreign commits: the retry on the
\* re-read head tolerates any single one.
THEOREM RetryTolerance == Spec => []ConflictMeansTwoCommits
<1>1. IInv => ConflictMeansTwoCommits
  <2> SUFFICES ASSUME IInv, NEW p \in Process
               PROVE  /\ (pc[p] \in {"getHead", "append"} /\ attempt[p] = 2) => Count >= base[p] + 1
                      /\ pc[p] = "conflict" => Count >= base[p] + 2
    BY DEF ConflictMeansTwoCommits
  <2>1. Count \in Nat /\ base[p] \in Nat /\ NextRevision(seen[p]) \in Nat
    BY HeadFacts DEF IInv, TypeOK
  <2>2. NextRevision(seen[p]) <= Count
    BY HeadFacts DEF IInv, SeenIsPast, StreamVerifies, NextRevision
  <2> QED BY <2>1, <2>2 DEF IInv, AttemptsSawCommits
<1> QED BY <1>1, Inductive, PTL

\* The transaction of #migrate makes the schema exactly once.
THEOREM MigrationHappensOnce == Spec => []MigratedOnce
<1> DEFINE Inv == migrations \in 0..1 /\ schema \in Nat /\ (schema = 0 => migrations = 0)
<1>1. Init => Inv
  BY DEF Init, LatestSchema
<1>2. Inv /\ [Next]_vars => Inv'
  <2> SUFFICES ASSUME Inv, [Next]_vars PROVE Inv'
    OBVIOUS
  <2>1. ASSUME NEW p \in Process, Migrate(p) PROVE Inv'
    BY <2>1 DEF Migrate
  <2>2. CASE UNCHANGED <<schema, migrations>>
    BY <2>2
  <2>3. ASSUME NEW p \in Process, Step(p), ~Migrate(p) PROVE UNCHANGED <<schema, migrations>>
    BY <2>3 DEF Step, Open, OpenRefused, CreateRoom, Record, GetHead, AppendCommit,
                AppendConflict, AppendError, Return, Throw, Crash, store
  <2>4. CASE UNCHANGED vars
    BY <2>2, <2>4 DEF vars
  <2> QED BY <2>1, <2>2, <2>3, <2>4 DEF Next
<1>3. Inv => MigratedOnce
  BY DEF MigratedOnce
<1> QED BY <1>1, <1>2, <1>3, PTL DEF Spec

\* The file is sound: its stream verifies and was created once, whoever opens and appends,
\* and a run is dropped only after two foreign commits.
THEOREM StoreAlwaysSound == Spec => []StoreIsSound
BY StreamAlwaysVerifies, MigrationHappensOnce, RetryTolerance, PTL DEF StoreIsSound

\* What a step may do to the store: add the next row and move the head onto it, or nothing.
LEMMA StoreSteps ==
    ASSUME IInv, [Next]_vars
    PROVE  \/ UNCHANGED <<head, events>>
           \/ \E p \in Process, t \in Time : AppendCommit(p, t)
  BY DEF Next, Step, Open, OpenRefused, Migrate, CreateRoom, Record, GetHead,
         AppendConflict, AppendError, Return, Throw, Crash, store, vars

\* No step ever rewrites or removes a row, nor moves the head without adding its row.
THEOREM LedgerIsAppendOnly == Spec => AppendOnly
<1> DEFINE A == /\ \A k \in DOMAIN events : k \in DOMAIN events' /\ events'[k] = events[k]
                /\ head' # head => /\ Count' = Count + 1
                                   /\ DOMAIN events' = DOMAIN events \union {Count}
<1>1. ASSUME IInv, [Next]_vars PROVE A
  <2>1. CASE UNCHANGED <<head, events>>
    BY <2>1
  <2>2. ASSUME NEW p \in Process, NEW t \in Time, AppendCommit(p, t) PROVE A
    <3>1. Count \in Nat
      BY <1>1, HeadFacts DEF IInv
    <3>2. DOMAIN events' = DOMAIN events \union {Count}
      <4>1. DOMAIN events = 0..Count - 1 /\ DOMAIN events' = 0..Count
        BY <1>1, <2>2, AppendEffect
      <4> QED BY <3>1, <4>1
    <3>3. \A k \in DOMAIN events : k \in DOMAIN events' /\ events'[k] = events[k]
      BY <1>1, <2>2, <3>2, AppendEffect
    <3> QED BY <1>1, <2>2, <3>2, <3>3, AppendEffect
  <2> QED BY <1>1, <2>1, <2>2, StoreSteps
<1>2. IInv /\ [Next]_vars => [A]_vars
  BY <1>1
<1> QED BY <1>2, Inductive, PTL DEF Spec, AppendOnly
-----------------------------------------------------------------------------
\* The replayed log is a sequence of runs as long as the stream.
LEMMA LogIsSequence ==
    ASSUME IInv
    PROVE  Log \in Seq(Run) /\ Len(Log) = Count
<1>1. Count \in Nat /\ \A i \in 1..Count : i - 1 \in DOMAIN events
  BY HeadFacts DEF IInv, StreamVerifies
<1>2. \A i \in 1..Count : events[i - 1].payload \in Run
  BY <1>1 DEF IInv, TypeOK
<1> QED BY <1>1, <1>2 DEF Log

LEMMA RefinesInit == Init => RC!Init
<1> SUFFICES ASSUME Init PROVE RC!Init
  OBVIOUS
<1>1. Count = 0
  BY DEF Init, Count, NoHead
<1>2. Log \in Seq({}) /\ Len(Log) = 0
  BY <1>1 DEF Log
<1>3. Log = << >>
  BY <1>2
<1> QED BY <1>3 DEF Init, RC!Init

\* A commit completes its run; publishing and reopening a room show a total; everything
\* else stutters.
LEMMA RefinesStep == IInv /\ [Next]_vars => [RC!Next]_<<Log, total>>
<1> SUFFICES ASSUME IInv, [Next]_vars
             PROVE  RC!Next \/ (Log' = Log /\ total' = total)
  OBVIOUS
<1> USE LedgerAssumption
<1>1. ASSUME NEW p \in Process, NEW t \in Time, AppendCommit(p, t)
      PROVE  RC!Next
  <2>1. run[p] \in Run /\ \A i \in DOMAIN events : events[i].payload # run[p]
    BY <1>1 DEF IInv, RunsOnce, AppendCommit
  <2>2. Count \in Nat /\ Count' = Count + 1 /\ DOMAIN events = 0..Count - 1
    BY <1>1, HeadFacts, AppendEffect DEF IInv
  <2>3. \A i \in 1..Len(Log) : Log[i] # run[p]
    BY <2>1, <2>2, LogIsSequence DEF Log
  <2>4. Log' = [i \in 1..Count + 1 |-> IF i = Count + 1 THEN run[p] ELSE Log[i]]
    <3>1. \A i \in 1..Count : i - 1 \in DOMAIN events
      BY <2>2
    <3>2. \A i \in 1..Count : events'[i - 1].payload = Log[i]
      BY <1>1, <3>1, <2>2, AppendEffect DEF Log
    <3>3. events'[Count + 1 - 1].payload = run[p]
      BY <1>1, <2>2, AppendEffect
    <3> QED BY <2>2, <3>2, <3>3 DEF Log
  <2>5. Log' = Append(Log, run[p])
    BY <2>1, <2>2, <2>4, LogIsSequence
  <2>6. total' = total
    BY <1>1 DEF AppendCommit
  <2> QED BY <2>1, <2>3, <2>5, <2>6 DEF RC!Next, RC!Complete
<1>2. CASE UNCHANGED <<head, events>>
  <2>1. Log' = Log
    BY <1>2 DEF Log, Count
  <2>2. ASSUME NEW p \in Process, NEW n \in Nat,
               total' = [total EXCEPT ![p] = n], total[p] <= n, n <= Seed + Count
        PROVE  RC!Next
    <3>1. n \in total[p]..(Seed + Len(Log))
      <4>1. Len(Log) = Count /\ Count \in Nat
        BY LogIsSequence, HeadFacts DEF IInv
      <4>2. total[p] \in Nat
        BY DEF IInv, TypeOK
      <4> QED BY <2>2, <4>1, <4>2
    <3> QED BY <2>1, <2>2, <3>1 DEF RC!Next, RC!Show
  <2>3. ASSUME NEW p \in Process, CreateRoom(p) PROVE RC!Next
    <3>1. total' = [total EXCEPT ![p] = Seed + Count]
      BY <2>3 DEF CreateRoom
    <3>2. total[p] <= Seed + Count
      BY DEF IInv, TotalsHonest
    <3>3. Seed + Count \in Nat /\ Seed + Count <= Seed + Count
      BY HeadFacts DEF IInv
    <3> QED BY <2>2, <3>1, <3>2, <3>3
  <2>4. ASSUME NEW p \in Process, Return(p) PROVE RC!Next
    <3>1. total' = [total EXCEPT ![p] = Seed + NextRevision(seen[p])] /\ pc[p] = "return"
      BY <2>4 DEF Return
    <3>2. NextRevision(seen[p]) \in Nat /\ NextRevision(seen[p]) <= Count
      BY HeadFacts DEF IInv, SeenIsPast, StreamVerifies, NextRevision
    <3>3. total[p] <= Seed + NextRevision(seen[p])
      BY <3>1 DEF IInv, TotalsHonest
    <3>4. Seed + NextRevision(seen[p]) \in Nat /\ Seed + NextRevision(seen[p]) <= Seed + Count
      BY <3>2, HeadFacts DEF IInv
    <3> QED BY <2>2, <3>1, <3>3, <3>4
  <2>5. ASSUME NEW p \in Process, Step(p), ~CreateRoom(p), ~Return(p),
               \A t \in Time : ~AppendCommit(p, t)
        PROVE  total' = total
    BY <2>5 DEF Step, Open, OpenRefused, Migrate, Record, GetHead, AppendConflict, AppendError,
                Throw, Crash
  <2>6. CASE UNCHANGED vars
    BY <2>1, <2>6 DEF vars
  <2> QED BY <1>1, <2>1, <2>3, <2>4, <2>5, <2>6 DEF Next
<1> QED BY <1>1, <1>2, StoreSteps

\* The ledger implements RaidCount: a replay of the stream is a log without duplicates that
\* only grows, and no total shown to players runs ahead of it or goes back.
THEOREM LedgerRefinesRaidCount == Spec => ImplementsRaidCount
  BY RefinesInit, RefinesStep, Inductive, PTL DEF Spec, ImplementsRaidCount, RC!Spec
===============================================================================
