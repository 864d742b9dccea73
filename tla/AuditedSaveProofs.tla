-------------------------- MODULE AuditedSaveProofs ---------------------------
(***************************************************************************)
(* A builder's snapshots are stored in the order they were taken. The      *)
(* argument is about the promise chain: a write that has begun has only    *)
(* settled writes of its tab before it, because it waited for the tail of  *)
(* its stream and the tail is forgotten only when it settles as the last.  *)
(* What is in the log has been stored, so it lies before.                  *)
(***************************************************************************)
EXTENDS AuditedSave, Sequences, TLAPS

Number == 1..MaxSaves

\* The parts of the state the argument needs.
Typed ==
    /\ taken \in [Tab -> 0..MaxSaves]
    /\ tail \in [Tab -> 0..MaxSaves]
    /\ after \in [Write -> 0..MaxSaves]
    /\ pc \in [Write -> PC]

Taken ==
    \A t \in Tab, n \in Number : pc[<<t, n>>] = "new" <=> n > taken[t]

SettledBelow(t, n) == \A m \in Number : m < n => pc[<<t, m>>] = "settled"

TailIsLast ==
    \A t \in Tab :
        /\ tail[t] \in {0, taken[t]}
        /\ tail[t] = 0 => SettledBelow(t, taken[t] + 1)

QueuedWaits ==
    \A t \in Tab, n \in Number :
        pc[<<t, n>>] = "queued" =>
            /\ after[<<t, n>>] \in {0, n - 1}
            /\ after[<<t, n>>] = 0 => SettledBelow(t, n)

BegunInOrder ==
    \A t \in Tab, n \in Number :
        pc[<<t, n>>] \notin {"new", "queued"} => SettledBelow(t, n)

Chained == Typed /\ Taken /\ TailIsLast /\ QueuedWaits /\ BegunInOrder

Stored ==
    /\ head.revision \in Nat
    /\ DOMAIN events = 1..head.revision
    /\ \A r \in 1..head.revision :
         /\ events[r].payload \in Write
         /\ pc[events[r].payload] \in {"stored", "settled"}

SaveInv == Chained /\ Stored /\ StoreIsAudited
-----------------------------------------------------------------------------
LEMMA WriteIs == \A t \in Tab, n \in Number : <<t, n>> \in Write
  BY DEF Write, Number

LEMMA SaveInit == Init => SaveInv
<1> SUFFICES ASSUME Init PROVE SaveInv
  OBVIOUS
<1> USE SaveAssumption DEF Init
<1>1. Typed
  BY DEF Typed, PC
<1>2. Taken /\ QueuedWaits /\ BegunInOrder
  BY WriteIs DEF Taken, QueuedWaits, BegunInOrder, Number
<1>3. TailIsLast
  <2>1. ASSUME NEW t \in Tab PROVE SettledBelow(t, taken[t] + 1)
    <3>1. taken[t] + 1 = 1
      OBVIOUS
    <3>2. ~ \E m \in Number : m < 1
      BY DEF Number
    <3> QED
      BY <3>1, <3>2 DEF SettledBelow
  <2> QED
    BY <2>1 DEF TailIsLast
<1>4. Stored /\ StoreIsAudited
  BY DEF Stored, StoreIsAudited, ChainVerifies, DataMatchesAudit, NoHead
<1> QED
  BY <1>1, <1>2, <1>3, <1>4 DEF SaveInv, Chained

\* A step that moves one write ahead, from a state in which it had begun to another one.
Moves(t, n) ==
    /\ pc[<<t, n>>] \notin {"new", "queued"}
    /\ \E s \in PC \ {"new", "queued"} : pc' = [pc EXCEPT ![<<t, n>>] = s]
    /\ pc'[<<t, n>>] = "settled" \/ pc[<<t, n>>] # "settled"
    /\ UNCHANGED <<taken, tail, after>>

LEMMA MovesChained ==
    ASSUME Chained, NEW t \in Tab, NEW n \in Number, Moves(t, n)
    PROVE  Chained'
<1> USE SaveAssumption DEF Chained, Moves
<1>1. PICK s \in PC \ {"new", "queued"} : pc' = [pc EXCEPT ![<<t, n>>] = s]
  OBVIOUS
<1>2. Typed'
  BY <1>1 DEF Typed
<1>3. ASSUME NEW u \in Tab, NEW m \in Number
      PROVE  /\ pc[<<u, m>>] \in {"new", "queued"} <=> pc'[<<u, m>>] \in {"new", "queued"}
             /\ pc'[<<u, m>>] \in {"new", "queued"} => pc'[<<u, m>>] = pc[<<u, m>>]
             /\ pc[<<u, m>>] = "settled" => pc'[<<u, m>>] = "settled"
  BY <1>1, WriteIs DEF Typed
<1>4. ASSUME NEW u \in Tab, NEW k \in Int, SettledBelow(u, k) PROVE SettledBelow(u, k)'
  BY <1>3, <1>4 DEF SettledBelow
<1>5. \A u \in Tab, m \in Number : m \in Int /\ taken[u] + 1 \in Int
  BY DEF Typed, Number
<1>6. Taken'
  BY <1>3 DEF Taken
<1>7. TailIsLast'
  BY <1>4, <1>5 DEF TailIsLast
<1>8. QueuedWaits' /\ BegunInOrder'
  BY <1>3, <1>4, <1>5 DEF QueuedWaits, BegunInOrder
<1> QED
  BY <1>2, <1>6, <1>7, <1>8

LEMMA SaveChained ==
    ASSUME Chained, NEW t \in Tab, Save(t)
    PROVE  Chained'
<1> USE SaveAssumption DEF Chained
<1> DEFINE n == taken[t] + 1
<1>1. /\ n \in Number /\ n - 1 = taken[t] /\ taken[t] < MaxSaves
      /\ taken' = [taken EXCEPT ![t] = n]
      /\ after' = [after EXCEPT ![<<t, n>>] = tail[t]]
      /\ pc' = [pc EXCEPT ![<<t, n>>] = "queued"]
      /\ tail' = [tail EXCEPT ![t] = n]
  BY DEF Save, Typed, Number
<1>2. <<t, n>> \in Write /\ pc[<<t, n>>] = "new"
  BY <1>1, WriteIs DEF Taken, Typed, Number
<1> HIDE DEF n
<1>3. Typed'
  BY <1>1, <1>2 DEF Typed, PC, Number
<1>4. ASSUME NEW u \in Tab, NEW m \in Number
      PROVE  <<u, m>> # <<t, n>> => pc'[<<u, m>>] = pc[<<u, m>>] /\ after'[<<u, m>>] = after[<<u, m>>]
  BY <1>1, WriteIs DEF Typed
<1>5. pc'[<<t, n>>] = "queued" /\ after'[<<t, n>>] = tail[t]
  BY <1>1, <1>2 DEF Typed
<1>6. ASSUME NEW u \in Tab, NEW k \in Int, SettledBelow(u, k) PROVE SettledBelow(u, k)'
  BY <1>2, <1>4, <1>6 DEF SettledBelow
<1>7. Taken'
  <2> SUFFICES ASSUME NEW u \in Tab, NEW m \in Number
               PROVE  pc'[<<u, m>>] = "new" <=> m > taken'[u]
    BY DEF Taken
  <2>1. CASE <<u, m>> = <<t, n>>
    BY <1>1, <1>5, <2>1 DEF Typed, Number
  <2>2. CASE u = t /\ m # n
    <3>1. taken'[u] = n /\ taken[u] = n - 1 /\ m \in Int /\ n \in Int
      BY <1>1, <2>2 DEF Typed, Number
    <3>2. pc'[<<u, m>>] = pc[<<u, m>>] /\ (pc[<<u, m>>] = "new" <=> m > taken[u])
      BY <1>4, <2>2 DEF Taken
    <3> QED
      BY <2>2, <3>1, <3>2
  <2>3. CASE u # t
    <3>1. taken'[u] = taken[u]
      BY <1>1, <2>3 DEF Typed
    <3>2. pc'[<<u, m>>] = pc[<<u, m>>] /\ (pc[<<u, m>>] = "new" <=> m > taken[u])
      BY <1>4, <2>3 DEF Taken
    <3> QED
      BY <3>1, <3>2
  <2> QED
    BY <2>1, <2>2, <2>3
<1>8. TailIsLast'
  <2> SUFFICES ASSUME NEW u \in Tab
               PROVE  /\ tail'[u] \in {0, taken'[u]}
                      /\ tail'[u] = 0 => (SettledBelow(u, taken[u] + 1))'
    BY DEF TailIsLast
  <2>1. CASE u = t
    BY <1>1, <2>1 DEF Typed, Number
  <2>2. CASE u # t
    <3>1. tail'[u] = tail[u] /\ taken'[u] = taken[u] /\ taken[u] + 1 \in Int
      BY <1>1, <2>2 DEF Typed
    <3> QED
      BY <3>1, <1>6 DEF TailIsLast, SettledBelow
  <2> QED
    BY <2>1, <2>2
<1>9. QueuedWaits'
  <2> SUFFICES ASSUME NEW u \in Tab, NEW m \in Number, pc'[<<u, m>>] = "queued"
               PROVE  /\ after'[<<u, m>>] \in {0, m - 1}
                      /\ after'[<<u, m>>] = 0 => SettledBelow(u, m)'
    BY DEF QueuedWaits
  <2>1. CASE <<u, m>> = <<t, n>>
    <3>1. u = t /\ m = n
      BY <2>1
    <3>2. tail[t] = 0 => SettledBelow(t, n)
      BY DEF TailIsLast, n
    <3>3. tail[t] \in {0, n - 1} /\ n \in Int
      BY <1>1 DEF TailIsLast, Number
    <3> QED
      BY <3>1, <3>2, <3>3, <1>5, <1>6
  <2>2. CASE <<u, m>> # <<t, n>>
    BY <2>2, <1>4, <1>6 DEF QueuedWaits, Number
  <2> QED
    BY <2>1, <2>2
<1>10. BegunInOrder'
  <2> SUFFICES ASSUME NEW u \in Tab, NEW m \in Number, pc'[<<u, m>>] \notin {"new", "queued"}
               PROVE  SettledBelow(u, m)'
    BY DEF BegunInOrder
  <2>1. <<u, m>> # <<t, n>>
    BY <1>5
  <2> QED
    BY <2>1, <1>4, <1>6 DEF BegunInOrder, Number
<1> QED
  BY <1>3, <1>7, <1>8, <1>9, <1>10

LEMMA BeginChained ==
    ASSUME Chained, NEW t \in Tab, NEW n \in Number, Begin(t, n)
    PROVE  Chained'
<1> USE SaveAssumption DEF Chained
<1>1. /\ pc[<<t, n>>] = "queued" /\ <<t, n>> \in Write
      /\ after[<<t, n>>] # 0 => pc[<<t, after[<<t, n>>]>>] = "settled"
      /\ pc' = [pc EXCEPT ![<<t, n>>] = "readHead"]
      /\ UNCHANGED <<taken, tail, after>>
  BY WriteIs DEF Begin
<1>2. SettledBelow(t, n)
  <2>1. CASE after[<<t, n>>] = 0
    BY <1>1, <2>1 DEF QueuedWaits
  <2>2. CASE after[<<t, n>>] # 0
    <3>1. after[<<t, n>>] = n - 1 /\ n - 1 \in Number
      BY <1>1, <2>2 DEF QueuedWaits, Typed, Number
    <3>2. pc[<<t, n - 1>>] = "settled"
      BY <1>1, <2>2, <3>1
    <3>3. SettledBelow(t, n - 1)
      BY <3>1, <3>2 DEF BegunInOrder
    <3> QED
      BY <3>1, <3>2, <3>3 DEF SettledBelow, Number
  <2> QED
    BY <2>1, <2>2
<1>3. Typed'
  BY <1>1 DEF Typed, PC
<1>4. ASSUME NEW u \in Tab, NEW m \in Number
      PROVE  <<u, m>> # <<t, n>> => pc'[<<u, m>>] = pc[<<u, m>>]
  BY <1>1, WriteIs DEF Typed
<1>5. pc'[<<t, n>>] = "readHead"
  BY <1>1 DEF Typed
<1>6. ASSUME NEW u \in Tab, NEW k \in Int, SettledBelow(u, k) PROVE SettledBelow(u, k)'
  BY <1>1, <1>4, <1>6 DEF SettledBelow
<1>7. \A u \in Tab, m \in Number : m \in Int /\ taken[u] + 1 \in Int
  BY DEF Typed, Number
<1>8. Taken'
  BY <1>1, <1>4, <1>5 DEF Taken
<1>9. TailIsLast'
  BY <1>1, <1>6, <1>7 DEF TailIsLast
<1>10. QueuedWaits'
  BY <1>1, <1>4, <1>5, <1>6, <1>7 DEF QueuedWaits
<1>11. BegunInOrder'
  <2> SUFFICES ASSUME NEW u \in Tab, NEW m \in Number, pc'[<<u, m>>] \notin {"new", "queued"}
               PROVE  SettledBelow(u, m)'
    BY DEF BegunInOrder
  <2>1. CASE <<u, m>> = <<t, n>>
    BY <2>1, <1>2, <1>6, <1>7
  <2>2. CASE <<u, m>> # <<t, n>>
    BY <2>2, <1>4, <1>6, <1>7 DEF BegunInOrder
  <2> QED
    BY <2>1, <2>2
<1> QED
  BY <1>3, <1>8, <1>9, <1>10, <1>11

\* Writes that are forgotten, by settling or because their tab goes, leave the others alone.
LEMMA ForgetEffect ==
    ASSUME Typed, NEW ws \in SUBSET Write, Forget(ws)
    PROVE  /\ pc' \in [Write -> PC] /\ after' \in [Write -> 0..MaxSaves]
           /\ \A w \in ws : pc'[w] = "settled"
           /\ \A w \in Write \ ws : pc'[w] = pc[w] /\ after'[w] = after[w]
BY SaveAssumption DEF Typed, Forget, PC

LEMMA SettleChained ==
    ASSUME Chained, NEW t \in Tab, NEW n \in Number, Settle(t, n)
    PROVE  Chained'
<1> USE SaveAssumption DEF Chained
<1>1. /\ pc[<<t, n>>] \in {"stored", "conflict", "failed"} /\ <<t, n>> \in Write
      /\ Forget({<<t, n>>})
      /\ tail' = [tail EXCEPT ![t] = IF tail[t] = n THEN 0 ELSE tail[t]]
      /\ taken' = taken
  BY WriteIs DEF Settle
<1>2. SettledBelow(t, n)
  BY <1>1 DEF BegunInOrder
<1>3. Typed'
  BY <1>1, ForgetEffect DEF Typed
<1>4. ASSUME NEW u \in Tab, NEW m \in Number
      PROVE  /\ <<u, m>> # <<t, n>> =>
                  pc'[<<u, m>>] = pc[<<u, m>>] /\ after'[<<u, m>>] = after[<<u, m>>]
             /\ pc'[<<t, n>>] = "settled"
  BY <1>1, ForgetEffect, WriteIs
<1>5. ASSUME NEW u \in Tab, NEW k \in Int, SettledBelow(u, k) PROVE SettledBelow(u, k)'
  BY <1>4, <1>5 DEF SettledBelow
<1>6. \A u \in Tab, m \in Number : m \in Int /\ taken[u] + 1 \in Int
  BY DEF Typed, Number
<1>7. Taken'
  BY <1>1, <1>4 DEF Taken
<1>8. TailIsLast'
  <2> SUFFICES ASSUME NEW u \in Tab
               PROVE  /\ tail'[u] \in {0, taken[u]}
                      /\ tail'[u] = 0 => SettledBelow(u, taken[u] + 1)'
    BY <1>1 DEF TailIsLast, SettledBelow
  <2>1. CASE u = t /\ tail[t] = n
    <3>1. taken[t] = n /\ tail'[u] = 0
      BY <1>1, <2>1 DEF TailIsLast, Typed, Number
    <3>2. SettledBelow(t, n + 1)'
      <4> SUFFICES ASSUME NEW m \in Number, m < n + 1 PROVE pc'[<<t, m>>] = "settled"
        BY DEF SettledBelow
      <4>1. m = n \/ m < n
        BY DEF Number
      <4> QED
        BY <4>1, <1>2, <1>4 DEF SettledBelow
    <3> QED
      BY <1>1, <2>1, <3>1, <3>2 DEF SettledBelow
  <2>2. CASE ~(u = t /\ tail[t] = n)
    <3>1. tail'[u] = tail[u]
      BY <1>1, <2>2 DEF Typed
    <3> QED
      BY <1>1, <3>1, <1>5, <1>6 DEF TailIsLast, SettledBelow
  <2> QED
    BY <2>1, <2>2
<1>9. QueuedWaits'
  BY <1>4, <1>5, <1>6 DEF QueuedWaits
<1>10. BegunInOrder'
  <2> SUFFICES ASSUME NEW u \in Tab, NEW m \in Number, pc'[<<u, m>>] \notin {"new", "queued"}
               PROVE  SettledBelow(u, m)'
    BY DEF BegunInOrder
  <2>1. CASE <<u, m>> = <<t, n>>
    BY <2>1, <1>2, <1>5, <1>6
  <2>2. CASE <<u, m>> # <<t, n>>
    BY <2>2, <1>4, <1>5, <1>6 DEF BegunInOrder
  <2> QED
    BY <2>1, <2>2
<1> QED
  BY <1>3, <1>7, <1>8, <1>9, <1>10

LEMMA CloseChained ==
    ASSUME Chained, NEW t \in Tab, Close(t)
    PROVE  Chained'
<1> USE SaveAssumption DEF Chained
<1> DEFINE mine == {w \in Write : w[1] = t /\ pc[w] # "new"}
<1>1. /\ Forget(mine) /\ mine \in SUBSET Write
      /\ tail' = [tail EXCEPT ![t] = 0]
      /\ taken' = taken
  BY DEF Close
<1>2. ASSUME NEW u \in Tab, NEW m \in Number
      PROVE  <<u, m>> \in mine <=> u = t /\ pc[<<u, m>>] # "new"
  BY WriteIs
<1> HIDE DEF mine
<1>3. Typed'
  BY <1>1, ForgetEffect DEF Typed
<1>4. ASSUME NEW u \in Tab, NEW m \in Number
      PROVE  /\ (u # t \/ pc[<<u, m>>] = "new") =>
                  pc'[<<u, m>>] = pc[<<u, m>>] /\ after'[<<u, m>>] = after[<<u, m>>]
             /\ (u = t /\ pc[<<u, m>>] # "new") => pc'[<<u, m>>] = "settled"
  BY <1>1, <1>2, ForgetEffect, WriteIs
<1>5. ASSUME NEW u \in Tab, NEW k \in Int, SettledBelow(u, k) PROVE SettledBelow(u, k)'
  BY <1>4, <1>5 DEF SettledBelow
<1>6. \A u \in Tab, m \in Number : m \in Int /\ taken[u] + 1 \in Int /\ taken[u] \in Int
  BY DEF Typed, Number
<1>7. ASSUME NEW m \in Number, pc[<<t, m>>] # "new" PROVE SettledBelow(t, m + 1)'
  <2> SUFFICES ASSUME NEW k \in Number, k < m + 1 PROVE pc'[<<t, k>>] = "settled"
    BY DEF SettledBelow
  <2>1. k <= taken[t]
    BY <1>6, <1>7 DEF Taken
  <2>2. pc[<<t, k>>] # "new"
    BY <2>1, <1>6 DEF Taken
  <2> QED
    BY <2>2, <1>4
<1>8. SettledBelow(t, taken[t] + 1)'
  <2> SUFFICES ASSUME NEW k \in Number, k < taken[t] + 1 PROVE pc'[<<t, k>>] = "settled"
    BY <1>1 DEF SettledBelow
  <2>1. pc[<<t, k>>] # "new"
    BY <1>6 DEF Taken
  <2> QED
    BY <2>1, <1>4
<1>9. Taken'
  <2> SUFFICES ASSUME NEW u \in Tab, NEW m \in Number
               PROVE  pc'[<<u, m>>] = "new" <=> m > taken[u]
    BY <1>1 DEF Taken
  <2>1. pc[<<u, m>>] = "new" <=> m > taken[u]
    BY DEF Taken
  <2>2. CASE u # t \/ pc[<<u, m>>] = "new"
    BY <1>4, <2>1, <2>2
  <2>3. CASE u = t /\ pc[<<u, m>>] # "new"
    BY <1>4, <2>1, <2>3
  <2> QED
    BY <2>2, <2>3
<1>10. TailIsLast'
  <2> SUFFICES ASSUME NEW u \in Tab
               PROVE  /\ tail'[u] \in {0, taken[u]}
                      /\ tail'[u] = 0 => SettledBelow(u, taken[u] + 1)'
    BY <1>1 DEF TailIsLast, SettledBelow
  <2>1. CASE u = t
    BY <1>1, <1>8, <2>1 DEF Typed
  <2>2. CASE u # t
    <3>1. tail'[u] = tail[u]
      BY <1>1, <2>2 DEF Typed
    <3> QED
      BY <1>1, <3>1, <1>5, <1>6 DEF TailIsLast, SettledBelow
  <2> QED
    BY <2>1, <2>2
<1>11. QueuedWaits'
  <2> SUFFICES ASSUME NEW u \in Tab, NEW m \in Number, pc'[<<u, m>>] = "queued"
               PROVE  /\ after'[<<u, m>>] \in {0, m - 1}
                      /\ after'[<<u, m>>] = 0 => SettledBelow(u, m)'
    BY DEF QueuedWaits
  <2>1. u # t /\ pc[<<u, m>>] = "queued" /\ after'[<<u, m>>] = after[<<u, m>>]
    BY <1>4
  <2> QED
    BY <2>1, <1>5, <1>6 DEF QueuedWaits
<1>12. BegunInOrder'
  <2> SUFFICES ASSUME NEW u \in Tab, NEW m \in Number, pc'[<<u, m>>] \notin {"new", "queued"}
               PROVE  SettledBelow(u, m)'
    BY DEF BegunInOrder
  <2>1. CASE u = t
    <3>1. pc[<<t, m>>] # "new"
      BY <2>1, <1>4
    <3> QED
      BY <2>1, <3>1, <1>6, <1>7 DEF SettledBelow
  <2>2. CASE u # t
    BY <2>2, <1>4, <1>5, <1>6 DEF BegunInOrder
  <2> QED
    BY <2>1, <2>2
<1> QED
  BY <1>3, <1>9, <1>10, <1>11, <1>12

LEMMA NextChained ==
    ASSUME Chained, [Next]_vars
    PROVE  Chained'
<1> USE DEF Number
<1>1. ASSUME NEW t \in Tab, Save(t) PROVE Chained'
  BY <1>1, SaveChained
<1>2. ASSUME NEW t \in Tab, Close(t) PROVE Chained'
  BY <1>2, CloseChained
<1>3. ASSUME NEW t \in Tab, NEW n \in Number, Begin(t, n) PROVE Chained'
  BY <1>3, BeginChained
<1>4. ASSUME NEW t \in Tab, NEW n \in Number, Settle(t, n) PROVE Chained'
  BY <1>4, SettleChained
<1>5. ASSUME NEW t \in Tab, NEW n \in Number,
             ReadHead(t, n) \/ Commit(t, n) \/ Conflict(t, n) \/ Fail(t, n)
      PROVE  Chained'
  <2>1. /\ pc[<<t, n>>] \in {"readHead", "commit"} /\ UNCHANGED <<taken, tail, after>>
        /\ <<t, n>> \in Write
    BY <1>5, WriteIs DEF ReadHead, Commit, Conflict, Fail
  <2>2. PICK s \in {"readHead", "commit", "stored", "conflict", "failed"} :
          pc' = [pc EXCEPT ![<<t, n>>] = s]
    <3>1. CASE ReadHead(t, n)
      BY <3>1 DEF ReadHead
    <3>2. CASE Commit(t, n)
      BY <3>2 DEF Commit
    <3>3. CASE Conflict(t, n)
      BY <3>3 DEF Conflict
    <3>4. CASE Fail(t, n)
      BY <3>4 DEF Fail
    <3> QED
      BY <1>5, <3>1, <3>2, <3>3, <3>4
  <2>3. Moves(t, n)
    BY <2>1, <2>2 DEF Moves, PC
  <2> QED
    BY <2>3, MovesChained
<1>6. CASE UNCHANGED vars
  BY <1>6 DEF vars, Chained, Typed, Taken, TailIsLast, QueuedWaits, BegunInOrder, SettledBelow
<1> QED
  BY <1>1, <1>2, <1>3, <1>4, <1>5, <1>6 DEF Next, Work
-----------------------------------------------------------------------------
\* What has begun stays begun, and what is stored stays stored or settles.
LEMMA StoredStays ==
    ASSUME Chained, [Next]_vars, NEW w \in Write, pc[w] \in {"stored", "settled"}
    PROVE  pc'[w] \in {"stored", "settled"}
<1> USE DEF Chained, Number
<1>1. ASSUME NEW v \in Write, NEW s \in PC, pc' = [pc EXCEPT ![v] = s], v # w \/ s = "settled"
      PROVE  pc'[w] \in {"stored", "settled"}
  BY <1>1 DEF Typed
<1>2. PICK t \in Tab, n \in Number : w = <<t, n>>
  BY DEF Write
<1>3. ASSUME NEW ws \in SUBSET Write, Forget(ws) PROVE pc'[w] \in {"stored", "settled"}
  BY <1>3, ForgetEffect
<1>4. ASSUME NEW u \in Tab, Save(u) PROVE pc'[w] \in {"stored", "settled"}
  <2> DEFINE m == taken[u] + 1
  <2>1. m \in Number /\ m > taken[u] /\ pc' = [pc EXCEPT ![<<u, m>>] = "queued"]
    BY <1>4, SaveAssumption DEF Save, Typed
  <2>2. pc[<<u, m>>] = "new" /\ <<u, m>> \in Write
    BY <2>1, WriteIs DEF Taken
  <2> HIDE DEF m
  <2> QED
    BY <1>1, <2>1, <2>2 DEF PC
<1>5. ASSUME NEW u \in Tab, Close(u) PROVE pc'[w] \in {"stored", "settled"}
  BY <1>3, <1>5 DEF Close
<1>6. ASSUME NEW u \in Tab, NEW m \in Number, Settle(u, m) PROVE pc'[w] \in {"stored", "settled"}
  BY <1>3, <1>6, WriteIs DEF Settle
<1>7. ASSUME NEW u \in Tab, NEW m \in Number,
             Begin(u, m) \/ ReadHead(u, m) \/ Commit(u, m) \/ Conflict(u, m) \/ Fail(u, m)
      PROVE  pc'[w] \in {"stored", "settled"}
  <2>1. pc[<<u, m>>] \in {"queued", "readHead", "commit"} /\ <<u, m>> \in Write
    BY <1>7, WriteIs DEF Begin, ReadHead, Commit, Conflict, Fail
  <2>2. <<u, m>> # w
    BY <2>1
  <2>3. pc'[w] = pc[w]
    BY <1>7, <2>2 DEF Begin, ReadHead, Commit, Conflict, Fail, Typed
  <2> QED
    BY <2>3
<1>8. CASE UNCHANGED vars
  BY <1>8 DEF vars
<1> QED
  BY <1>4, <1>5, <1>6, <1>7, <1>8 DEF Next, Work

\* Only a commit touches the store, and it adds the one event it announces.
LEMMA CommitEffect ==
    ASSUME Stored, NEW t \in Tab, NEW n \in Number, Commit(t, n)
    PROVE  /\ head'.revision = head.revision + 1
           /\ DOMAIN events' = 1..head.revision + 1
           /\ \A r \in 1..head.revision : events'[r] = events[r]
           /\ events'[head.revision + 1].payload = <<t, n>>
           /\ LET event == events'[head.revision + 1] IN
                /\ event.revision = head.revision + 1 /\ event.prevHash = head.hash
                /\ event.hash = ContentHash(event.revision, event.prevHash, event.payload)
                /\ head'.hash = event.hash
           /\ data' = <<t, n>>
           /\ pc[<<t, n>>] = "commit"
<1> DEFINE w == <<t, n>>
           next == head.revision + 1
<1>1. /\ Event(w).revision = next /\ Event(w).payload = w
      /\ Event(w).prevHash = head.hash
      /\ Event(w).hash = ContentHash(next, head.hash, w)
  BY DEF Event, Commit
<1>2. /\ head'.revision = next /\ data' = w /\ pc[w] = "commit"
      /\ head'.hash = Event(w).hash
      /\ events' = [r \in DOMAIN events \union {next} |-> IF r = next THEN Event(w) ELSE events[r]]
  BY <1>1 DEF Commit, PutHead
<1>3. next \in Nat /\ next \notin 1..head.revision
      /\ 1..next = (1..head.revision) \union {next}
  BY DEF Stored
<1> HIDE DEF next, w
<1>4. DOMAIN events' = 1..next
  BY <1>2, <1>3 DEF Stored
<1>5. \A r \in 1..head.revision : events'[r] = events[r]
  BY <1>2, <1>3 DEF Stored
<1>6. events'[next] = Event(w)
  BY <1>2
<1> QED
  BY <1>1, <1>2, <1>4, <1>5, <1>6 DEF next, w

\* An event linked to the head and made the head keeps the chain whole.
LEMMA ChainGrows ==
    ASSUME Stored, ChainVerifies, NEW t \in Tab, NEW n \in Number, Commit(t, n)
    PROVE  ChainVerifies'
<1>1. head.revision \in Nat /\ DOMAIN events = 1..head.revision
  BY DEF Stored
<1>2. DOMAIN events' = 1..head.revision + 1 /\ head'.revision = head.revision + 1
  BY CommitEffect
<1>5. head'.revision # 0
  BY <1>1, <1>2
<1>6. \A r \in 1..head.revision : events'[r] = events[r]
  BY CommitEffect
<1>3. ASSUME NEW r \in 1..head.revision + 1
      PROVE  /\ events'[r].revision = r
             /\ events'[r].prevHash = IF r = 1 THEN NoHash ELSE events'[r - 1].hash
             /\ events'[r].hash = ContentHash(events'[r].revision, events'[r].prevHash,
                                              events'[r].payload)
  <2>1. CASE r \in 1..head.revision
    <3>1. events'[r] = events[r] /\ (r # 1 => events'[r - 1] = events[r - 1])
      BY <1>1, <2>1, <1>6
    <3> QED
      BY <1>1, <2>1, <3>1 DEF ChainVerifies
  <2>2. CASE r = head.revision + 1
    <3>1. head.hash = IF head.revision = 0 THEN NoHash ELSE events[head.revision].hash
      BY DEF ChainVerifies
    <3>2. head.revision # 0 => events'[head.revision] = events[head.revision]
      BY <1>1, <1>6
    <3>3. r - 1 = head.revision /\ (r = 1 <=> head.revision = 0)
      BY <1>1, <2>2
    <3>4. /\ events'[r].revision = r /\ events'[r].prevHash = head.hash
          /\ events'[r].hash = ContentHash(events'[r].revision, events'[r].prevHash,
                                           events'[r].payload)
      BY <2>2, CommitEffect
    <3> QED
      BY <3>1, <3>2, <3>3, <3>4
  <2> QED
    BY <1>1, <2>1, <2>2
<1>4. head'.hash = events'[head.revision + 1].hash
  BY CommitEffect
<1> QED
  BY <1>2, <1>3, <1>4, <1>5 DEF ChainVerifies

LEMMA StoreSteps ==
    ASSUME [Next]_vars
    PROVE  \/ UNCHANGED store
           \/ \E t \in Tab, n \in Number : Commit(t, n)
BY DEF Next, Work, Number, Save, Close, Begin, ReadHead, Conflict, Fail, Settle, store, vars

LEMMA SaveNext == SaveInv /\ [Next]_vars => SaveInv'
<1> SUFFICES ASSUME SaveInv, [Next]_vars PROVE SaveInv'
  OBVIOUS
<1> USE DEF SaveInv
<1>1. Chained'
  BY NextChained
<1>2. CASE UNCHANGED store
  <2>1. Stored'
    BY <1>2, StoredStays DEF Stored, store
  <2>2. StoreIsAudited'
    BY <1>2 DEF StoreIsAudited, ChainVerifies, DataMatchesAudit, store
  <2> QED
    BY <1>1, <2>1, <2>2
<1>3. ASSUME NEW t \in Tab, NEW n \in Number, Commit(t, n) PROVE SaveInv'
  <2>1. pc'[<<t, n>>] = "stored" /\ <<t, n>> \in Write
    BY <1>3, WriteIs DEF Commit, Chained, Typed
  <2>2. head.revision \in Nat
    BY DEF Stored
  <2>3. Stored'
    <3>1. ASSUME NEW r \in 1..head.revision + 1
          PROVE  /\ events'[r].payload \in Write
                 /\ pc'[events'[r].payload] \in {"stored", "settled"}
      <4>1. CASE r = head.revision + 1
        BY <1>3, <2>1, <4>1, CommitEffect
      <4>2. CASE r \in 1..head.revision
        BY <1>3, <4>2, CommitEffect, StoredStays DEF Stored
      <4> QED
        BY <2>2, <4>1, <4>2
    <3>2. /\ head'.revision = head.revision + 1 /\ head'.revision \in Nat
          /\ DOMAIN events' = 1..head'.revision
      <4>1. head'.revision = head.revision + 1 /\ DOMAIN events' = 1..head.revision + 1
        BY <1>3, CommitEffect
      <4> QED
        BY <2>2, <4>1
    <3> QED
      BY <3>1, <3>2 DEF Stored
  <2>4. DataMatchesAudit'
    <3>1. head'.revision = head.revision + 1 /\ head'.revision # 0
      <4>1. head'.revision = head.revision + 1
        BY <1>3, CommitEffect
      <4> QED
        BY <2>2, <4>1
    <3>2. data' = events'[head'.revision].payload
      BY <1>3, <3>1, CommitEffect
    <3> QED
      BY <3>1, <3>2 DEF DataMatchesAudit
  <2>5. ChainVerifies'
    BY <1>3, ChainGrows DEF StoreIsAudited
  <2> QED
    BY <1>1, <2>3, <2>4, <2>5 DEF StoreIsAudited
<1> QED
  BY <1>2, <1>3, StoreSteps

LEMMA SaveInductive == Spec => []SaveInv
<1> QED
  BY SaveInit, SaveNext, PTL DEF Spec

\* The stored home or economy is always the one its newest audit event tells of, and the
\* events form one chain (indexedDbAudit.ts commitAuditedWrite, verifyAuditChain), for any
\* number of tabs and writes.
THEOREM StoreAlwaysAudited == Spec => []StoreIsAudited
<1>1. SaveInv => StoreIsAudited
  BY DEF SaveInv
<1> QED
  BY <1>1, SaveInductive, PTL
-----------------------------------------------------------------------------
LEMMA LogIsSequence ==
    ASSUME Stored
    PROVE  Log \in Seq(Write) /\ Len(Log) = head.revision
<1>1. head.revision \in Nat /\ \A r \in 1..head.revision : events[r].payload \in Write
  BY DEF Stored
<1> QED
  BY <1>1 DEF Log

LEMMA RefinesInit == Init => OS!Init
<1> SUFFICES ASSUME Init PROVE OS!Init
  OBVIOUS
<1>1. head.revision = 0
  BY DEF Init, NoHead
<1>2. Log \in Seq({}) /\ Len(Log) = 0
  BY <1>1 DEF Log
<1>3. Log = << >>
  BY <1>2
<1> QED
  BY <1>3 DEF Init, OS!Init

\* A commit keeps its snapshot and a call of writeAuditedKey asks for one; all else stutters.
LEMMA RefinesStep == SaveInv /\ [Next]_vars => [OS!Next]_<<Log, taken>>
<1> SUFFICES ASSUME SaveInv, [Next]_vars
             PROVE  OS!Next \/ (Log' = Log /\ taken' = taken)
  OBVIOUS
<1> USE DEF SaveInv, Chained
<1>1. ASSUME NEW t \in Tab, NEW n \in Number, Commit(t, n) PROVE OS!Next
  <2>1. pc[<<t, n>>] = "commit" /\ taken' = taken /\ head.revision \in Nat /\ n \in Int
    BY <1>1 DEF Commit, Stored, Number
  <2>2. n <= taken[t]
    <3>1. pc[<<t, n>>] # "new" /\ taken[t] \in Int
      BY <2>1 DEF Typed
    <3> QED
      BY <2>1, <3>1 DEF Taken
  <2>3. ASSUME NEW i \in 1..Len(Log), Log[i][1] = t PROVE Log[i][2] < n
    <3>1. i \in 1..head.revision /\ Log[i] = events[i].payload
      BY LogIsSequence DEF Log
    <3>2. PICK m \in Number : events[i].payload = <<t, m>>
      BY <3>1, <2>3 DEF Stored, Write, Number
    <3>3. pc[<<t, m>>] \in {"stored", "settled"}
      BY <3>1, <3>2 DEF Stored
    <3>4. m # n
      BY <2>1, <3>3
    <3>5. ~(n < m)
      BY <2>1, <3>3 DEF BegunInOrder, SettledBelow
    <3> QED
      BY <3>1, <3>2, <3>4, <3>5 DEF Number
  <2>4. Log' = Append(Log, <<t, n>>)
    <3>1. Log' = [r \in 1..head.revision + 1 |-> events'[r].payload]
      BY <1>1, CommitEffect DEF Log
    <3>2. \A r \in 1..head.revision : events'[r].payload = Log[r]
      BY <1>1, CommitEffect DEF Log
    <3>3. events'[head.revision + 1].payload = <<t, n>>
      BY <1>1, CommitEffect
    <3>4. Log' = [r \in 1..head.revision + 1 |->
                    IF r = head.revision + 1 THEN <<t, n>> ELSE Log[r]]
      <4>1. ASSUME NEW r \in 1..head.revision + 1
            PROVE  events'[r].payload = IF r = head.revision + 1 THEN <<t, n>> ELSE Log[r]
        <5>1. r = head.revision + 1 \/ r \in 1..head.revision
          BY <2>1
        <5>2. head.revision + 1 \notin 1..head.revision
          BY <2>1
        <5> QED
          BY <5>1, <5>2, <3>2, <3>3
      <4> QED
        BY <3>1, <4>1
    <3>5. <<t, n>> \in Write
      BY WriteIs
    <3> QED
      BY <2>1, <3>4, <3>5, LogIsSequence
  <2>5. OS!Keep(t, n)
    BY <2>1, <2>2, <2>3, <2>4 DEF OS!Keep
  <2> QED
    BY <2>5 DEF OS!Next, Number
<1>2. CASE UNCHANGED store
  <2>1. Log' = Log
    BY <1>2 DEF Log, store
  <2>2. ASSUME NEW t \in Tab, Save(t) PROVE OS!Next
    <3>1. taken' = [taken EXCEPT ![t] = taken[t] + 1]
      BY <2>2 DEF Save
    <3> QED
      BY <2>1, <3>1 DEF OS!Next, OS!Ask
  <2>3. (\E t \in Tab : Save(t)) \/ taken' = taken
    BY DEF Next, Work, Close, Begin, ReadHead, Commit, Conflict, Fail, Settle, vars
  <2> QED
    BY <2>1, <2>2, <2>3
<1> QED
  BY <1>1, <1>2, StoreSteps

\* However writes of a tab fail, are retried and are cut off, and whatever other tabs do, an
\* older snapshot never lands after a newer one of its tab (store.ts writeAuditedKey).
THEOREM SavesStayOrdered == Spec => ImplementsOrderedSaves
<1> QED
  BY RefinesInit, RefinesStep, SaveInductive, PTL DEF Spec, ImplementsOrderedSaves, OS!Spec
-----------------------------------------------------------------------------
\* A write that has begun has seen one foreign commit for every attempt it lost: the head it
\* compares with was the head once, and the two differ only if the head has moved on.
Beaten(w) ==
    /\ pc[w] \in {"new", "queued"} => attempt[w] = 1
    /\ pc[w] \in {"readHead", "commit"} => head.revision >= base[w] + attempt[w] - 1
    /\ pc[w] = "commit" =>
          /\ expected[w].revision >= base[w] + attempt[w] - 1
          /\ \/ expected[w] = head
             \/ expected[w].revision < head.revision
    /\ pc[w] = "conflict" => head.revision >= base[w] + MaxAttempts

LocalsTyped ==
    /\ attempt \in [Write -> 1..MaxAttempts]
    /\ base \in [Write -> Nat]
    /\ DOMAIN expected = Write
    /\ \A w \in Write : expected[w].revision \in Nat

AttemptInv == LocalsTyped /\ \A w \in Write : Beaten(w)

LEMMA AttemptInit == Init => AttemptInv
BY SaveAssumption DEF Init, AttemptInv, LocalsTyped, Beaten, NoHead

\* A write whose locals stay as they are is not disturbed by what happens to the head.
LEMMA BeatenStays ==
    ASSUME NEW w \in Write, Beaten(w), LocalsTyped, pc'[w] = pc[w], attempt'[w] = attempt[w],
           base'[w] = base[w], expected'[w] = expected[w],
           head.revision \in Nat, head' = head \/ head'.revision = head.revision + 1
    PROVE  Beaten(w)'
<1>1. /\ attempt[w] \in Nat /\ base[w] \in Nat /\ expected[w].revision \in Nat
      /\ MaxAttempts \in Nat
  BY SaveAssumption DEF LocalsTyped
<1>2. CASE head' = head
  BY <1>2 DEF Beaten
<1>3. CASE head'.revision = head.revision + 1
  BY <1>1, <1>3 DEF Beaten
<1> QED
  BY <1>2, <1>3

\* Forgotten locals have nothing to show.
LEMMA ForgetBeaten ==
    ASSUME AttemptInv, Typed, NEW ws \in SUBSET Write, Forget(ws), head' = head,
           head.revision \in Nat
    PROVE  AttemptInv'
<1>1. LocalsTyped'
  BY SaveAssumption DEF AttemptInv, LocalsTyped, Forget, NoHead
<1>2. ASSUME NEW w \in ws PROVE Beaten(w)'
  <2>1. pc'[w] = "settled"
    BY ForgetEffect
  <2> QED
    BY <2>1 DEF Beaten
<1>3. ASSUME NEW w \in Write \ ws PROVE Beaten(w)'
  BY <1>3, BeatenStays DEF AttemptInv, Forget
<1> QED
  BY <1>1, <1>2, <1>3 DEF AttemptInv

LEMMA AttemptNext ==
    ASSUME SaveInv, AttemptInv, [Next]_vars
    PROVE  AttemptInv'
<1>1. /\ Typed /\ Taken /\ LocalsTyped /\ head.revision \in Nat /\ MaxAttempts \in Nat \ {0}
      /\ \A w \in Write : Beaten(w)
  BY SaveAssumption DEF SaveInv, Chained, Stored, AttemptInv
<1>2. ASSUME NEW t \in Tab, Save(t) PROVE AttemptInv'
  <2> DEFINE n == taken[t] + 1
  <2>1. taken[t] \in 0..MaxSaves /\ taken[t] < MaxSaves /\ MaxSaves \in Nat
    BY <1>1, <1>2, SaveAssumption DEF Save, Typed
  <2>2. n \in Number /\ n > taken[t]
    BY <2>1 DEF Number
  <2>3. pc' = [pc EXCEPT ![<<t, n>>] = "queued"] /\ UNCHANGED <<head, attempt, expected, base>>
    BY <1>2 DEF Save, store
  <2> HIDE DEF n
  <2>4. PICK w \in Write : w = <<t, n>>
    BY <2>2, WriteIs
  <2>5. pc[w] = "new" /\ pc'[w] = "queued"
    BY <1>1, <2>2, <2>3, <2>4 DEF Taken, Typed
  <2>6. \A v \in Write : v # w => pc'[v] = pc[v]
    BY <1>1, <2>3, <2>4 DEF Typed
  <2>7. Beaten(w)'
    BY <1>1, <2>3, <2>4, <2>5 DEF Beaten
  <2>8. \A v \in Write : v # w => Beaten(v)'
    BY <1>1, <2>3, <2>6, BeatenStays
  <2>9. LocalsTyped'
    BY <1>1, <2>3 DEF LocalsTyped
  <2> QED
    BY <2>7, <2>8, <2>9 DEF AttemptInv
<1>3. ASSUME NEW t \in Tab, Close(t) PROVE AttemptInv'
  BY <1>1, <1>3, ForgetBeaten DEF Close, store
<1>4. ASSUME NEW t \in Tab, NEW n \in Number, Settle(t, n) PROVE AttemptInv'
  BY <1>1, <1>4, WriteIs, ForgetBeaten DEF Settle, store
<1>5. ASSUME NEW t \in Tab, NEW n \in Number,
             \/ Begin(t, n) \/ ReadHead(t, n) \/ Commit(t, n) \/ Conflict(t, n) \/ Fail(t, n)
      PROVE  AttemptInv'
  <2> DEFINE w == <<t, n>>
  <2>1. w \in Write
    BY WriteIs
  <2>2. head' = head \/ head'.revision = head.revision + 1
    BY <1>5, CommitEffect DEF Begin, ReadHead, Conflict, Fail, store, SaveInv
  <2>3. ASSUME NEW v \in Write, v # w
        PROVE  /\ pc'[v] = pc[v] /\ attempt'[v] = attempt[v]
               /\ base'[v] = base[v] /\ expected'[v] = expected[v]
    BY <1>1, <1>5, <2>3 DEF Begin, ReadHead, Commit, Conflict, Fail, Typed, LocalsTyped
  <2>4. \A v \in Write : v # w => Beaten(v)'
    BY <1>1, <2>2, <2>3, BeatenStays
  <2>5. CASE Begin(t, n)
    <3>1. /\ pc[w] = "queued" /\ pc'[w] = "readHead" /\ UNCHANGED <<head, attempt, expected>>
          /\ base' = [base EXCEPT ![w] = head.revision]
      BY <1>1, <2>1, <2>5 DEF Begin, Typed, store
    <3> HIDE DEF w
    <3>2. LocalsTyped' /\ base'[w] = head.revision
      BY <1>1, <2>1, <3>1 DEF LocalsTyped
    <3>3. Beaten(w)'
      BY <1>1, <2>1, <3>1, <3>2 DEF Beaten, LocalsTyped
    <3> QED
      BY <2>4, <3>2, <3>3 DEF AttemptInv
  <2>6. CASE ReadHead(t, n)
    <3>1. /\ pc[w] = "readHead" /\ pc'[w] = "commit" /\ UNCHANGED <<head, attempt, base>>
          /\ expected' = [expected EXCEPT ![w] = head]
      BY <1>1, <2>1, <2>6 DEF ReadHead, Typed, store
    <3> HIDE DEF w
    <3>2. LocalsTyped' /\ expected'[w] = head
      BY <1>1, <2>1, <3>1 DEF LocalsTyped
    <3>3. Beaten(w)'
      BY <1>1, <2>1, <3>1, <3>2 DEF Beaten, LocalsTyped
    <3> QED
      BY <2>4, <3>2, <3>3 DEF AttemptInv
  <2>7. CASE Commit(t, n) \/ Fail(t, n)
    <3>1. pc'[w] \in {"stored", "failed"} /\ UNCHANGED <<attempt, base, expected>>
      BY <1>1, <2>1, <2>7 DEF Commit, Fail, Typed
    <3> HIDE DEF w
    <3>2. LocalsTyped'
      BY <1>1, <3>1 DEF LocalsTyped
    <3>3. Beaten(w)'
      BY <3>1 DEF Beaten
    <3> QED
      BY <2>4, <3>2, <3>3 DEF AttemptInv
  <2>8. CASE Conflict(t, n)
    <3>1. /\ pc[w] = "commit" /\ head # expected[w] /\ UNCHANGED <<head, base, expected>>
          /\ \/ /\ attempt[w] < MaxAttempts
                /\ attempt' = [attempt EXCEPT ![w] = attempt[w] + 1] /\ pc'[w] = "readHead"
             \/ /\ ~(attempt[w] < MaxAttempts) /\ attempt' = attempt /\ pc'[w] = "conflict"
      BY <1>1, <2>1, <2>8 DEF Conflict, Typed, store
    <3> HIDE DEF w
    <3>2. /\ attempt[w] \in 1..MaxAttempts /\ base[w] \in Nat /\ expected[w].revision \in Nat
      BY <1>1, <2>1 DEF LocalsTyped
    <3>3. expected[w].revision >= base[w] + attempt[w] - 1 /\ expected[w].revision < head.revision
      BY <1>1, <2>1, <3>1 DEF Beaten
    <3>4. head.revision >= base[w] + attempt[w]
      BY <1>1, <3>2, <3>3
    <3>5. LocalsTyped'
      BY <1>1, <2>1, <3>1, <3>2 DEF LocalsTyped
    <3>6. Beaten(w)'
      <4>1. CASE attempt[w] < MaxAttempts
        <5>1. attempt'[w] = attempt[w] + 1 /\ pc'[w] = "readHead"
          BY <1>1, <2>1, <3>1, <4>1 DEF LocalsTyped
        <5> QED
          BY <1>1, <3>1, <3>2, <3>4, <5>1 DEF Beaten
      <4>2. CASE ~(attempt[w] < MaxAttempts)
        <5>1. attempt[w] = MaxAttempts /\ pc'[w] = "conflict"
          BY <1>1, <3>1, <3>2, <4>2
        <5> QED
          BY <3>1, <3>4, <5>1 DEF Beaten
      <4> QED
        BY <4>1, <4>2
    <3> QED
      BY <2>4, <3>5, <3>6 DEF AttemptInv
  <2> QED
    BY <1>5, <2>5, <2>6, <2>7, <2>8
<1>6. CASE UNCHANGED vars
  BY <1>6 DEF vars, AttemptInv, LocalsTyped, Beaten
<1> QED
  BY <1>2, <1>3, <1>4, <1>5, <1>6 DEF Next, Work, Number

LEMMA AttemptInductive == Spec => []AttemptInv
<1> QED
  BY AttemptInit, AttemptNext, SaveInductive, PTL DEF Spec

\* The store and the locals of every write keep their types, for any number of tabs, writes
\* and attempts.
THEOREM SaveTypeCorrect == Spec => []TypeOK
<1>1. SaveInv /\ AttemptInv => TypeOK
  <2> SUFFICES ASSUME SaveInv, AttemptInv PROVE TypeOK
    OBVIOUS
  <2>1. data \in Write \union {NoData}
    BY DEF SaveInv, Stored, StoreIsAudited, DataMatchesAudit
  <2>2. \A r \in DOMAIN events : events[r].payload \in Write
    BY DEF SaveInv, Stored
  <2> QED
    BY <2>1, <2>2 DEF SaveInv, Chained, Stored, Typed, AttemptInv, LocalsTyped, TypeOK
<1> QED
  BY <1>1, SaveInductive, AttemptInductive, PTL

\* commitAuditedWrite tries again as often as it promises: whoever is told of a conflict has
\* lost to MaxAttempts commits made since it began.
THEOREM NoneGivenUpLightly == Spec => []GivenUpForCause
<1>1. AttemptInv => GivenUpForCause
  BY DEF AttemptInv, Beaten, GivenUpForCause
<1> QED
  BY <1>1, AttemptInductive, PTL
===============================================================================
