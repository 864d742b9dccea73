---------------------------- MODULE HomesteadProofs ----------------------------
(***************************************************************************)
(* The home builder, for every stock, cap, threshold and number of cells:  *)
(* economy and home agree and the store catches up with the screen. What   *)
(* makes this inductive is the page that is not complete yet: until the    *)
(* economy has booted, its part of the balance is what the store holds,    *)
(* and so it is with the home until it is loaded; and what a queue will    *)
(* have stored is its last save.                                           *)
(***************************************************************************)
EXTENDS Homestead, FiniteSetTheorems, SequenceTheorems, TLAPS

\* No two calls of setup() are under way at once. PalaceScene and WorkshopPanel both call it, and
\* a call that overlaps another replaces what was built in between (SetupIdempotent).
SetupsTakeTurns ==
    \A c, d \in Caller :
        {setup[c], setup[d]} \subseteq {"reading", "read"} => c = d

Current ==
    [inventory |-> inventory, materials |-> materials, queue |-> queue,
     condition |-> condition, fresh |-> fresh]

\* What fromData makes of a stored home.
Placed(home) == IF home = None THEN {} ELSE home

\* The home on the screen, or else the one to be loaded.
Home == IF loaded THEN cells ELSE Placed(saved.home)

\* What a stream will have stored when its queue q is done with.
Latest(q, stored) == IF q = <<>> THEN stored ELSE q[Len(q)]

\* Economy e and the home are the two parts of everything given out.
Settles(e) ==
    /\ e.materials + e.queue + e.inventory + Cardinality(Home) = Stock + Starter + granted
    /\ e.condition <=> Met(Home)

EconomyInv ==
    /\ ready => /\ Settles(Current)
                /\ ~dirty => Latest(economyQueue, saved.economy) = Current
    /\ ~ready => /\ economyQueue = <<>> /\ homeQueue = <<>> /\ queue = 0
                 /\ condition <=> (loaded /\ Met(cells))
                 /\ IF saved.economy = None THEN saved.home = None /\ granted = 0
                                            ELSE Settles(saved.economy)

HomeInv ==
    /\ loaded => Placed(Latest(homeQueue, saved.home)) = cells
    /\ ~loaded => cells = {} /\ homeQueue = <<>>

\* A call of setup() under way is the first to use what it reads, and what it read is still
\* what is stored.
SetupInv ==
    \A c \in Caller :
        /\ setup[c] \in {"reading", "read"} => ~loaded
        /\ setup[c] = "read" => read[c] = saved.home

BalanceInv == ~mishap => EconomyInv /\ HomeInv /\ SetupInv
-----------------------------------------------------------------------------
(* Lemmas about cells, queues and saves                                    *)

LEMMA CellsCounted ==
    ASSUME NEW S \in SUBSET Cell
    PROVE  Cardinality(S) \in Nat /\ Met(S) \in BOOLEAN /\ S # None
BY FS_Subset, FS_CardinalityType, HomesteadAssumption, NoneAssumption DEF Met

LEMMA NothingPlaced == Cardinality({}) = 0 /\ ~Met({})
BY FS_EmptySet, HomesteadAssumption DEF Met

LEMMA PlacingCounts ==
    ASSUME NEW S \in SUBSET Cell, NEW T \in SUBSET Cell, T \intersect S = {}
    PROVE  Cardinality(S \union T) = Cardinality(S) + Cardinality(T)
<1>1. IsFiniteSet(S) /\ IsFiniteSet(T)
  BY FS_Subset, HomesteadAssumption
<1>2. S \intersect T = {}
  OBVIOUS
<1>3. Cardinality(S \union T) = Cardinality(S) + Cardinality(T) - Cardinality(S \intersect T)
  BY <1>1, FS_Union
<1>4. Cardinality(S) \in Nat /\ Cardinality(T) \in Nat /\ Cardinality(S \intersect T) = 0
  BY <1>1, <1>2, FS_EmptySet, FS_CardinalityType
<1> QED
  BY <1>3, <1>4

LEMMA AbsorbingCounts ==
    ASSUME NEW S \in SUBSET Cell, NEW c \in S
    PROVE  Cardinality(S \ {c}) = Cardinality(S) - 1
BY FS_Subset, FS_RemoveElement, HomesteadAssumption

LEMMA LatestIsAppended ==
    ASSUME NEW S, NEW q \in Seq(S), NEW e \in S, NEW stored
    PROVE  Append(q, e) \in Seq(S) /\ Latest(Append(q, e), stored) = e
<1>1. /\ Append(q, e) \in Seq(S) /\ Append(q, e) # <<>>
      /\ Len(Append(q, e)) = Len(q) + 1 /\ Append(q, e)[Len(q) + 1] = e
  BY AppendProperties
<1> QED
  BY <1>1 DEF Latest

\* A save that lands is stored, and the last one stays the last.
LEMMA LatestStays ==
    ASSUME NEW S, NEW q \in Seq(S), q # <<>>, NEW stored
    PROVE  Head(q) \in S /\ Tail(q) \in Seq(S) /\ Latest(Tail(q), Head(q)) = Latest(q, stored)
<1>1. /\ Head(q) \in S /\ Tail(q) \in Seq(S) /\ Len(Tail(q)) = Len(q) - 1
      /\ \A i \in 1..Len(Tail(q)) : Tail(q)[i] = q[i + 1]
  BY HeadTailProperties
<1>2. Len(q) \in Nat \ {0} /\ Head(q) = q[1]
  BY EmptySeq
<1> DEFINE n == Len(q)
           m == Len(Tail(q))
<1>3. n \in Nat /\ m = n - 1
  BY <1>1, <1>2
<1>4. CASE Tail(q) = <<>>
  <2>1. m = 0
    BY <1>4, EmptySeq
  <2> HIDE DEF n, m
  <2>2. n = 1
    BY <1>3, <2>1
  <2> USE DEF n
  <2>3. Latest(Tail(q), Head(q)) = q[1] /\ Latest(q, stored) = q[1]
    BY <1>2, <1>4, <2>2 DEF Latest
  <2> QED
    BY <1>1, <2>3
<1>5. CASE Tail(q) # <<>>
  <2>1. Len(Tail(q)) \in Nat \ {0}
    BY <1>1, <1>5, EmptySeq
  <2>2. Tail(q)[Len(Tail(q))] = q[Len(q)]
    BY <1>1, <1>2, <2>1
  <2> QED
    BY <1>1, <1>5, <2>2 DEF Latest
<1> QED
  BY <1>4, <1>5

LEMMA PersistFacts ==
    ASSUME economyQueue \in Seq(Snapshot), inventory' \in Nat, materials' \in 0..MaterialCap,
           queue' \in Nat, condition' \in BOOLEAN, fresh' \in BOOLEAN, Persist, NEW stored
    PROVE  /\ economyQueue' \in Seq(Snapshot) /\ dirty' = FALSE
           /\ Latest(economyQueue', stored) = Current' /\ Current' \in Snapshot
<1>1. Current' \in Snapshot
  BY DEF Current, Snapshot
<1>2. economyQueue' = Append(economyQueue, Current')
  BY DEF Persist, Current
<1> HIDE DEF Current
<1> QED
  BY <1>1, <1>2, LatestIsAppended DEF Persist

\* afterChange() of a change that leaves the inventory as inventory'.
LEMMA ReportFacts ==
    ASSUME TypeOK, NEW placed \in SUBSET Cell, Report(placed), inventory' \in Nat
    PROVE  /\ condition' \in BOOLEAN /\ (condition' <=> Met(placed))
           /\ dirty' \in BOOLEAN /\ economyQueue' \in Seq(Snapshot)
           /\ UNCHANGED <<materials, queue, fresh>>
           /\ \/ /\ ready /\ ~dirty'
                 /\ \A stored : Latest(economyQueue', stored) = Current'
              \/ dirty' /\ economyQueue' = economyQueue
<1>1. condition' = Met(placed) /\ Met(placed) \in BOOLEAN /\ UNCHANGED <<materials, queue, fresh>>
  BY CellsCounted DEF Report
<1>2. condition' \in BOOLEAN /\ (condition' <=> Met(placed))
  BY <1>1
<1>3. CASE ready /\ Persist
  BY <1>1, <1>2, <1>3, PersistFacts DEF TypeOK
<1>4. CASE dirty' = TRUE /\ UNCHANGED economyQueue
  BY <1>1, <1>2, <1>4 DEF TypeOK
<1> QED
  BY <1>3, <1>4 DEF Report
-----------------------------------------------------------------------------
(* Types                                                                   *)

LEMMA TypesStart == Init => TypeOK
<1> SUFFICES ASSUME Init PROVE TypeOK
  OBVIOUS
<1>1. <<>> \in Seq(Snapshot) /\ <<>> \in Seq(SUBSET Cell)
  BY EmptySeq
<1>2. 0 \in 0..MaterialCap /\ 0 \in 0..MaxGrants /\ 0 \in 0..MaxReloads
  BY HomesteadAssumption
<1>3. setup \in [Caller -> {"idle", "reading", "read", "done"}]
      /\ read \in [Caller -> {None} \union SUBSET Cell]
      /\ saved \in [economy : {None} \union Snapshot, home : {None} \union SUBSET Cell]
  BY DEF Init
<1> QED
  BY <1>1, <1>2, <1>3 DEF Init, TypeOK

LEMMA HomeSaveTyped ==
    ASSUME homeQueue \in Seq(SUBSET Cell), NEW placed \in SUBSET Cell, SaveHome(placed)
    PROVE  /\ homeQueue' \in Seq(SUBSET Cell)
           /\ loaded => \A stored : Latest(homeQueue', stored) = placed
           /\ ~loaded => homeQueue' = homeQueue
BY LatestIsAppended DEF SaveHome

LEMMA EconomyTypes ==
    ASSUME TypeOK,
           (\E readable \in BOOLEAN : Boot(readable)) \/ QueueCraft \/ CompleteCraft \/ Arrive
               \/ Drip \/ SaveNow
    PROVE  TypeOK'
<1>1. /\ inventory \in Nat /\ materials \in 0..MaterialCap /\ queue \in Nat
      /\ granted \in 0..MaxGrants /\ economyQueue \in Seq(Snapshot)
      /\ MaterialCap \in Nat /\ MaxGrants \in Nat /\ Starter \in Nat /\ Stock \in 0..MaterialCap
  BY HomesteadAssumption DEF TypeOK
<1>2. ASSUME Persist, inventory' \in Nat, materials' \in 0..MaterialCap, queue' \in Nat,
             condition' \in BOOLEAN, ready' \in BOOLEAN, fresh' \in BOOLEAN,
             granted' \in 0..MaxGrants, mishap' \in BOOLEAN,
             UNCHANGED <<buildVars, saved, homeQueue, reloads>>
      PROVE  TypeOK'
  <2>1. economyQueue' \in Seq(Snapshot) /\ dirty' = FALSE
    BY <1>1, <1>2, PersistFacts
  <2> QED
    BY <1>2, <2>1 DEF TypeOK, buildVars
<1>3. ASSUME NEW readable \in BOOLEAN, Boot(readable) PROVE TypeOK'
  <2>1. CASE readable /\ saved.economy # None
    <3> DEFINE state == saved.economy
    <3>1. PICK dripped \in 0..(MaterialCap - state.materials), crafted \in 0..state.queue,
               arrived \in 0..MaxGrants :
                /\ granted' = granted + dripped + arrived
                /\ materials' = state.materials + dripped
                /\ queue' = state.queue - crafted
                /\ inventory' = state.inventory + crafted + arrived
                /\ condition' = state.condition
                /\ fresh' = FALSE
      BY <1>3, <2>1 DEF Boot
    <3>2. /\ state.materials \in 0..MaterialCap /\ state.queue \in Nat /\ state.inventory \in Nat
          /\ state.condition \in BOOLEAN
      BY <2>1 DEF TypeOK, Snapshot
    <3>3. granted' <= MaxGrants
      BY <1>3 DEF Boot
    <3> HIDE DEF state
    <3>4. condition' \in BOOLEAN /\ fresh' \in BOOLEAN
      BY <3>1, <3>2
    <3>5. granted' \in 0..MaxGrants
      BY <1>1, <3>1, <3>3
    <3>6. materials' \in 0..MaterialCap
      BY <1>1, <3>1, <3>2
    <3>8. queue' \in Nat /\ inventory' \in Nat
      BY <3>1, <3>2
    <3>7. /\ Persist /\ ready' \in BOOLEAN /\ mishap' \in BOOLEAN
          /\ UNCHANGED <<buildVars, saved, homeQueue, reloads>>
      BY <1>3 DEF Boot, TypeOK
    <3> QED
      BY <1>2, <3>4, <3>5, <3>6, <3>7, <3>8
  <2>2. CASE ~(readable /\ saved.economy # None)
    <3>1. /\ Persist /\ ready' \in BOOLEAN /\ mishap' \in BOOLEAN
          /\ UNCHANGED <<buildVars, saved, homeQueue, reloads, queue, condition, granted>>
          /\ inventory' = Starter /\ materials' = Stock /\ fresh' = TRUE
      BY <1>3, <2>2 DEF Boot, TypeOK
    <3> QED
      BY <1>1, <1>2, <3>1 DEF TypeOK
  <2> QED
    BY <2>1, <2>2
<1>4. CASE QueueCraft
  <2>1. materials' = materials - 1 /\ materials > 0 /\ queue' = queue + 1
    BY <1>4 DEF QueueCraft
  <2>2. materials' \in 0..MaterialCap /\ queue' \in Nat
    BY <1>1, <2>1
  <2> QED
    BY <1>1, <1>2, <1>4, <2>2 DEF QueueCraft, TypeOK
<1>5. CASE CompleteCraft
  <2>1. queue' = queue - 1 /\ queue > 0 /\ inventory' = inventory + 1
    BY <1>5 DEF CompleteCraft
  <2>2. queue' \in Nat /\ inventory' \in Nat
    BY <1>1, <2>1
  <2> QED
    BY <1>1, <1>2, <1>5, <2>2 DEF CompleteCraft, TypeOK
<1>6. CASE Arrive
  <2>1. granted' = granted + 1 /\ granted < MaxGrants /\ inventory' = inventory + 1
    BY <1>6 DEF Arrive
  <2>2. granted' \in 0..MaxGrants /\ inventory' \in Nat
    BY <1>1, <2>1
  <2> QED
    BY <1>1, <1>2, <1>6, <2>2 DEF Arrive, TypeOK
<1>7. CASE SaveNow
  BY <1>1, <1>2, <1>7 DEF SaveNow, TypeOK
<1>8. CASE Drip
  <2>1. /\ granted' = granted + 1 /\ granted < MaxGrants /\ dirty' = TRUE
        /\ materials' = materials + 1 /\ materials < MaterialCap
    BY <1>8 DEF Drip
  <2>2. granted' \in 0..MaxGrants /\ materials' \in 0..MaterialCap
    BY <1>1, <2>1
  <2> QED
    BY <1>8, <2>1, <2>2 DEF Drip, TypeOK, buildVars
<1> QED
  BY <1>3, <1>4, <1>5, <1>6, <1>7, <1>8

LEMMA BuildTypes ==
    ASSUME TypeOK,
           \/ \E placed \in SUBSET Cell : Place(placed)
           \/ \E cell \in Cell : Absorb(cell)
           \/ Replace
           \/ \E c \in Caller :
                \/ SetupBegin(c) \/ SetupApply(c)
                \/ \E readable \in BOOLEAN : SetupRead(c, readable)
    PROVE  TypeOK'
<1>1. ASSUME inventory' \in Nat, cells' \in SUBSET Cell, Report(cells'), SaveHome(cells'),
             mishap' \in BOOLEAN, UNCHANGED <<ready, loaded, setup, read, saved, granted, reloads>>
      PROVE  TypeOK'
  <2>1. /\ condition' \in BOOLEAN /\ dirty' \in BOOLEAN /\ economyQueue' \in Seq(Snapshot)
        /\ UNCHANGED <<materials, queue, fresh>>
    BY <1>1, ReportFacts
  <2>2. homeQueue' \in Seq(SUBSET Cell)
    BY <1>1, HomeSaveTyped DEF TypeOK
  <2> QED
    BY <1>1, <2>1, <2>2 DEF TypeOK
<1>2. ASSUME NEW placed \in SUBSET Cell, Place(placed) PROVE TypeOK'
  <2>1. /\ Cardinality(placed) <= inventory /\ inventory' = inventory - Cardinality(placed)
        /\ cells' = cells \union placed
    BY <1>2 DEF Place
  <2>2. inventory' \in Nat /\ cells' \in SUBSET Cell
    BY <2>1, CellsCounted DEF TypeOK
  <2> QED
    BY <1>1, <1>2, <2>2 DEF Place, TypeOK
<1>3. ASSUME NEW cell \in Cell, Absorb(cell) PROVE TypeOK'
  <2>1. inventory' = inventory + 1 /\ cells' = cells \ {cell}
    BY <1>3 DEF Absorb
  <2>2. inventory' \in Nat /\ cells' \in SUBSET Cell
    BY <2>1 DEF TypeOK
  <2> QED
    BY <1>1, <1>3, <2>2 DEF Absorb, TypeOK
<1>4. CASE Replace
  <2>1. inventory' \in Nat /\ cells' \in SUBSET Cell /\ cells' = cells
    BY <1>4 DEF Replace, TypeOK
  <2> QED
    BY <1>1, <1>4, <2>1 DEF Replace, TypeOK
<1>5. ASSUME NEW c \in Caller, SetupBegin(c) PROVE TypeOK'
  BY <1>5 DEF SetupBegin, TypeOK, economyVars
<1>6. ASSUME NEW c \in Caller, NEW readable \in BOOLEAN, SetupRead(c, readable) PROVE TypeOK'
  BY <1>6 DEF SetupRead, TypeOK, economyVars
<1>7. ASSUME NEW c \in Caller, SetupApply(c) PROVE TypeOK'
  <2> DEFINE placed == Placed(read[c])
  <2>1. placed \in SUBSET Cell /\ cells' = placed /\ Report(placed) /\ inventory' \in Nat
    BY <1>7 DEF SetupApply, TypeOK, Placed
  <2> HIDE DEF placed
  <2>2. /\ condition' \in BOOLEAN /\ dirty' \in BOOLEAN /\ economyQueue' \in Seq(Snapshot)
        /\ UNCHANGED <<materials, queue, fresh>>
    BY <2>1, ReportFacts
  <2> QED
    BY <1>7, <2>1, <2>2 DEF SetupApply, TypeOK
<1> QED
  BY <1>2, <1>3, <1>4, <1>5, <1>6, <1>7

LEMMA StoreTypes ==
    ASSUME TypeOK, (\E kept \in BOOLEAN : EconomySaved(kept) \/ HomeSaved(kept)) \/ Reload
    PROVE  TypeOK'
<1>1. /\ economyQueue \in Seq(Snapshot) /\ homeQueue \in Seq(SUBSET Cell)
      /\ saved \in [economy : {None} \union Snapshot, home : {None} \union SUBSET Cell]
  BY DEF TypeOK
<1>2. ASSUME NEW kept \in BOOLEAN, EconomySaved(kept) PROVE TypeOK'
  <2>1. Head(economyQueue) \in Snapshot /\ Tail(economyQueue) \in Seq(Snapshot)
    BY <1>1, <1>2, LatestStays DEF EconomySaved
  <2>2. saved' \in [economy : {None} \union Snapshot, home : {None} \union SUBSET Cell]
    BY <1>1, <1>2, <2>1 DEF EconomySaved
  <2>3. economyQueue' \in Seq(Snapshot) /\ mishap' \in BOOLEAN
    BY <1>2, <2>1 DEF EconomySaved, TypeOK
  <2> QED
    BY <1>2, <2>2, <2>3 DEF EconomySaved, TypeOK, economyVars, buildVars
<1>3. ASSUME NEW kept \in BOOLEAN, HomeSaved(kept) PROVE TypeOK'
  <2>1. Head(homeQueue) \in SUBSET Cell /\ Tail(homeQueue) \in Seq(SUBSET Cell)
    BY <1>1, <1>3, LatestStays DEF HomeSaved
  <2>2. saved' \in [economy : {None} \union Snapshot, home : {None} \union SUBSET Cell]
    BY <1>1, <1>3, <2>1 DEF HomeSaved
  <2>3. homeQueue' \in Seq(SUBSET Cell) /\ mishap' \in BOOLEAN
    BY <1>3, <2>1 DEF HomeSaved, TypeOK
  <2> QED
    BY <1>3, <2>2, <2>3 DEF HomeSaved, TypeOK, economyVars, buildVars
<1>4. CASE Reload
  <2>1. <<>> \in Seq(Snapshot) /\ <<>> \in Seq(SUBSET Cell)
    BY EmptySeq
  <2>2. reloads \in 0..MaxReloads /\ MaxReloads \in Nat /\ reloads < MaxReloads
        /\ reloads' = reloads + 1 /\ 0 \in 0..MaterialCap
    BY <1>4, HomesteadAssumption DEF Reload, TypeOK
  <2>3. reloads' \in 0..MaxReloads /\ mishap' \in BOOLEAN
    BY <1>4, <2>2 DEF Reload, TypeOK
  <2> QED
    BY <1>4, <2>1, <2>2, <2>3 DEF Reload, TypeOK
<1> QED
  BY <1>2, <1>3, <1>4

LEMMA TypesKept == TypeOK /\ [Next]_vars => TypeOK'
<1> SUFFICES ASSUME TypeOK, [Next]_vars PROVE TypeOK'
  OBVIOUS
<1>1. CASE UNCHANGED vars
  BY <1>1 DEF TypeOK, vars
<1>2. CASE Next
  BY <1>2, EconomyTypes, BuildTypes, StoreTypes DEF Next
<1> QED
  BY <1>1, <1>2
-----------------------------------------------------------------------------
(* The balance                                                             *)

LEMMA BalanceStarts == Init => BalanceInv
<1> SUFFICES ASSUME Init PROVE BalanceInv
  OBVIOUS
<1>1. /\ ~ready /\ ~loaded /\ economyQueue = <<>> /\ homeQueue = <<>> /\ queue = 0
      /\ condition = FALSE /\ saved.economy = None /\ saved.home = None /\ granted = 0
      /\ cells = {} /\ \A c \in Caller : setup[c] = "idle"
  BY DEF Init
<1> QED
  BY <1>1 DEF BalanceInv, EconomyInv, HomeInv, SetupInv

LEMMA HomeTyped == ASSUME TypeOK PROVE Home \in SUBSET Cell
BY DEF TypeOK, Home, Placed

LEMMA BootBalanced ==
    ASSUME TypeOK, TypeOK', BalanceInv, NEW readable \in BOOLEAN, Boot(readable)
    PROVE  BalanceInv'
<1> SUFFICES ASSUME ~mishap' PROVE EconomyInv' /\ HomeInv' /\ SetupInv'
  BY DEF BalanceInv
<1>1. /\ readable /\ ~ready /\ ready' /\ EconomyInv /\ HomeInv /\ SetupInv
      /\ UNCHANGED <<cells, loaded, setup, read, saved, homeQueue>>
  BY DEF Boot, BalanceInv, buildVars
<1>2. Home' = Home /\ Cardinality(Home) \in Nat
  BY <1>1, HomeTyped, CellsCounted DEF Home
<1>3. HomeInv' /\ SetupInv'
  BY <1>1 DEF HomeInv, SetupInv
<1>4. dirty' = FALSE /\ Latest(economyQueue', saved.economy) = Current'
  BY PersistFacts DEF Boot, TypeOK
<1>5. Settles(Current)'
  <2>1. SUFFICES /\ materials' + queue' + inventory' + Cardinality(Home) = Stock + Starter + granted'
                 /\ condition' <=> Met(Home)
    BY <1>2 DEF Settles, Current
  <2>2. CASE saved.economy # None
    <3> DEFINE state == saved.economy
    <3>1. PICK dripped \in 0..(MaterialCap - state.materials), crafted \in 0..state.queue,
               arrived \in 0..MaxGrants :
                /\ granted' = granted + dripped + arrived
                /\ materials' = state.materials + dripped
                /\ queue' = state.queue - crafted
                /\ inventory' = state.inventory + crafted + arrived
                /\ condition' = state.condition
      BY <1>1, <2>2 DEF Boot
    <3>2. /\ state.materials \in 0..MaterialCap /\ state.queue \in Nat /\ state.inventory \in Nat
          /\ granted \in Nat /\ MaterialCap \in Nat /\ MaxGrants \in Nat
      BY <2>2, HomesteadAssumption DEF TypeOK, Snapshot
    <3>3. state.materials + state.queue + state.inventory + Cardinality(Home)
            = Stock + Starter + granted
      BY <1>1, <2>2 DEF EconomyInv, Settles
    <3>4. condition' <=> Met(Home)
      BY <1>1, <2>2, <3>1 DEF EconomyInv, Settles
    <3> HIDE DEF state
    <3>5. materials' + queue' + inventory' + Cardinality(Home) = Stock + Starter + granted'
      BY <1>2, <3>1, <3>2, <3>3, HomesteadAssumption
    <3> QED
      BY <3>4, <3>5
  <2>3. CASE saved.economy = None
    <3>1. Home = {}
      BY <1>1, <2>3 DEF EconomyInv, HomeInv, Home, Placed, Latest
    <3>2. /\ inventory' = Starter /\ materials' = Stock /\ queue' = 0 /\ granted' = 0
          /\ condition' = condition /\ (condition <=> (loaded /\ Met(cells)))
      BY <1>1, <2>3 DEF EconomyInv, Boot
    <3>3. ~Met(Home) /\ Cardinality(Home) = 0
      BY <3>1, NothingPlaced
    <3>4. condition' <=> Met(Home)
      <4>1. loaded => ~Met(cells)
        BY <3>1, <3>3 DEF Home
      <4> QED
        BY <3>2, <3>3, <4>1
    <3>5. materials' + queue' + inventory' + Cardinality(Home) = Stock + Starter + granted'
      BY <3>2, <3>3, HomesteadAssumption
    <3> QED
      BY <3>4, <3>5
  <2> QED
    BY <2>2, <2>3
<1>6. EconomyInv'
  BY <1>1, <1>4, <1>5 DEF EconomyInv
<1> QED
  BY <1>3, <1>6

\* What an economy that is ready does on its own.
LEMMA EconomyBalanced ==
    ASSUME TypeOK, TypeOK', BalanceInv, QueueCraft \/ CompleteCraft \/ Arrive \/ Drip \/ SaveNow
    PROVE  BalanceInv'
<1> SUFFICES ASSUME ~mishap' PROVE EconomyInv' /\ HomeInv' /\ SetupInv'
  BY DEF BalanceInv
<1>1. /\ ready /\ ready' /\ EconomyInv /\ HomeInv /\ SetupInv /\ condition' = condition
      /\ UNCHANGED <<cells, loaded, setup, read, saved, homeQueue>>
  BY DEF BalanceInv, QueueCraft, CompleteCraft, Arrive, Drip, SaveNow, buildVars
<1>2. Home' = Home /\ Cardinality(Home) \in Nat
  BY <1>1, HomeTyped, CellsCounted DEF Home
<1>3. HomeInv' /\ SetupInv'
  BY <1>1 DEF HomeInv, SetupInv
<1>4. dirty' = TRUE \/ Latest(economyQueue', saved.economy) = Current'
  BY PersistFacts DEF QueueCraft, CompleteCraft, Arrive, Drip, SaveNow, TypeOK
<1>5. Settles(Current)'
  <2>1. /\ inventory \in Nat /\ materials \in Nat /\ queue \in Nat /\ granted \in Nat
        /\ Stock \in Nat /\ Starter \in Nat
    BY HomesteadAssumption DEF TypeOK
  <2>2. materials + queue + inventory + Cardinality(Home) = Stock + Starter + granted
        /\ (condition <=> Met(Home))
    BY <1>1 DEF EconomyInv, Settles, Current
  <2>3. \/ materials' = materials - 1 /\ queue' = queue + 1 /\ UNCHANGED <<inventory, granted>>
        \/ queue' = queue - 1 /\ inventory' = inventory + 1 /\ UNCHANGED <<materials, granted>>
        \/ inventory' = inventory + 1 /\ granted' = granted + 1 /\ UNCHANGED <<materials, queue>>
        \/ materials' = materials + 1 /\ granted' = granted + 1 /\ UNCHANGED <<inventory, queue>>
        \/ UNCHANGED <<inventory, materials, queue, granted>>
    BY DEF QueueCraft, CompleteCraft, Arrive, Drip, SaveNow
  <2>4. materials' + queue' + inventory' + Cardinality(Home) = Stock + Starter + granted'
    BY <1>2, <2>1, <2>2, <2>3
  <2> QED
    BY <1>1, <1>2, <2>2, <2>4 DEF Settles, Current
<1>6. EconomyInv'
  BY <1>1, <1>4, <1>5 DEF EconomyInv
<1> QED
  BY <1>3, <1>6

LEMMA Exchange ==
    ASSUME NEW m \in Nat, NEW q \in Nat, NEW i \in Nat, NEW j \in Nat, NEW c \in Nat, NEW d \in Nat,
           NEW total, m + q + i + c = total, j + d = i + c
    PROVE  m + q + j + d = total
OBVIOUS

\* A mutation of a home whose two parts are there.
LEMMA BuildingBalanced ==
    ASSUME TypeOK, TypeOK', BalanceInv, Report(cells'), SaveHome(cells'),
           mishap' = (mishap \/ ~ready \/ ~loaded),
           UNCHANGED <<ready, loaded, setup, read, saved, granted>>,
           inventory' + Cardinality(cells') = inventory + Cardinality(cells)
    PROVE  BalanceInv'
<1> SUFFICES ASSUME ~mishap' PROVE EconomyInv' /\ HomeInv' /\ SetupInv'
  BY DEF BalanceInv
<1>1. /\ ready /\ ready' /\ loaded /\ loaded' /\ EconomyInv /\ HomeInv /\ SetupInv
      /\ UNCHANGED <<setup, read, saved, granted>>
  BY DEF BalanceInv
<1>2. /\ cells \in SUBSET Cell /\ cells' \in SUBSET Cell
      /\ inventory \in Nat /\ inventory' \in Nat /\ homeQueue \in Seq(SUBSET Cell)
  BY DEF TypeOK
<1>3. Home = cells /\ Home' = cells'
  BY <1>1 DEF Home
<1>4. Latest(homeQueue', saved.home) = cells' /\ cells' # None
  BY <1>1, <1>2, HomeSaveTyped, CellsCounted
<1>5. HomeInv' /\ SetupInv'
  BY <1>1, <1>4 DEF HomeInv, SetupInv, Placed
<1>6. /\ condition' <=> Met(cells')
      /\ UNCHANGED <<materials, queue>>
      /\ dirty' \/ Latest(economyQueue', saved.economy) = Current'
  BY <1>2, ReportFacts
<1>7. Settles(Current)'
  <2>1. materials + queue + inventory + Cardinality(cells) = Stock + Starter + granted
    BY <1>1, <1>3 DEF EconomyInv, Settles, Current
  <2>2. /\ Cardinality(cells) \in Nat /\ Cardinality(cells') \in Nat
        /\ materials \in Nat /\ queue \in Nat /\ granted \in Nat /\ Stock \in Nat
        /\ Starter \in Nat
    BY <1>2, CellsCounted, HomesteadAssumption DEF TypeOK
  <2>3. inventory \in Nat /\ inventory' \in Nat
    BY <1>2
  <2>4. inventory' + Cardinality(cells') = inventory + Cardinality(cells)
    OBVIOUS
  <2>5. materials + queue + inventory' + Cardinality(cells') = Stock + Starter + granted
    BY ONLY <2>1, <2>2, <2>3, <2>4, Exchange
  <2> QED
    BY <1>1, <1>3, <1>6, <2>5 DEF Settles, Current
<1>8. EconomyInv'
  BY <1>1, <1>6, <1>7 DEF EconomyInv
<1> QED
  BY <1>5, <1>8

LEMMA MutationsBalanced ==
    ASSUME TypeOK, TypeOK', BalanceInv,
           \/ \E placed \in SUBSET Cell : Place(placed)
           \/ \E cell \in Cell : Absorb(cell)
           \/ Replace
    PROVE  BalanceInv'
<1>1. cells \in SUBSET Cell /\ inventory \in Nat /\ Cardinality(cells) \in Nat
  BY CellsCounted DEF TypeOK
<1>2. ASSUME NEW placed \in SUBSET Cell, Place(placed) PROVE BalanceInv'
  <2>1. /\ placed \intersect cells = {} /\ cells' = cells \union placed
        /\ inventory' = inventory - Cardinality(placed)
    BY <1>2 DEF Place
  <2>2. Cardinality(placed) \in Nat /\ Cardinality(cells') = Cardinality(cells) + Cardinality(placed)
    BY <1>1, <2>1, PlacingCounts, CellsCounted
  <2>3. inventory' + Cardinality(cells') = inventory + Cardinality(cells)
    BY <1>1, <2>1, <2>2
  <2> QED
    BY <1>2, <2>3, BuildingBalanced DEF Place
<1>3. ASSUME NEW cell \in Cell, Absorb(cell) PROVE BalanceInv'
  <2>1. inventory' = inventory + 1 /\ cells' = cells \ {cell} /\ cell \in cells
    BY <1>3 DEF Absorb
  <2>2. Cardinality(cells') = Cardinality(cells) - 1
    BY <1>1, <2>1, AbsorbingCounts
  <2>3. inventory' + Cardinality(cells') = inventory + Cardinality(cells)
    BY <1>1, <2>1, <2>2
  <2> QED
    BY <1>3, <2>3, BuildingBalanced DEF Absorb
<1>4. CASE Replace
  BY <1>4, BuildingBalanced DEF Replace
<1> QED
  BY <1>2, <1>3, <1>4

LEMMA SetupBalanced ==
    ASSUME SetupsTakeTurns, TypeOK, TypeOK', BalanceInv, NEW c \in Caller,
           \/ SetupBegin(c) \/ SetupApply(c)
           \/ \E readable \in BOOLEAN : SetupRead(c, readable)
    PROVE  BalanceInv'
<1> SUFFICES ASSUME ~mishap' PROVE EconomyInv' /\ HomeInv' /\ SetupInv'
  BY DEF BalanceInv
<1>1. EconomyInv /\ HomeInv /\ SetupInv
  <2>1. ~mishap
    BY DEF SetupBegin, SetupApply, SetupRead
  <2> QED
    BY <2>1 DEF BalanceInv
<1>2. ASSUME setup[c] \in {"reading", "read"}, NEW b \in Caller, b # c
      PROVE  setup[b] \notin {"reading", "read"}
  BY <1>2 DEF SetupsTakeTurns
<1>3. setup \in [Caller -> {"idle", "reading", "read", "done"}]
      /\ read \in [Caller -> {None} \union SUBSET Cell]
  BY DEF TypeOK
<1>4. ASSUME UNCHANGED <<economyVars, cells, loaded, saved, economyQueue, homeQueue, granted>>,
             SetupInv'
      PROVE  EconomyInv' /\ HomeInv' /\ SetupInv'
  <2>1. UNCHANGED <<inventory, materials, queue, condition, dirty, ready, fresh>>
    BY <1>4 DEF economyVars
  <2>2. Home' = Home /\ Current' = Current
    BY <1>4, <2>1 DEF Home, Current
  <2>3. EconomyInv'
    BY <1>1, <1>4, <2>1, <2>2 DEF EconomyInv, Settles
  <2> QED
    BY <1>1, <1>4, <2>3 DEF HomeInv
<1>5. CASE SetupBegin(c)
  <2>1. SetupInv'
    BY <1>1, <1>3, <1>5 DEF SetupBegin, SetupInv
  <2> QED
    BY <1>4, <1>5, <2>1 DEF SetupBegin
<1>6. ASSUME NEW readable \in BOOLEAN, SetupRead(c, readable)
      PROVE  EconomyInv' /\ HomeInv' /\ SetupInv'
  <2>1. SetupInv'
    BY <1>1, <1>3, <1>6 DEF SetupRead, SetupInv
  <2> QED
    BY <1>4, <1>6, <2>1 DEF SetupRead
<1>7. CASE SetupApply(c)
  <2> DEFINE placed == Placed(saved.home)
  <2>1. /\ ~loaded /\ loaded' /\ cells' = placed /\ Report(placed)
        /\ setup' = [setup EXCEPT ![c] = "done"]
        /\ UNCHANGED <<inventory, ready, saved, homeQueue, granted>>
    BY <1>1, <1>7 DEF SetupApply, SetupInv, Placed
  <2>2. placed \in SUBSET Cell /\ inventory' \in Nat /\ Home = placed /\ Home' = placed
    BY <2>1 DEF TypeOK, Home, Placed
  <2>3. HomeInv'
    BY <1>1, <2>1 DEF HomeInv, Latest
  <2>4. SetupInv'
    <3>1. setup[c] \in {"reading", "read"}
      BY <1>7 DEF SetupApply
    <3> QED
      BY <1>2, <1>3, <2>1, <3>1 DEF SetupInv
  <2> HIDE DEF placed
  <2>5. /\ condition' <=> Met(placed)
        /\ UNCHANGED <<materials, queue, fresh>>
        /\ \/ ready /\ Latest(economyQueue', saved.economy) = Current'
           \/ dirty' /\ economyQueue' = economyQueue
    BY <2>1, <2>2, ReportFacts
  <2>6. ASSUME ready PROVE EconomyInv'
    <3>1. Settles(Current)'
      BY <1>1, <2>1, <2>2, <2>5, <2>6 DEF EconomyInv, Settles, Current
    <3> QED
      BY <2>1, <2>5, <2>6, <3>1 DEF EconomyInv
  <2>7. ASSUME ~ready PROVE EconomyInv'
    BY <1>1, <2>1, <2>2, <2>5, <2>7 DEF EconomyInv, Settles
  <2> QED
    BY <2>3, <2>4, <2>6, <2>7
<1> QED
  BY <1>5, <1>6, <1>7

LEMMA StoringBalanced ==
    ASSUME TypeOK, TypeOK', BalanceInv,
           (\E kept \in BOOLEAN : EconomySaved(kept) \/ HomeSaved(kept)) \/ Reload
    PROVE  BalanceInv'
<1> SUFFICES ASSUME ~mishap' PROVE EconomyInv' /\ HomeInv' /\ SetupInv'
  BY DEF BalanceInv
<1>1. ~mishap /\ EconomyInv /\ HomeInv /\ SetupInv
  BY DEF BalanceInv, EconomySaved, HomeSaved, Reload
<1>2. /\ economyQueue \in Seq(Snapshot) /\ homeQueue \in Seq(SUBSET Cell)
      /\ saved \in [economy : {None} \union Snapshot, home : {None} \union SUBSET Cell]
  BY DEF TypeOK
<1>3. ASSUME NEW kept \in BOOLEAN, EconomySaved(kept)
      PROVE  EconomyInv' /\ HomeInv' /\ SetupInv'
  <2>1. /\ economyQueue # <<>> /\ saved'.economy = Head(economyQueue) /\ saved'.home = saved.home
        /\ economyQueue' = Tail(economyQueue)
        /\ UNCHANGED <<inventory, materials, queue, condition, dirty, ready, fresh>>
        /\ UNCHANGED <<cells, loaded, setup, read, homeQueue, granted>>
    BY <1>2, <1>3 DEF EconomySaved, economyVars, buildVars
  <2>2. ready /\ Latest(economyQueue', saved'.economy) = Latest(economyQueue, saved.economy)
    BY <1>1, <1>2, <2>1, LatestStays DEF EconomyInv
  <2>3. Home' = Home /\ Current' = Current
    BY <2>1 DEF Home, Current
  <2>4. EconomyInv'
    BY <1>1, <2>1, <2>2, <2>3 DEF EconomyInv, Settles
  <2> QED
    BY <1>1, <2>1, <2>4 DEF HomeInv, SetupInv
<1>4. ASSUME NEW kept \in BOOLEAN, HomeSaved(kept)
      PROVE  EconomyInv' /\ HomeInv' /\ SetupInv'
  <2>1. /\ homeQueue # <<>> /\ saved'.home = Head(homeQueue) /\ saved'.economy = saved.economy
        /\ homeQueue' = Tail(homeQueue)
        /\ UNCHANGED <<inventory, materials, queue, condition, dirty, ready, fresh>>
        /\ UNCHANGED <<cells, loaded, setup, read, economyQueue, granted>>
    BY <1>2, <1>4 DEF HomeSaved, economyVars, buildVars
  <2>2. ready /\ loaded /\ Latest(homeQueue', saved'.home) = Latest(homeQueue, saved.home)
    BY <1>1, <1>2, <2>1, LatestStays DEF EconomyInv, HomeInv
  <2>3. Home' = Home /\ Current' = Current
    BY <2>1, <2>2 DEF Home, Current
  <2>4. EconomyInv'
    BY <1>1, <2>1, <2>2, <2>3 DEF EconomyInv, Settles
  <2> QED
    BY <1>1, <2>1, <2>2, <2>4 DEF HomeInv, SetupInv
<1>5. CASE Reload
  <2>1. /\ ~dirty /\ economyQueue = <<>> /\ homeQueue = <<>>
        /\ queue' = 0 /\ condition' = FALSE /\ ~ready' /\ cells' = {} /\ ~loaded'
        /\ setup' = [c \in Caller |-> "idle"] /\ economyQueue' = <<>> /\ homeQueue' = <<>>
        /\ UNCHANGED <<saved, granted>>
    BY <1>5 DEF Reload, Quiescent
  <2>2. Home' = Home
    BY <1>1, <2>1 DEF Home, HomeInv, Latest
  <2>3. HomeInv' /\ SetupInv'
    BY <2>1 DEF HomeInv, SetupInv
  <2>4. IF saved.economy = None THEN saved.home = None /\ granted = 0 ELSE Settles(saved.economy)
    <3>1. CASE ready
      <4>1. saved.economy = Current /\ Settles(Current)
        BY <1>1, <2>1, <3>1 DEF EconomyInv, Latest
      <4>2. Current \in Snapshot
        BY DEF TypeOK, Current, Snapshot
      <4>3. saved.economy # None
        BY <4>1, <4>2, NoneAssumption
      <4> QED
        BY <4>1, <4>3
    <3>2. CASE ~ready
      BY <1>1, <3>2 DEF EconomyInv
    <3> QED
      BY <3>1, <3>2
  <2>5. EconomyInv'
    BY <2>1, <2>2, <2>4 DEF EconomyInv, Settles
  <2> QED
    BY <2>3, <2>5
<1> QED
  BY <1>3, <1>4, <1>5

LEMMA BalanceKept ==
    TypeOK /\ BalanceInv /\ SetupsTakeTurns /\ [Next]_vars => BalanceInv'
<1> SUFFICES ASSUME TypeOK, BalanceInv, SetupsTakeTurns, [Next]_vars PROVE BalanceInv'
  OBVIOUS
<1>1. TypeOK'
  BY TypesKept
<1>2. CASE UNCHANGED vars
  <2>1. Home' = Home /\ Current' = Current
    BY <1>2 DEF vars, Home, Current
  <2> QED
    BY <1>2, <2>1 DEF vars, BalanceInv, EconomyInv, HomeInv, SetupInv, Settles
<1>3. CASE Next
  BY <1>1, <1>3, BootBalanced, EconomyBalanced, MutationsBalanced, SetupBalanced, StoringBalanced
     DEF Next
<1> QED
  BY <1>2, <1>3
-----------------------------------------------------------------------------
(* Theorems                                                                *)

\* Types of economy, home and store hold for any number of callers: the inventory never goes
\* below nothing, and materials stay within their cap (economy.ts consumeObject, advance).
THEOREM HomesteadTypeCorrect == Spec => []TypeOK
BY TypesStart, TypesKept, PTL DEF Spec

LEMMA HomesteadInvariant == Spec /\ []SetupsTakeTurns => [](TypeOK /\ BalanceInv)
<1>1. TypeOK /\ BalanceInv /\ SetupsTakeTurns /\ [Next]_vars => (TypeOK /\ BalanceInv)'
  BY TypesKept, BalanceKept
<1> QED
  BY TypesStart, BalanceStarts, <1>1, PTL DEF Spec

\* As long as calls of setup() take turns, what was given out is there exactly once and the
\* move-in timer runs when the home earns it, over saves on two streams and reloads (economy.ts
\* persist, buildState.ts afterChange).
THEOREM PartsAlwaysAgree == Spec /\ []SetupsTakeTurns => []PartsAgree
<1>1. TypeOK /\ BalanceInv => PartsAgree
  BY DEF BalanceInv, EconomyInv, Settles, Home, Current, PartsAgree, NothingIsLost, ConditionAgrees
<1> QED
  BY HomesteadInvariant, <1>1, PTL

\* As long as calls of setup() take turns, the store holds what is on the screen once nothing
\* is dirty or under way: no change goes without a save of both parts (Economy.persist,
\* saveHome).
THEOREM StoreAlwaysCatchesUp == Spec /\ []SetupsTakeTurns => []StoreCatchesUp
<1>1. TypeOK /\ BalanceInv => StoreCatchesUp
  BY DEF BalanceInv, EconomyInv, HomeInv, Quiescent, Latest, Current, Placed, StoreCatchesUp
<1> QED
  BY HomesteadInvariant, <1>1, PTL
===============================================================================
