------------------------------ MODULE VisitProofs ------------------------------
(***************************************************************************)
(* What holds of a visit for every number of tabs and characters: a chosen *)
(* character survives, whatever the tabs of the profile do at once.        *)
(***************************************************************************)
EXTENDS Visit, SequenceTheorems, TLAPS

Operation == [kind : {"load", "save", "clear"}, id : Character \union {NoCharacter}]

\* The type invariant, with what it says of created made usable for a step.
VisitTyped == TypeOK /\ created \in [Tab -> Nat]

\* What an operation's continuation finds when its turn comes: it is still the first of its
\* tab, what a migration read is a record, and a tab saves only characters of its own.
OperationsInv ==
    \A t \in Tab :
        /\ step[t] # "start" => ops[t] # <<>>
        /\ step[t] = "migrating" => seen[t] \in records
        /\ \A i \in DOMAIN ops[t] : ops[t][i].kind = "save" => ops[t][i].id \in Created(t)

\* A character that waits for the key module is the tab's own, too.
ChosenInv == \A t \in Tab : \A i \in DOMAIN creating[t] : creating[t][i] \in Created(t)

\* A clear whose commit is through and whose legacy pointer is about to be removed.
Clearing(t) == step[t] = "committed" /\ Head(ops[t]).kind = "clear"

\* Where the last choice is to be found while operations are under way. Until something is
\* committed it is behind the legacy pointer; from then on it is the pointer, and a legacy
\* pointer that still names a record is being cleared or has been passed on to a migration.
ChoiceInv ==
    /\ pointer = NoCharacter /\ choice # NoCharacter =>
           /\ choice = legacy /\ legacy \in records
           /\ \A t \in Tab : step[t] # "committed"
    /\ ~disturbed =>
           /\ pointer # NoCharacter => choice = pointer
           /\ pointer = NoCharacter /\ choice = NoCharacter /\ legacy \in records =>
                  \E t \in Tab : Clearing(t)
           /\ \A t \in Tab : step[t] = "migrating" => choice = seen[t]

\* The saves of a tab that are not in the database yet.
Unsaved(t) ==
    {i \in DOMAIN ops[t] : ops[t][i].kind = "save" /\ ~(i = 1 /\ step[t] = "committed")}

\* The character on the screen is the last one still to be saved, or else the one that was.
PlayedInv(t) ==
    character[t] # NoCharacter =>
        /\ \A i \in Unsaved(t) : (\A j \in Unsaved(t) : j <= i) => ops[t][i].id = character[t]
        /\ Unsaved(t) = {} =>
               /\ character[t] \in records
               /\ choice \in Created(t) => choice = character[t]

EveryPlayedInv == ~failed => \A t \in Tab : PlayedInv(t)

VisitInv ==
    /\ VisitTyped
    /\ OperationsInv
    /\ ChosenInv
    /\ PointerHasRecord
    /\ ChoiceInv
    /\ EveryPlayedInv
-----------------------------------------------------------------------------
\* The marks of a missing character are no characters, and a character belongs to the tab
\* that created it.
LEMMA CharactersApart ==
    /\ NoCharacter \notin Character /\ Pending \notin Character /\ Old \in Character
    /\ \A t \in Tab : Created(t) \subseteq Character
    /\ \A t, u \in Tab : \A c \in Created(t) : c \in Created(u) => t = u
<1> DEFINE New == UNION {Created(t) : t \in Tab}
<1>1. Character = New \union {Old}
  BY Zenon DEF Character
<1>2. {Old, NoCharacter, Pending} \intersect New = {}
  BY MarksAreNoCharacters
<1>3. \A t \in Tab : Created(t) \in {Created(u) : u \in Tab}
  OBVIOUS
<1>4. \A t \in Tab : Created(t) \subseteq New
  BY <1>3
<1>5. \A t, u \in Tab : \A c \in Created(t) : c \in Created(u) => t = u
  BY DEF Created
<1> HIDE DEF New
<1> QED
  BY <1>1, <1>2, <1>4, <1>5, CharacterAssumption

\* Enqueue: the operation is last, and the first one stays first.
LEMMA EnqueueFacts ==
    ASSUME ops \in [Tab -> Seq(Operation)], NEW t \in Tab, NEW op \in Operation, Enqueue(t, op)
    PROVE  /\ ops' \in [Tab -> Seq(Operation)]
           /\ \A u \in Tab \ {t} : ops'[u] = ops[u]
           /\ Len(ops[t]) \in Nat /\ DOMAIN ops[t] = 1..Len(ops[t])
           /\ DOMAIN ops'[t] = 1..(Len(ops[t]) + 1)
           /\ \A i \in DOMAIN ops[t] : ops'[t][i] = ops[t][i]
           /\ ops'[t][Len(ops[t]) + 1] = op
           /\ ops'[t] # <<>>
           /\ ops[t] # <<>> => Head(ops'[t]) = Head(ops[t])
<1>1. ops' = [ops EXCEPT ![t] = Append(ops[t], op)] /\ ops[t] \in Seq(Operation)
  BY DEF Enqueue
<1>2. ops'[t] = Append(ops[t], op) /\ \A u \in Tab \ {t} : ops'[u] = ops[u]
  BY <1>1
<1>3. /\ Append(ops[t], op) \in Seq(Operation) /\ Append(ops[t], op) # <<>>
      /\ Len(Append(ops[t], op)) = Len(ops[t]) + 1
      /\ \A i \in 1..Len(ops[t]) : Append(ops[t], op)[i] = ops[t][i]
      /\ Append(ops[t], op)[Len(ops[t]) + 1] = op
  BY <1>1, AppendProperties
<1>4. Len(ops[t]) \in Nat /\ DOMAIN ops[t] = 1..Len(ops[t])
  BY <1>1, LenProperties
<1>5. DOMAIN ops'[t] = 1..(Len(ops[t]) + 1)
  BY <1>2, <1>3, LenProperties
<1>6. ops' \in [Tab -> Seq(Operation)]
  BY <1>1, <1>3
<1>7. ASSUME ops[t] # <<>> PROVE Head(ops'[t]) = Head(ops[t])
  <2>1. Len(ops[t]) >= 1
    BY <1>1, <1>4, <1>7, EmptySeq
  <2>2. ops'[t][1] = ops[t][1]
    BY <1>2, <1>3, <1>4, <2>1
  <2> QED
    BY <2>2 DEF Head
<1> QED
  BY <1>2, <1>3, <1>4, <1>5, <1>6, <1>7

\* Settled: the first operation is gone, and the others moved up.
LEMMA SettledFacts ==
    ASSUME ops \in [Tab -> Seq(Operation)], NEW t \in Tab, ops[t] # <<>>,
           ops' = [ops EXCEPT ![t] = Tail(@)]
    PROVE  /\ ops' \in [Tab -> Seq(Operation)]
           /\ \A u \in Tab \ {t} : ops'[u] = ops[u]
           /\ DOMAIN ops'[t] \subseteq Nat \ {0}
           /\ \A i \in DOMAIN ops'[t] : i + 1 \in DOMAIN ops[t] /\ ops'[t][i] = ops[t][i + 1]
           /\ \A i \in DOMAIN ops[t] : i \in Nat \ {0} /\ (i # 1 => i - 1 \in DOMAIN ops'[t])
           /\ Head(ops[t]) = ops[t][1] /\ 1 \in DOMAIN ops[t]
<1>1. ops[t] \in Seq(Operation) /\ ops'[t] = Tail(ops[t]) /\ \A u \in Tab \ {t} : ops'[u] = ops[u]
  OBVIOUS
<1>2. /\ Tail(ops[t]) \in Seq(Operation) /\ Len(Tail(ops[t])) = Len(ops[t]) - 1
      /\ \A i \in 1..Len(Tail(ops[t])) : Tail(ops[t])[i] = ops[t][i + 1]
  BY <1>1, HeadTailProperties
<1>3. Len(ops[t]) \in Nat \ {0} /\ DOMAIN ops[t] = 1..Len(ops[t])
  BY <1>1, LenProperties, EmptySeq
<1>4. DOMAIN ops'[t] = 1..(Len(ops[t]) - 1)
  BY <1>1, <1>2, LenProperties
<1>5. Head(ops[t]) = ops[t][1]
  BY DEF Head
<1> QED
  BY <1>1, <1>2, <1>3, <1>4, <1>5
-----------------------------------------------------------------------------
\* The parts of the invariant under a step that leaves alone what they are about.

LEMMA ChoiceFrame ==
    ASSUME ChoiceInv, UNCHANGED database, UNCHANGED choice, disturbed => disturbed',
           \A t \in Tab : step'[t] = "committed" => step[t] = "committed",
           \A t \in Tab : step'[t] = "migrating" => step[t] = "migrating" /\ seen'[t] = seen[t],
           ~disturbed' /\ legacy \in records => \A t \in Tab : Clearing(t) => Clearing(t)'
    PROVE  ChoiceInv'
<1>1. pointer' = pointer /\ legacy' = legacy /\ records' = records /\ choice' = choice
  BY DEF database
<1>2. pointer' = NoCharacter /\ choice' # NoCharacter =>
           /\ choice' = legacy' /\ legacy' \in records'
           /\ \A t \in Tab : step'[t] # "committed"
  BY <1>1 DEF ChoiceInv
<1>3. ASSUME ~disturbed' PROVE pointer' # NoCharacter => choice' = pointer'
  BY <1>1, <1>3 DEF ChoiceInv
<1>4. ASSUME ~disturbed', pointer' = NoCharacter, choice' = NoCharacter, legacy' \in records'
      PROVE  (\E t \in Tab : Clearing(t))'
  <2>1. PICK t \in Tab : Clearing(t)
    BY <1>1, <1>4 DEF ChoiceInv
  <2>2. Clearing(t)'
    BY <1>1, <1>4, <2>1
  <2> QED
    BY <2>2
<1>5. ASSUME ~disturbed', NEW t \in Tab, step'[t] = "migrating" PROVE choice' = seen'[t]
  BY <1>1, <1>5 DEF ChoiceInv
<1> QED
  BY <1>2, <1>3, <1>4, <1>5 DEF ChoiceInv

\* What is played may stay as it is when another tab makes the choice.
LEMMA PlayedFrame ==
    ASSUME NEW t \in Tab, PlayedInv(t), ops'[t] = ops[t],
           step'[t] = step[t] \/ Head(ops[t]).kind # "save",
           character'[t] = character[t], records \subseteq records',
           choice' \in Created(t) => choice' = choice
    PROVE  PlayedInv(t)'
<1>1. Unsaved(t)' = Unsaved(t)
  BY DEF Unsaved, Head
<1> QED
  BY <1>1 DEF PlayedInv

LEMMA NothingPlayed ==
    ASSUME NEW t \in Tab, character'[t] = NoCharacter
    PROVE  PlayedInv(t)'
BY DEF PlayedInv

\* Another operation than a save is chained.
LEMMA PlayedChained ==
    ASSUME VisitTyped, NEW t \in Tab, PlayedInv(t), NEW op \in Operation, op.kind # "save",
           Enqueue(t, op), UNCHANGED <<step, records, choice, character>>
    PROVE  PlayedInv(t)'
<1>1. ops \in [Tab -> Seq(Operation)]
  BY DEF VisitTyped, TypeOK, StoreTypeOK, Operation
<1>2. Unsaved(t)' = Unsaved(t)
  BY <1>1, EnqueueFacts DEF Unsaved
<1>3. \A i \in Unsaved(t) : ops'[t][i] = ops[t][i]
  BY <1>1, EnqueueFacts DEF Unsaved
<1> QED
  BY <1>2, <1>3 DEF PlayedInv

\* A character is played and its save chained: it is the last one from now on.
LEMMA PlayedFinishes ==
    ASSUME VisitTyped, OperationsInv, NEW t \in Tab, NEW c \in Created(t), FinishWith(t, c),
           UNCHANGED step
    PROVE  PlayedInv(t)'
<1>1. ops \in [Tab -> Seq(Operation)] /\ character \in [Tab -> Character \union {NoCharacter}]
  BY DEF VisitTyped, TypeOK, StoreTypeOK, Operation
<1>2. c \in Character /\ SaveOf(c) \in Operation /\ Enqueue(t, SaveOf(c)) /\ character'[t] = c
  BY <1>1, CharactersApart DEF FinishWith, SaveOf, Operation
<1> DEFINE n == Len(ops[t]) + 1
<1>3. /\ n \in Nat /\ n \in DOMAIN ops'[t] /\ ops'[t][n] = SaveOf(c)
      /\ \A i \in DOMAIN ops'[t] : i \in Nat /\ i <= n
  BY <1>1, <1>2, EnqueueFacts
<1>4. n = 1 => step[t] # "committed"
  BY <1>1, EmptySeq, LenProperties DEF OperationsInv
<1>5. n \in Unsaved(t)'
  BY <1>3, <1>4 DEF Unsaved, SaveOf
<1>6. \A i \in Unsaved(t)' : i \in Nat /\ i <= n
  BY <1>3 DEF Unsaved
<1>7. \A i \in Unsaved(t)' : (\A j \in Unsaved(t)' : j <= i) => ops'[t][i].id = character'[t]
  <2> SUFFICES ASSUME NEW i \in Unsaved(t)', \A j \in Unsaved(t)' : j <= i
               PROVE  ops'[t][i].id = character'[t]
    OBVIOUS
  <2>1. i = n
    BY <1>3, <1>5, <1>6
  <2> QED
    BY <1>2, <1>3, <2>1 DEF SaveOf
<1> QED
  BY <1>5, <1>7 DEF PlayedInv

\* An operation that was no unsaved one is settled.
LEMMA PlayedSettles ==
    ASSUME VisitTyped, NEW t \in Tab, PlayedInv(t), ops[t] # <<>>, 1 \notin Unsaved(t), Settled(t),
           UNCHANGED <<records, choice, character>>
    PROVE  PlayedInv(t)'
<1>1. /\ ops \in [Tab -> Seq(Operation)] /\ step' = [step EXCEPT ![t] = "start"]
      /\ step \in [Tab -> {"start", "migrating", "committed"}]
      /\ ops' = [ops EXCEPT ![t] = Tail(@)]
  BY DEF VisitTyped, TypeOK, StoreTypeOK, Operation, Settled
<1>2. step'[t] = "start"
  BY <1>1
<1>3. \A i \in Unsaved(t)' : i \in Nat /\ i + 1 \in Unsaved(t) /\ ops'[t][i] = ops[t][i + 1]
  BY <1>1, SettledFacts DEF Unsaved
<1>4. \A i \in Unsaved(t) : i \in Nat /\ i # 1 /\ i - 1 \in Unsaved(t)'
  <2> SUFFICES ASSUME NEW i \in Unsaved(t) PROVE i \in Nat /\ i # 1 /\ i - 1 \in Unsaved(t)'
    OBVIOUS
  <2>1. i \in DOMAIN ops[t] /\ i # 1 /\ ops[t][i].kind = "save"
    BY DEF Unsaved
  <2>2. i \in Nat \ {0} /\ i - 1 \in DOMAIN ops'[t]
    BY <1>1, <2>1, SettledFacts
  <2>3. ops'[t][i - 1] = ops[t][(i - 1) + 1] /\ (i - 1) + 1 = i
    BY <1>1, <2>2, SettledFacts
  <2> QED
    BY <1>2, <2>1, <2>2, <2>3 DEF Unsaved
<1>5. ASSUME character[t] # NoCharacter
      PROVE  \A i \in Unsaved(t)' :
                 (\A j \in Unsaved(t)' : j <= i) => ops'[t][i].id = character[t]
  <2> SUFFICES ASSUME NEW i \in Unsaved(t)', \A j \in Unsaved(t)' : j <= i
               PROVE  ops'[t][i].id = character[t]
    OBVIOUS
  <2>1. i \in Nat /\ i + 1 \in Unsaved(t) /\ ops'[t][i] = ops[t][i + 1]
    BY <1>3
  <2>2. \A j \in Unsaved(t) : j <= i + 1
    BY <1>4, <2>1
  <2> QED
    BY <1>5, <2>1, <2>2 DEF PlayedInv
<1>6. Unsaved(t)' = {} => Unsaved(t) = {}
  BY <1>4
<1> QED
  BY <1>5, <1>6 DEF PlayedInv

\* The first operation, a save, is committed.
LEMMA PlayedSaves ==
    ASSUME VisitTyped, OperationsInv, NEW t \in Tab, PlayedInv(t), SaveCommit(t),
           UNCHANGED character
    PROVE  PlayedInv(t)'
<1>1. /\ ops \in [Tab -> Seq(Operation)] /\ step' = [step EXCEPT ![t] = "committed"]
      /\ step \in [Tab -> {"start", "migrating", "committed"}]
      /\ ops[t] # <<>> /\ Head(ops[t]).kind = "save" /\ step[t] = "start" /\ ops' = ops
      /\ records' = records \union {Head(ops[t]).id} /\ choice' = Head(ops[t]).id
  BY DEF VisitTyped, TypeOK, StoreTypeOK, Operation, SaveCommit, At
<1>2. step'[t] = "committed"
  BY <1>1
<1>3. /\ Head(ops[t]) = ops[t][1] /\ 1 \in DOMAIN ops[t]
      /\ \A i \in DOMAIN ops[t] : i \in Nat \ {0}
  <2>1. ops[t] \in Seq(Operation)
    BY <1>1
  <2>2. DOMAIN ops[t] = 1..Len(ops[t]) /\ Len(ops[t]) \in Nat \ {0}
    BY <1>1, <2>1, LenProperties, EmptySeq
  <2> QED
    BY <2>2 DEF Head
<1>4. 1 \in Unsaved(t) /\ Unsaved(t)' = Unsaved(t) \ {1}
  BY <1>1, <1>2, <1>3 DEF Unsaved
<1>5. \A i \in Unsaved(t) : i \in Nat \ {0}
  BY <1>3 DEF Unsaved
<1>6. ASSUME character[t] # NoCharacter, NEW i \in Unsaved(t)', \A j \in Unsaved(t)' : j <= i
      PROVE  ops[t][i].id = character[t]
  <2>1. \A j \in Unsaved(t) : j <= i
    BY <1>4, <1>5, <1>6
  <2> QED
    BY <1>4, <1>6, <2>1 DEF PlayedInv
<1>7. ASSUME character[t] # NoCharacter, Unsaved(t)' = {} PROVE Head(ops[t]).id = character[t]
  <2>1. \A j \in Unsaved(t) : j <= 1
    BY <1>4, <1>5, <1>7
  <2> QED
    BY <1>3, <1>4, <1>7, <2>1 DEF PlayedInv
<1> QED
  BY <1>1, <1>6, <1>7 DEF PlayedInv
LEMMA OperationsChained ==
    ASSUME VisitTyped, OperationsInv, NEW t \in Tab, NEW op \in Operation, Enqueue(t, op),
           op.kind = "save" => op.id \in Created(t), UNCHANGED <<step, seen, records>>
    PROVE  OperationsInv'
<1>1. ops \in [Tab -> Seq(Operation)]
  BY DEF VisitTyped, TypeOK, StoreTypeOK, Operation
<1>2. ops'[t] # <<>> /\ \A u \in Tab \ {t} : ops'[u] = ops[u]
  BY <1>1, EnqueueFacts
<1>3. ASSUME NEW i \in DOMAIN ops'[t], ops'[t][i].kind = "save" PROVE ops'[t][i].id \in Created(t)
  <2>1. CASE i \in DOMAIN ops[t]
    BY <1>1, <1>3, <2>1, EnqueueFacts DEF OperationsInv
  <2>2. CASE i \notin DOMAIN ops[t]
    <3>1. i = Len(ops[t]) + 1
      BY <1>1, <2>2, EnqueueFacts
    <3> QED
      BY <1>1, <1>3, <3>1, EnqueueFacts
  <2> QED
    BY <2>1, <2>2
<1> QED
  BY <1>2, <1>3 DEF OperationsInv

LEMMA OperationsSettled ==
    ASSUME VisitTyped, OperationsInv, NEW t \in Tab, ops[t] # <<>>, Settled(t), UNCHANGED records
    PROVE  OperationsInv'
<1>1. /\ ops \in [Tab -> Seq(Operation)] /\ step' = [step EXCEPT ![t] = "start"]
      /\ step \in [Tab -> {"start", "migrating", "committed"}]
      /\ ops' = [ops EXCEPT ![t] = Tail(@)] /\ seen' = [seen EXCEPT ![t] = NoCharacter]
      /\ seen \in [Tab -> Character \union {NoCharacter}]
  BY DEF VisitTyped, TypeOK, StoreTypeOK, Operation, Settled
<1>2. step'[t] = "start"
  BY <1>1
<1>3. \A u \in Tab \ {t} : ops'[u] = ops[u] /\ step'[u] = step[u] /\ seen'[u] = seen[u]
  BY <1>1
<1>4. \A i \in DOMAIN ops'[t] : ops'[t][i].kind = "save" => ops'[t][i].id \in Created(t)
  BY <1>1, SettledFacts DEF OperationsInv
<1> QED
  BY <1>2, <1>3, <1>4 DEF OperationsInv

\* A first operation moves on.
LEMMA OperationsMove ==
    ASSUME VisitTyped, OperationsInv, NEW t \in Tab, ops[t] # <<>>, UNCHANGED ops,
           NEW where \in {"migrating", "committed"}, step' = [step EXCEPT ![t] = where],
           where = "migrating" => seen'[t] \in records', records \subseteq records',
           \A u \in Tab \ {t} : seen'[u] = seen[u]
    PROVE  OperationsInv'
<1>1. step \in [Tab -> {"start", "migrating", "committed"}]
  BY DEF VisitTyped, TypeOK, StoreTypeOK
<1>2. step'[t] = where /\ \A u \in Tab \ {t} : step'[u] = step[u]
  BY <1>1
<1> QED
  BY <1>2 DEF OperationsInv

-----------------------------------------------------------------------------
\* What each action does to the invariant.

LEMMA OpenPageStep ==
    ASSUME VisitInv, NEW t \in Tab, NEW joining \in BOOLEAN, NEW readable \in BOOLEAN,
           OpenPage(t, joining, readable)
    PROVE  VisitInv'
<1>1. /\ VisitTyped /\ OperationsInv /\ ChosenInv /\ PointerHasRecord /\ ChoiceInv /\ EveryPlayedInv
      /\ Enqueue(t, Load) /\ UNCHANGED <<introSeen, creating, created, character>>
      /\ UNCHANGED <<step, seen, found, choice, clears, failed, disturbed>>
      /\ UNCHANGED <<records, pointer, legacy>>
      /\ stage' = [stage EXCEPT ![t] = IF joining \/ (readable /\ introSeen) THEN "gate" ELSE "intro"]
  BY DEF VisitInv, OpenPage, database
<1>2. Load \in Operation /\ Load.kind # "save"
  BY DEF Load, Operation
<1>3. ops \in [Tab -> Seq(Operation)]
  BY <1>1 DEF VisitTyped, TypeOK, StoreTypeOK, Operation
<1>4. ops' \in [Tab -> Seq(Operation)] /\ \A u \in Tab \ {t} : ops'[u] = ops[u]
  BY <1>1, <1>2, <1>3, EnqueueFacts
<1>5. StoreTypeOK'
  BY <1>1, <1>4 DEF VisitTyped, TypeOK, StoreTypeOK, Operation
<1>6. VisitTyped'
  BY <1>1, <1>5 DEF VisitTyped, TypeOK
<1>7. OperationsInv'
  BY <1>1, <1>2, OperationsChained
<1>8. \A u \in Tab : Clearing(u) => Clearing(u)'
  BY <1>1, <1>2, <1>3, <1>4, EnqueueFacts DEF Clearing, OperationsInv
<1>9. ChoiceInv'
  BY <1>1, <1>8, ChoiceFrame DEF database
<1>10. ASSUME ~failed', NEW u \in Tab PROVE PlayedInv(u)'
  <2>1. PlayedInv(u) /\ records \subseteq records'
    BY <1>1, <1>10 DEF EveryPlayedInv
  <2>2. CASE u = t
    BY <1>1, <1>2, <2>1, <2>2, PlayedChained
  <2>3. CASE u # t
    BY <1>1, <1>4, <2>1, <2>3, PlayedFrame
  <2> QED
    BY <2>2, <2>3
<1>11. ChosenInv' /\ PointerHasRecord'
  BY <1>1 DEF ChosenInv, PointerHasRecord
<1> QED
  BY <1>6, <1>7, <1>9, <1>10, <1>11 DEF VisitInv, EveryPlayedInv

LEMMA CompleteIntroStep ==
    ASSUME VisitInv, NEW t \in Tab, NEW writable \in BOOLEAN, CompleteIntro(t, writable)
    PROVE  VisitInv'
<1>1. /\ UNCHANGED <<records, pointer, legacy, ops, step, seen, found, choice, clears, failed,
                     disturbed, creating, created, character>>
      /\ stage' = [stage EXCEPT ![t] = "gate"] /\ introSeen' = (introSeen \/ writable)
  BY DEF CompleteIntro, storeVars, database
<1>2. StoreTypeOK'
  BY <1>1 DEF VisitInv, VisitTyped, TypeOK, StoreTypeOK
<1>3. introSeen' \in BOOLEAN
  BY <1>1 DEF VisitInv, VisitTyped, TypeOK
<1>4. VisitTyped'
  BY <1>1, <1>2, <1>3 DEF VisitInv, VisitTyped, TypeOK
<1>5. OperationsInv' /\ ChosenInv' /\ PointerHasRecord'
  BY <1>1 DEF VisitInv, OperationsInv, ChosenInv, PointerHasRecord
<1>6. ChoiceInv'
  BY <1>1 DEF VisitInv, ChoiceInv, Clearing
<1>7. EveryPlayedInv'
  BY <1>1 DEF VisitInv, EveryPlayedInv, PlayedInv, Unsaved
<1> QED
  BY <1>4, <1>5, <1>6, <1>7 DEF VisitInv

\* A character is played: what follows from it whether it was waiting or not.
LEMMA Finishing ==
    ASSUME VisitInv, NEW t \in Tab, NEW c \in Created(t), FinishWith(t, c),
           UNCHANGED <<step, seen, found, choice, clears, failed, disturbed>>,
           UNCHANGED <<records, pointer, legacy>>
    PROVE  /\ StoreTypeOK' /\ OperationsInv' /\ PointerHasRecord' /\ ChoiceInv' /\ EveryPlayedInv'
           /\ stage' \in [Tab -> {"closed", "intro", "gate", "playing"}]
           /\ character' \in [Tab -> Character \union {NoCharacter}]
<1>1. /\ VisitTyped /\ OperationsInv /\ PointerHasRecord /\ ChoiceInv /\ EveryPlayedInv
      /\ Enqueue(t, SaveOf(c)) /\ stage' = [stage EXCEPT ![t] = "playing"]
      /\ character' = [character EXCEPT ![t] = c]
  BY DEF VisitInv, FinishWith
<1>2. c \in Character /\ SaveOf(c) \in Operation /\ SaveOf(c).id \in Created(t)
  BY CharactersApart DEF SaveOf, Operation
<1>3. ops \in [Tab -> Seq(Operation)]
  BY <1>1 DEF VisitTyped, TypeOK, StoreTypeOK, Operation
<1>4. ops' \in [Tab -> Seq(Operation)] /\ \A u \in Tab \ {t} : ops'[u] = ops[u]
  BY <1>1, <1>2, <1>3, EnqueueFacts
<1>5. StoreTypeOK'
  BY <1>1, <1>4 DEF VisitTyped, TypeOK, StoreTypeOK, Operation
<1>6. OperationsInv'
  BY <1>1, <1>2, OperationsChained
<1>7. \A u \in Tab : Clearing(u) => Clearing(u)'
  BY <1>1, <1>2, <1>3, <1>4, EnqueueFacts DEF Clearing, OperationsInv
<1>8. ChoiceInv'
  BY <1>1, <1>7, ChoiceFrame DEF database
<1>9. character \in [Tab -> Character \union {NoCharacter}]
      /\ stage \in [Tab -> {"closed", "intro", "gate", "playing"}]
  BY <1>1 DEF VisitTyped, TypeOK
<1>10. ASSUME ~failed', NEW u \in Tab PROVE PlayedInv(u)'
  <2>1. PlayedInv(u) /\ records \subseteq records'
    BY <1>1, <1>10 DEF EveryPlayedInv
  <2>2. CASE u = t
    BY <1>1, <2>2, PlayedFinishes
  <2>3. CASE u # t
    BY <1>1, <1>4, <1>9, <2>1, <2>3, PlayedFrame
  <2> QED
    BY <2>2, <2>3
<1> QED
  BY <1>1, <1>2, <1>5, <1>6, <1>8, <1>9, <1>10 DEF PointerHasRecord, EveryPlayedInv

LEMMA EnterStep ==
    ASSUME VisitInv, NEW t \in Tab, Enter(t)
    PROVE  VisitInv'
<1> DEFINE c == <<t, created[t] + 1>>
<1>1. /\ VisitTyped /\ OperationsInv /\ ChosenInv /\ PointerHasRecord /\ ChoiceInv /\ EveryPlayedInv
      /\ created[t] < MaxCreated[t] /\ created' = [created EXCEPT ![t] = @ + 1]
      /\ UNCHANGED <<introSeen, step, seen, found, choice, clears, failed, disturbed>>
      /\ UNCHANGED <<records, pointer, legacy>>
  BY DEF VisitInv, Enter, database
<1>2. created[t] \in Nat /\ MaxCreated[t] \in Nat
  BY <1>1, CharacterAssumption DEF VisitTyped
<1>3. c \in Created(t) /\ c \in Character
  <2>1. created[t] + 1 \in 1..MaxCreated[t]
    BY <1>1, <1>2
  <2>2. c \in Created(t)
    BY <2>1 DEF Created
  <2> QED
    BY <2>2, CharactersApart
<1>4. created' \in [Tab -> Nat] /\ \A u \in Tab : created'[u] \in 0..MaxCreated[u]
  <2>1. created' \in [Tab -> Nat]
    BY <1>1, <1>2 DEF VisitTyped
  <2>2. \A u \in Tab : created[u] \in 0..MaxCreated[u] /\ created \in [Tab -> Nat]
    BY <1>1 DEF VisitTyped, TypeOK
  <2> QED
    BY <1>1, <1>2, <2>1, <2>2
<1>5. CASE /\ creating' = [creating EXCEPT ![t] = Append(@, c)] /\ UNCHANGED <<stage, character, ops>>
  <2>1. creating \in [Tab -> Seq(Character)]
    BY <1>1 DEF VisitTyped, TypeOK
  <2>2. Append(creating[t], c) \in Seq(Character)
    BY <1>3, <2>1, AppendProperties
  <2>3. creating' \in [Tab -> Seq(Character)] /\ creating'[t] = Append(creating[t], c)
        /\ \A u \in Tab \ {t} : creating'[u] = creating[u]
    BY <1>5, <2>1, <2>2
  <2>4. ChosenInv'
    <3>1. ASSUME NEW i \in DOMAIN creating'[t] PROVE creating'[t][i] \in Created(t)
      <4>1. /\ Len(creating[t]) \in Nat /\ DOMAIN creating[t] = 1..Len(creating[t])
            /\ DOMAIN creating'[t] = 1..(Len(creating[t]) + 1)
            /\ \A j \in 1..Len(creating[t]) : creating'[t][j] = creating[t][j]
            /\ creating'[t][Len(creating[t]) + 1] = c
        BY <1>3, <2>1, <2>2, <2>3, AppendProperties, LenProperties
      <4>2. i \in 1..Len(creating[t]) \/ i = Len(creating[t]) + 1
        BY <3>1, <4>1
      <4> QED
        BY <1>1, <1>3, <4>1, <4>2 DEF ChosenInv
    <3> QED
      BY <1>1, <2>3, <3>1 DEF ChosenInv
  <2>5. StoreTypeOK'
    BY <1>1, <1>5 DEF VisitTyped, TypeOK, StoreTypeOK
  <2>6. VisitTyped'
    BY <1>1, <1>4, <1>5, <2>3, <2>5 DEF VisitTyped, TypeOK
  <2>7. OperationsInv' /\ PointerHasRecord'
    BY <1>1, <1>5 DEF OperationsInv, PointerHasRecord
  <2>8. ChoiceInv'
    BY <1>1, <1>5 DEF ChoiceInv, Clearing
  <2>9. EveryPlayedInv'
    BY <1>1, <1>5 DEF EveryPlayedInv, PlayedInv, Unsaved
  <2> QED
    BY <2>4, <2>6, <2>7, <2>8, <2>9 DEF VisitInv
<1>6. CASE FinishWith(t, c) /\ UNCHANGED creating
  <2>1. /\ StoreTypeOK' /\ OperationsInv' /\ PointerHasRecord' /\ ChoiceInv' /\ EveryPlayedInv'
        /\ stage' \in [Tab -> {"closed", "intro", "gate", "playing"}]
        /\ character' \in [Tab -> Character \union {NoCharacter}]
    BY <1>1, <1>3, <1>6, Finishing
  <2>2. ChosenInv'
    BY <1>1, <1>6 DEF ChosenInv
  <2>3. VisitTyped'
    BY <1>1, <1>4, <1>6, <2>1 DEF VisitTyped, TypeOK
  <2> QED
    BY <2>1, <2>2, <2>3 DEF VisitInv
<1> QED
  BY <1>5, <1>6 DEF Enter

LEMMA KeyArrivesStep ==
    ASSUME VisitInv, NEW t \in Tab, KeyArrives(t)
    PROVE  VisitInv'
<1> DEFINE c == Head(creating[t])
<1>1. /\ VisitTyped /\ ChosenInv /\ creating[t] # <<>>
      /\ FinishWith(t, c) /\ creating' = [creating EXCEPT ![t] = Tail(@)]
      /\ UNCHANGED <<introSeen, created, step, seen, found, choice, clears, failed, disturbed>>
      /\ UNCHANGED <<records, pointer, legacy>>
  BY DEF VisitInv, KeyArrives, database
<1>2. creating \in [Tab -> Seq(Character)] /\ creating[t] \in Seq(Character)
  BY <1>1 DEF VisitTyped, TypeOK
<1>3. /\ Tail(creating[t]) \in Seq(Character) /\ Len(Tail(creating[t])) = Len(creating[t]) - 1
      /\ \A i \in 1..Len(Tail(creating[t])) : Tail(creating[t])[i] = creating[t][i + 1]
  BY <1>1, <1>2, HeadTailProperties
<1>4. /\ Len(creating[t]) \in Nat \ {0} /\ DOMAIN creating[t] = 1..Len(creating[t])
      /\ DOMAIN Tail(creating[t]) = 1..(Len(creating[t]) - 1)
  BY <1>1, <1>2, <1>3, LenProperties, EmptySeq
<1>5. c \in Created(t)
  <2>1. c = creating[t][1] /\ 1 \in DOMAIN creating[t]
    BY <1>4 DEF Head
  <2> QED
    BY <1>1, <2>1 DEF ChosenInv
<1>6. creating' \in [Tab -> Seq(Character)] /\ creating'[t] = Tail(creating[t])
      /\ \A u \in Tab \ {t} : creating'[u] = creating[u]
  BY <1>1, <1>2, <1>3
<1>7. \A i \in DOMAIN creating'[t] : creating'[t][i] \in Created(t)
  <2> SUFFICES ASSUME NEW i \in DOMAIN creating'[t] PROVE creating'[t][i] \in Created(t)
    OBVIOUS
  <2>1. i + 1 \in DOMAIN creating[t] /\ creating'[t][i] = creating[t][i + 1]
    BY <1>3, <1>4, <1>6
  <2> QED
    BY <1>1, <2>1 DEF ChosenInv
<1>8. ChosenInv'
  BY <1>1, <1>6, <1>7 DEF ChosenInv
<1>9. /\ StoreTypeOK' /\ OperationsInv' /\ PointerHasRecord' /\ ChoiceInv' /\ EveryPlayedInv'
      /\ stage' \in [Tab -> {"closed", "intro", "gate", "playing"}]
      /\ character' \in [Tab -> Character \union {NoCharacter}]
  BY <1>1, <1>5, Finishing
<1>10. VisitTyped'
  BY <1>1, <1>6, <1>9 DEF VisitTyped, TypeOK
<1> QED
  BY <1>8, <1>9, <1>10 DEF VisitInv

LEMMA ClosePageStep ==
    ASSUME VisitInv, NEW t \in Tab, ClosePage(t)
    PROVE  VisitInv'
<1>1. /\ VisitTyped /\ OperationsInv /\ ChosenInv /\ PointerHasRecord /\ ChoiceInv /\ EveryPlayedInv
      /\ stage' = [stage EXCEPT ![t] = "closed"] /\ creating' = [creating EXCEPT ![t] = <<>>]
      /\ character' = [character EXCEPT ![t] = NoCharacter] /\ UNCHANGED <<introSeen, created>>
  BY DEF VisitInv, ClosePage
<1>2. /\ disturbed' = (disturbed \/ (At(t, "clear", "committed") /\ legacy # NoCharacter))
      /\ failed' \in BOOLEAN /\ (failed => failed')
      /\ ops' = [ops EXCEPT ![t] = <<>>] /\ step' = [step EXCEPT ![t] = "start"]
      /\ seen' = [seen EXCEPT ![t] = NoCharacter] /\ found' = [found EXCEPT ![t] = Pending]
      /\ UNCHANGED <<records, pointer, legacy, choice, clears>>
  BY DEF ClosePage, StoreGone, Disturbed, database
<1>3. /\ ops \in [Tab -> Seq(Operation)] /\ step \in [Tab -> {"start", "migrating", "committed"}]
      /\ seen \in [Tab -> Character \union {NoCharacter}]
      /\ found \in [Tab -> Character \union {NoCharacter, Pending}] /\ disturbed \in BOOLEAN
      /\ creating \in [Tab -> Seq(Character)] /\ records \subseteq Character
      /\ character \in [Tab -> Character \union {NoCharacter}]
      /\ stage \in [Tab -> {"closed", "intro", "gate", "playing"}]
  BY <1>1 DEF VisitTyped, TypeOK, StoreTypeOK, Operation
<1>4. ops'[t] = <<>> /\ step'[t] = "start" /\ creating'[t] = <<>> /\ character'[t] = NoCharacter
      /\ \A u \in Tab \ {t} : /\ ops'[u] = ops[u] /\ step'[u] = step[u] /\ seen'[u] = seen[u]
                              /\ creating'[u] = creating[u] /\ character'[u] = character[u]
  BY <1>1, <1>2, <1>3
<1>5. ops' \in [Tab -> Seq(Operation)] /\ creating' \in [Tab -> Seq(Character)]
  <2>1. <<>> \in Seq(Operation) /\ <<>> \in Seq(Character)
    BY EmptySeq
  <2> QED
    BY <1>1, <1>2, <1>3, <2>1
<1>6. disturbed' \in BOOLEAN
  BY <1>2, <1>3
<1>7. step' \in [Tab -> {"start", "migrating", "committed"}]
      /\ seen' \in [Tab -> Character \union {NoCharacter}]
      /\ found' \in [Tab -> Character \union {NoCharacter, Pending}]
      /\ stage' \in [Tab -> {"closed", "intro", "gate", "playing"}]
      /\ character' \in [Tab -> Character \union {NoCharacter}]
  BY <1>1, <1>2, <1>3
<1>8. StoreTypeOK'
  <2>1. /\ records' \subseteq Character /\ pointer' \in Character \union {NoCharacter}
        /\ legacy' \in {NoCharacter, Old} /\ choice' \in Character \union {NoCharacter}
        /\ clears' \in 0..MaxClears
    BY <1>1, <1>2 DEF VisitTyped, TypeOK, StoreTypeOK
  <2>2. failed' \in BOOLEAN
    BY <1>2
  <2> QED
    BY <1>5, <1>6, <1>7, <2>1, <2>2, Zenon DEF StoreTypeOK, Operation
<1>9. VisitTyped'
  BY <1>1, <1>5, <1>7, <1>8 DEF VisitTyped, TypeOK
<1>10. DOMAIN <<>> = {}
  OBVIOUS
<1>11. OperationsInv' /\ ChosenInv' /\ PointerHasRecord'
  BY <1>1, <1>2, <1>4, <1>10 DEF OperationsInv, ChosenInv, PointerHasRecord
<1>12. ASSUME ~disturbed', legacy \in records, NEW u \in Tab, Clearing(u) PROVE Clearing(u)'
  <2>1. u # t
    BY <1>1, <1>2, <1>3, <1>12, CharactersApart DEF Clearing, At, OperationsInv
  <2> QED
    BY <1>4, <1>12, <2>1 DEF Clearing
<1>13. ChoiceInv'
  BY <1>1, <1>2, <1>4, <1>12, ChoiceFrame DEF database
<1>14. ASSUME ~failed', NEW u \in Tab PROVE PlayedInv(u)'
  <2>1. ~failed /\ records \subseteq records' /\ choice' = choice
    BY <1>2, <1>14, Zenon
  <2>2. PlayedInv(u)
    BY <1>1, <2>1 DEF EveryPlayedInv
  <2>3. CASE u = t
    BY <1>4, <2>3, NothingPlayed
  <2>4. CASE u # t
    BY <1>4, <2>1, <2>2, <2>4, PlayedFrame
  <2> QED
    BY <2>3, <2>4
<1> QED
  BY <1>9, <1>11, <1>13, <1>14 DEF VisitInv, EveryPlayedInv

\* The operations of the store leave the pages alone, and where the first operation is over
\* without a commit they leave the database alone too.
LEMMA SettledStep ==
    ASSUME VisitInv, NEW t \in Tab, ops[t] # <<>>, step[t] # "committed", Settled(t),
           UNCHANGED database, UNCHANGED <<choice, clears, disturbed>>, UNCHANGED pageVars,
           found' \in [Tab -> Character \union {NoCharacter, Pending}], failed' \in BOOLEAN,
           ~failed' => ~failed /\ Head(ops[t]).kind # "save"
    PROVE  VisitInv'
<1>1. /\ VisitTyped /\ OperationsInv /\ ChosenInv /\ PointerHasRecord /\ ChoiceInv /\ EveryPlayedInv
      /\ UNCHANGED <<records, pointer, legacy>>
      /\ UNCHANGED <<stage, introSeen, creating, created, character>>
  BY DEF VisitInv, database, pageVars
<1>2. /\ ops \in [Tab -> Seq(Operation)] /\ step \in [Tab -> {"start", "migrating", "committed"}]
      /\ seen \in [Tab -> Character \union {NoCharacter}]
      /\ ops' = [ops EXCEPT ![t] = Tail(@)] /\ step' = [step EXCEPT ![t] = "start"]
      /\ seen' = [seen EXCEPT ![t] = NoCharacter]
  BY <1>1 DEF VisitTyped, TypeOK, StoreTypeOK, Operation, Settled
<1>3. /\ ops' \in [Tab -> Seq(Operation)] /\ step' \in [Tab -> {"start", "migrating", "committed"}]
      /\ seen' \in [Tab -> Character \union {NoCharacter}]
  BY <1>2, SettledFacts
<1>4. step'[t] = "start"
      /\ \A u \in Tab \ {t} : ops'[u] = ops[u] /\ step'[u] = step[u] /\ seen'[u] = seen[u]
  BY <1>2
<1>5. StoreTypeOK'
  <2>1. /\ records' \subseteq Character /\ pointer' \in Character \union {NoCharacter}
        /\ legacy' \in {NoCharacter, Old} /\ choice' \in Character \union {NoCharacter}
        /\ clears' \in 0..MaxClears
    BY <1>1 DEF VisitTyped, TypeOK, StoreTypeOK
  <2>2. disturbed' \in BOOLEAN
    BY <1>1 DEF VisitTyped, TypeOK, StoreTypeOK
  <2> QED
    BY <1>3, <2>1, <2>2, Zenon DEF StoreTypeOK, Operation
<1>6. VisitTyped'
  BY <1>1, <1>5 DEF VisitTyped, TypeOK
<1>7. OperationsInv'
  BY <1>1, OperationsSettled
<1>8. ChosenInv' /\ PointerHasRecord'
  BY <1>1 DEF ChosenInv, PointerHasRecord
<1>9. \A u \in Tab : Clearing(u) => Clearing(u)'
  BY <1>4 DEF Clearing
<1>10. ChoiceInv'
  BY <1>1, <1>4, <1>9, ChoiceFrame
<1>11. ASSUME ~failed', NEW u \in Tab PROVE PlayedInv(u)'
  <2>1. PlayedInv(u) /\ records \subseteq records' /\ Head(ops[t]).kind # "save"
    BY <1>1, <1>11 DEF EveryPlayedInv
  <2>2. CASE u = t
    <3>1. 1 \notin Unsaved(t)
      BY <2>1 DEF Unsaved, Head
    <3> QED
      BY <1>1, <2>1, <2>2, <3>1, PlayedSettles
  <2>3. CASE u # t
    BY <1>1, <1>4, <2>1, <2>3, PlayedFrame
  <2> QED
    BY <2>2, <2>3
<1> QED
  BY <1>6, <1>7, <1>8, <1>10, <1>11 DEF VisitInv, EveryPlayedInv

LEMMA RejectStep ==
    ASSUME VisitInv, NEW t \in Tab, StoreRejects(t)
    PROVE  VisitInv'
<1>1. /\ ops[t] # <<>> /\ step[t] # "committed" /\ Settled(t) /\ UNCHANGED pageVars
      /\ UNCHANGED database /\ UNCHANGED <<choice, clears, disturbed>>
      /\ failed' = (failed \/ Head(ops[t]).kind = "save")
      /\ found' = IF Head(ops[t]).kind = "load" THEN [found EXCEPT ![t] = NoCharacter] ELSE found
  BY DEF StoreRejects, Reject
<1>2. found' \in [Tab -> Character \union {NoCharacter, Pending}]
  BY <1>1 DEF VisitInv, VisitTyped, TypeOK, StoreTypeOK
<1>3. failed \in BOOLEAN
  BY DEF VisitInv, VisitTyped, TypeOK, StoreTypeOK
<1>4. failed' \in BOOLEAN /\ (~failed' => ~failed /\ Head(ops[t]).kind # "save")
  BY <1>1, <1>3
<1> QED
  BY <1>1, <1>2, <1>4, SettledStep

LEMMA LoadReadStep ==
    ASSUME VisitInv, NEW t \in Tab, NEW readable \in BOOLEAN, LoadRead(t, readable),
           UNCHANGED pageVars
    PROVE  VisitInv'
<1> DEFINE id == StoredOrLegacy(readable)
<1>1. /\ VisitTyped /\ OperationsInv /\ ChosenInv /\ PointerHasRecord /\ ChoiceInv /\ EveryPlayedInv
      /\ ops[t] # <<>> /\ Head(ops[t]).kind = "load" /\ step[t] = "start"
      /\ UNCHANGED <<records, pointer, legacy>> /\ UNCHANGED <<choice, clears, failed>>
      /\ UNCHANGED <<stage, introSeen, creating, created, character>>
  BY DEF VisitInv, LoadRead, At, database, pageVars
<1>2. /\ ops \in [Tab -> Seq(Operation)] /\ step \in [Tab -> {"start", "migrating", "committed"}]
      /\ seen \in [Tab -> Character \union {NoCharacter}] /\ records \subseteq Character
      /\ found \in [Tab -> Character \union {NoCharacter, Pending}]
  BY <1>1 DEF VisitTyped, TypeOK, StoreTypeOK, Operation
<1>3. failed \in BOOLEAN /\ disturbed \in BOOLEAN
  BY <1>1 DEF VisitTyped, TypeOK, StoreTypeOK
<1>4. CASE ~Migrates(id)
  <2>1. /\ Settled(t) /\ UNCHANGED disturbed
        /\ found' = [found EXCEPT ![t] = IF id \in records THEN id ELSE NoCharacter]
    BY <1>4 DEF LoadRead
  <2>2. found' \in [Tab -> Character \union {NoCharacter, Pending}]
    BY <1>2, <2>1
  <2>3. failed' \in BOOLEAN /\ (~failed' => ~failed)
    BY <1>1, <1>3
  <2>4. UNCHANGED database /\ UNCHANGED <<choice, clears, disturbed>>
    BY <1>1, <2>1 DEF database
  <2> QED
    BY <1>1, <2>1, <2>2, <2>3, <2>4, SettledStep
<1>5. CASE Migrates(id)
  <2>1. /\ id \in records /\ pointer = NoCharacter
        /\ step' = [step EXCEPT ![t] = "migrating"] /\ seen' = [seen EXCEPT ![t] = id]
        /\ disturbed' = (disturbed \/ UnderClear(t)) /\ UNCHANGED <<ops, found>>
    BY <1>5 DEF LoadRead, Migrates, Disturbed
  <2>2. id = legacy
    BY <1>2, <2>1, CharactersApart DEF StoredOrLegacy
  <2>3. step'[t] = "migrating" /\ seen'[t] = id
        /\ \A u \in Tab \ {t} : step'[u] = step[u] /\ seen'[u] = seen[u]
    BY <1>2, <2>1
  <2>4. /\ step' \in [Tab -> {"start", "migrating", "committed"}]
        /\ seen' \in [Tab -> Character \union {NoCharacter}]
    BY <1>2, <2>1
  <2>5. disturbed' \in BOOLEAN /\ (~disturbed' => ~disturbed /\ ~UnderClear(t))
    BY <1>3, <2>1
  <2>6. StoreTypeOK'
    <3>1. /\ records' \subseteq Character /\ pointer' \in Character \union {NoCharacter}
          /\ legacy' \in {NoCharacter, Old} /\ choice' \in Character \union {NoCharacter}
          /\ clears' \in 0..MaxClears
      BY <1>1 DEF VisitTyped, TypeOK, StoreTypeOK
    <3>2. ops' \in [Tab -> Seq(Operation)]
          /\ found' \in [Tab -> Character \union {NoCharacter, Pending}]
      BY <1>2, <2>1
    <3>3. failed' \in BOOLEAN
      BY <1>1, <1>3
    <3> QED
      BY <2>4, <2>5, <3>1, <3>2, <3>3, Zenon DEF StoreTypeOK, Operation
  <2>7. VisitTyped'
    BY <1>1, <2>6 DEF VisitTyped, TypeOK
  <2>8. OperationsInv'
    <3>1. "migrating" \in {"migrating", "committed"} /\ seen'[t] \in records' /\ UNCHANGED ops
      BY <1>1, <2>1, <2>3
    <3>2. \A u \in Tab \ {t} : seen'[u] = seen[u]
      BY <2>3
    <3> HIDE DEF id
    <3> QED
      BY <1>1, <2>1, <3>1, <3>2, OperationsMove
  <2>9. ChosenInv' /\ PointerHasRecord'
    BY <1>1 DEF ChosenInv, PointerHasRecord
  <2>10. \A u \in Tab : step'[u] = "committed" => step[u] = "committed"
    BY <2>3
  <2>11. ASSUME ~disturbed' PROVE choice = id
    <3>1. ~\E u \in Tab : Clearing(u)
      BY <1>1, <1>2, <2>5, <2>11 DEF UnderClear, Clearing
    <3>2. choice # NoCharacter
      BY <1>1, <2>1, <2>2, <2>5, <2>11, <3>1 DEF ChoiceInv
    <3> QED
      BY <1>1, <2>1, <2>2, <3>2 DEF ChoiceInv
  <2>12. ASSUME ~disturbed', NEW u \in Tab, step'[u] = "migrating" PROVE choice' = seen'[u]
    BY <1>1, <2>3, <2>5, <2>11, <2>12 DEF ChoiceInv
  <2>13. ASSUME ~disturbed', choice = NoCharacter PROVE FALSE
    BY <1>2, <2>1, <2>11, <2>13, CharactersApart
  <2>14. ChoiceInv'
    <3>1. pointer' = NoCharacter /\ choice' # NoCharacter =>
              /\ choice' = legacy' /\ legacy' \in records'
              /\ \A u \in Tab : step'[u] # "committed"
      BY <1>1, <2>10 DEF ChoiceInv
    <3>2. pointer' = NoCharacter
      BY <1>1, <2>1
    <3> QED
      BY <1>1, <2>12, <2>13, <3>1, <3>2 DEF ChoiceInv
  <2>15. ASSUME ~failed', NEW u \in Tab PROVE PlayedInv(u)'
    <3>1. PlayedInv(u) /\ records \subseteq records'
      BY <1>1, <2>15 DEF EveryPlayedInv
    <3>2. step'[u] = step[u] \/ Head(ops[u]).kind # "save"
      BY <1>1, <2>3
    <3> QED
      BY <1>1, <2>1, <3>1, <3>2, PlayedFrame
  <2> QED
    BY <2>7, <2>8, <2>9, <2>14, <2>15 DEF VisitInv, EveryPlayedInv
<1> QED
  BY <1>4, <1>5

\* A commit: the type of what it writes.
LEMMA CommitTyped ==
    ASSUME VisitTyped, NEW t \in Tab, step' = [step EXCEPT ![t] = "committed"],
           UNCHANGED <<legacy, ops, seen, found, clears, failed>>, UNCHANGED pageVars,
           records' \subseteq Character, pointer' \in Character \union {NoCharacter},
           choice' \in Character \union {NoCharacter}, disturbed' \in BOOLEAN
    PROVE  VisitTyped'
<1>1. /\ legacy' \in {NoCharacter, Old} /\ clears' \in 0..MaxClears
      /\ ops' \in [Tab -> Seq(Operation)] /\ step' \in [Tab -> {"start", "migrating", "committed"}]
      /\ seen' \in [Tab -> Character \union {NoCharacter}]
      /\ found' \in [Tab -> Character \union {NoCharacter, Pending}]
  BY DEF VisitTyped, TypeOK, StoreTypeOK, Operation
<1>2. failed' \in BOOLEAN
  BY DEF VisitTyped, TypeOK, StoreTypeOK
<1>3. StoreTypeOK'
  BY <1>1, <1>2, Zenon DEF StoreTypeOK, Operation
<1> QED
  BY <1>3 DEF VisitTyped, TypeOK, pageVars

LEMMA MigrateCommitStep ==
    ASSUME VisitInv, NEW t \in Tab, MigrateCommit(t), UNCHANGED pageVars
    PROVE  VisitInv'
<1>1. /\ VisitTyped /\ OperationsInv /\ ChosenInv /\ PointerHasRecord /\ ChoiceInv /\ EveryPlayedInv
      /\ ops[t] # <<>> /\ Head(ops[t]).kind = "load" /\ step[t] = "migrating"
      /\ pointer' = seen[t] /\ step' = [step EXCEPT ![t] = "committed"]
      /\ UNCHANGED <<records, legacy, ops, seen, found, choice, clears, failed, disturbed>>
      /\ UNCHANGED <<stage, introSeen, creating, created, character>>
  BY DEF VisitInv, MigrateCommit, At, pageVars
<1>2. /\ step \in [Tab -> {"start", "migrating", "committed"}] /\ records \subseteq Character
      /\ choice \in Character \union {NoCharacter}
  BY <1>1 DEF VisitTyped, TypeOK, StoreTypeOK
<1>3. disturbed' \in BOOLEAN
  BY <1>1 DEF VisitTyped, TypeOK, StoreTypeOK
<1>4. step'[t] = "committed" /\ \A u \in Tab \ {t} : step'[u] = step[u]
  BY <1>1, <1>2
<1>5. seen[t] \in records /\ pointer' # NoCharacter
  BY <1>1, <1>2, CharactersApart DEF OperationsInv
<1>6. VisitTyped'
  BY <1>1, <1>2, <1>3, <1>5, CommitTyped
<1>7. OperationsInv'
  BY <1>1, OperationsMove
<1>8. ChosenInv' /\ PointerHasRecord'
  BY <1>1, <1>5 DEF ChosenInv, PointerHasRecord
<1>9. ChoiceInv'
  BY <1>1, <1>4, <1>5 DEF ChoiceInv
<1>10. ASSUME ~failed', NEW u \in Tab PROVE PlayedInv(u)'
  <2>1. PlayedInv(u) /\ records \subseteq records'
    BY <1>1, <1>10 DEF EveryPlayedInv
  <2>2. step'[u] = step[u] \/ Head(ops[u]).kind # "save"
    BY <1>1, <1>4
  <2> QED
    BY <1>1, <2>1, <2>2, PlayedFrame
<1> QED
  BY <1>6, <1>7, <1>8, <1>9, <1>10 DEF VisitInv, EveryPlayedInv

LEMMA SaveCommitStep ==
    ASSUME VisitInv, NEW t \in Tab, SaveCommit(t), UNCHANGED pageVars
    PROVE  VisitInv'
<1> DEFINE c == Head(ops[t]).id
<1>1. /\ VisitTyped /\ OperationsInv /\ ChosenInv /\ PointerHasRecord /\ ChoiceInv /\ EveryPlayedInv
      /\ ops[t] # <<>> /\ Head(ops[t]).kind = "save" /\ step[t] = "start"
      /\ disturbed' = (disturbed \/ OverMigration(t)) /\ records' = records \union {c}
      /\ pointer' = c /\ choice' = c /\ step' = [step EXCEPT ![t] = "committed"]
      /\ UNCHANGED <<legacy, ops, seen, found, clears, failed>>
      /\ UNCHANGED <<stage, introSeen, creating, created, character>>
  BY DEF VisitInv, SaveCommit, At, Disturbed, pageVars
<1>2. /\ step \in [Tab -> {"start", "migrating", "committed"}] /\ records \subseteq Character
      /\ ops[t] \in Seq(Operation)
  BY <1>1 DEF VisitTyped, TypeOK, StoreTypeOK, Operation
<1>3. disturbed \in BOOLEAN
  BY <1>1 DEF VisitTyped, TypeOK, StoreTypeOK
<1>4. disturbed' \in BOOLEAN /\ (~disturbed' => ~OverMigration(t))
  BY <1>1, <1>3
<1>5. step'[t] = "committed" /\ \A u \in Tab \ {t} : step'[u] = step[u]
  BY <1>1, <1>2
<1>6. c \in Created(t) /\ c \in Character /\ c # NoCharacter
  <2>1. Head(ops[t]) = ops[t][1] /\ 1 \in DOMAIN ops[t]
    BY <1>1, <1>2, LenProperties, EmptySeq DEF Head
  <2>2. c \in Created(t)
    BY <1>1, <2>1 DEF OperationsInv
  <2> QED
    BY <2>2, CharactersApart
<1>7. VisitTyped'
  <2>1. records' \subseteq Character /\ pointer' \in Character \union {NoCharacter}
        /\ choice' \in Character \union {NoCharacter}
    BY <1>1, <1>2, <1>6
  <2> QED
    BY <1>1, <1>4, <2>1, CommitTyped
<1>8. OperationsInv'
  BY <1>1, OperationsMove
<1>9. ChosenInv' /\ PointerHasRecord'
  BY <1>1 DEF ChosenInv, PointerHasRecord
<1>10. ASSUME ~disturbed', NEW u \in Tab, step'[u] = "migrating" PROVE FALSE
  BY <1>4, <1>5, <1>10 DEF OverMigration
<1>11. ChoiceInv'
  BY <1>1, <1>6, <1>10 DEF ChoiceInv
<1>12. ASSUME ~failed', NEW u \in Tab PROVE PlayedInv(u)'
  <2>1. PlayedInv(u) /\ records \subseteq records'
    BY <1>1, <1>12 DEF EveryPlayedInv
  <2>2. CASE u = t
    BY <1>1, <2>1, <2>2, PlayedSaves
  <2>3. CASE u # t
    <3>1. choice' \notin Created(u)
      BY <1>1, <1>6, <2>3, CharactersApart
    <3> QED
      BY <1>1, <1>5, <2>1, <2>3, <3>1, PlayedFrame
  <2> QED
    BY <2>2, <2>3
<1> QED
  BY <1>7, <1>8, <1>9, <1>11, <1>12 DEF VisitInv, EveryPlayedInv

LEMMA ClearCommitStep ==
    ASSUME VisitInv, NEW t \in Tab, ClearCommit(t), UNCHANGED pageVars
    PROVE  VisitInv'
<1>1. /\ VisitTyped /\ OperationsInv /\ ChosenInv /\ PointerHasRecord /\ ChoiceInv /\ EveryPlayedInv
      /\ ops[t] # <<>> /\ Head(ops[t]).kind = "clear" /\ step[t] = "start"
      /\ disturbed' = (disturbed \/ OverMigration(t)) /\ pointer' = NoCharacter
      /\ choice' = NoCharacter /\ step' = [step EXCEPT ![t] = "committed"]
      /\ UNCHANGED <<records, legacy, ops, seen, found, clears, failed>>
      /\ UNCHANGED <<stage, introSeen, creating, created, character>>
  BY DEF VisitInv, ClearCommit, At, Disturbed, pageVars
<1>2. step \in [Tab -> {"start", "migrating", "committed"}] /\ records \subseteq Character
  BY <1>1 DEF VisitTyped, TypeOK, StoreTypeOK
<1>3. disturbed \in BOOLEAN
  BY <1>1 DEF VisitTyped, TypeOK, StoreTypeOK
<1>4. disturbed' \in BOOLEAN /\ (~disturbed' => ~OverMigration(t))
  BY <1>1, <1>3
<1>5. step'[t] = "committed" /\ \A u \in Tab \ {t} : step'[u] = step[u]
  BY <1>1, <1>2
<1>6. VisitTyped'
  BY <1>1, <1>2, <1>4, CommitTyped
<1>7. OperationsInv'
  BY <1>1, OperationsMove
<1>8. ChosenInv' /\ PointerHasRecord'
  BY <1>1 DEF ChosenInv, PointerHasRecord
<1>9. ASSUME ~disturbed', NEW u \in Tab, step'[u] = "migrating" PROVE FALSE
  BY <1>4, <1>5, <1>9 DEF OverMigration
<1>10. Clearing(t)'
  BY <1>1, <1>5 DEF Clearing
<1>11. ChoiceInv'
  BY <1>1, <1>9, <1>10 DEF ChoiceInv
<1>12. ASSUME ~failed', NEW u \in Tab PROVE PlayedInv(u)'
  <2>1. PlayedInv(u) /\ records \subseteq records'
    BY <1>1, <1>12 DEF EveryPlayedInv
  <2>2. step'[u] = step[u] \/ Head(ops[u]).kind # "save"
    BY <1>1, <1>5
  <2>3. choice' \notin Created(u)
    BY <1>1, CharactersApart
  <2> QED
    BY <1>1, <2>1, <2>2, <2>3, PlayedFrame
<1> QED
  BY <1>6, <1>7, <1>8, <1>11, <1>12 DEF VisitInv, EveryPlayedInv

LEMMA ClearLegacyStep ==
    ASSUME VisitInv, NEW t \in Tab, NEW writable \in BOOLEAN, ClearLegacy(t, writable),
           UNCHANGED pageVars
    PROVE  VisitInv'
<1>1. /\ VisitTyped /\ OperationsInv /\ ChosenInv /\ PointerHasRecord /\ ChoiceInv /\ EveryPlayedInv
      /\ step[t] = "committed" /\ ops[t] # <<>> /\ Settled(t)
      /\ legacy' = (IF writable THEN NoCharacter ELSE legacy)
      /\ disturbed' = (disturbed \/ (Head(ops[t]).kind = "clear" /\ legacy' # NoCharacter))
      /\ found' = (IF Head(ops[t]).kind = "load" THEN [found EXCEPT ![t] = seen[t]] ELSE found)
      /\ UNCHANGED <<records, pointer, choice, clears, failed>>
      /\ UNCHANGED <<stage, introSeen, creating, created, character>>
  BY DEF VisitInv, ClearLegacy, Disturbed, pageVars, OperationsInv
<1>2. /\ ops \in [Tab -> Seq(Operation)] /\ step \in [Tab -> {"start", "migrating", "committed"}]
      /\ seen \in [Tab -> Character \union {NoCharacter}] /\ records \subseteq Character
      /\ found \in [Tab -> Character \union {NoCharacter, Pending}] /\ legacy \in {NoCharacter, Old}
      /\ ops' = [ops EXCEPT ![t] = Tail(@)] /\ step' = [step EXCEPT ![t] = "start"]
      /\ seen' = [seen EXCEPT ![t] = NoCharacter]
  BY <1>1 DEF VisitTyped, TypeOK, StoreTypeOK, Operation, Settled
<1>3. disturbed \in BOOLEAN /\ failed \in BOOLEAN
  BY <1>1 DEF VisitTyped, TypeOK, StoreTypeOK
<1>4. /\ disturbed' \in BOOLEAN
      /\ ~disturbed' => ~disturbed /\ (Head(ops[t]).kind = "clear" => legacy' = NoCharacter)
  BY <1>1, <1>3
<1>5. /\ ops' \in [Tab -> Seq(Operation)] /\ step' \in [Tab -> {"start", "migrating", "committed"}]
      /\ seen' \in [Tab -> Character \union {NoCharacter}]
      /\ found' \in [Tab -> Character \union {NoCharacter, Pending}]
      /\ legacy' \in {NoCharacter, Old}
  <2>1. ops' \in [Tab -> Seq(Operation)]
    BY <1>1, <1>2, SettledFacts
  <2>2. legacy' \in {NoCharacter, Old}
    BY <1>1, <1>2
  <2> QED
    BY <1>1, <1>2, <2>1, <2>2
<1>6. step'[t] = "start"
      /\ \A u \in Tab \ {t} : ops'[u] = ops[u] /\ step'[u] = step[u] /\ seen'[u] = seen[u]
  BY <1>2
<1>7. StoreTypeOK'
  <2>1. /\ records' \subseteq Character /\ pointer' \in Character \union {NoCharacter}
        /\ choice' \in Character \union {NoCharacter} /\ clears' \in 0..MaxClears
    BY <1>1 DEF VisitTyped, TypeOK, StoreTypeOK
  <2>2. failed' \in BOOLEAN
    BY <1>1, <1>3
  <2> QED
    BY <1>4, <1>5, <2>1, <2>2, Zenon DEF StoreTypeOK, Operation
<1>8. VisitTyped'
  BY <1>1, <1>7 DEF VisitTyped, TypeOK
<1>9. OperationsInv'
  BY <1>1, OperationsSettled
<1>10. ChosenInv' /\ PointerHasRecord'
  BY <1>1 DEF ChosenInv, PointerHasRecord
<1>11. ChoiceInv'
  <2>1. pointer' = NoCharacter => choice' = NoCharacter
    BY <1>1 DEF ChoiceInv
  <2>2. ASSUME ~disturbed' PROVE pointer' # NoCharacter => choice' = pointer'
    BY <1>1, <1>4, <2>2 DEF ChoiceInv
  <2>3. ASSUME ~disturbed', NEW u \in Tab, step'[u] = "migrating" PROVE choice' = seen'[u]
    BY <1>1, <1>4, <1>6, <2>3 DEF ChoiceInv
  <2>4. ASSUME ~disturbed', pointer' = NoCharacter, legacy' \in records'
        PROVE  (\E u \in Tab : Clearing(u))'
    <3>1. legacy' = legacy /\ legacy \in records /\ legacy # NoCharacter
      BY <1>1, <1>2, <2>4, CharactersApart
    <3>2. choice = NoCharacter
      BY <1>1, <2>1, <2>4
    <3>3. PICK u \in Tab : Clearing(u)
      BY <1>1, <1>4, <2>4, <3>1, <3>2 DEF ChoiceInv
    <3>4. u # t
      BY <1>4, <2>4, <3>1, <3>3 DEF Clearing
    <3>5. Clearing(u)'
      BY <1>6, <3>3, <3>4 DEF Clearing
    <3> QED
      BY <3>5
  <2> QED
    BY <2>1, <2>2, <2>3, <2>4 DEF ChoiceInv
<1>12. ASSUME ~failed', NEW u \in Tab PROVE PlayedInv(u)'
  <2>1. PlayedInv(u) /\ records \subseteq records'
    BY <1>1, <1>12 DEF EveryPlayedInv
  <2>2. CASE u = t
    <3>1. 1 \notin Unsaved(t)
      BY <1>1 DEF Unsaved
    <3> QED
      BY <1>1, <2>1, <2>2, <3>1, PlayedSettles
  <2>3. CASE u # t
    BY <1>1, <1>6, <2>1, <2>3, PlayedFrame
  <2> QED
    BY <2>2, <2>3
<1> QED
  BY <1>8, <1>9, <1>10, <1>11, <1>12 DEF VisitInv, EveryPlayedInv

LEMMA ClearedStep ==
    ASSUME VisitInv, NEW t \in Tab, StoreCleared(t)
    PROVE  VisitInv'
<1>1. /\ VisitTyped /\ OperationsInv /\ ChosenInv /\ PointerHasRecord /\ ChoiceInv /\ EveryPlayedInv
      /\ clears < MaxClears /\ clears' = clears + 1 /\ Enqueue(t, Clear)
      /\ UNCHANGED <<introSeen, creating, created, character, stage>>
      /\ UNCHANGED <<step, seen, found, choice, failed, disturbed>>
      /\ UNCHANGED <<records, pointer, legacy>>
  BY DEF VisitInv, StoreCleared, ClearCurrent, database, pageVars
<1>2. Clear \in Operation /\ Clear.kind # "save"
  BY DEF Clear, Operation
<1>3. ops \in [Tab -> Seq(Operation)] /\ clears \in 0..MaxClears
  BY <1>1 DEF VisitTyped, TypeOK, StoreTypeOK, Operation
<1>4. ops' \in [Tab -> Seq(Operation)] /\ \A u \in Tab \ {t} : ops'[u] = ops[u]
  BY <1>1, <1>2, <1>3, EnqueueFacts
<1>5. clears' \in 0..MaxClears
  BY <1>1, <1>3, CharacterAssumption
<1>6. StoreTypeOK'
  BY <1>1, <1>4, <1>5 DEF VisitTyped, TypeOK, StoreTypeOK, Operation
<1>7. VisitTyped'
  BY <1>1, <1>6 DEF VisitTyped, TypeOK
<1>8. OperationsInv'
  BY <1>1, <1>2, OperationsChained
<1>9. \A u \in Tab : Clearing(u) => Clearing(u)'
  BY <1>1, <1>2, <1>3, <1>4, EnqueueFacts DEF Clearing, OperationsInv
<1>10. ChoiceInv'
  BY <1>1, <1>9, ChoiceFrame DEF database
<1>11. ASSUME ~failed', NEW u \in Tab PROVE PlayedInv(u)'
  <2>1. PlayedInv(u) /\ records \subseteq records'
    BY <1>1, <1>11 DEF EveryPlayedInv
  <2>2. CASE u = t
    BY <1>1, <1>2, <2>1, <2>2, PlayedChained
  <2>3. CASE u # t
    BY <1>1, <1>4, <2>1, <2>3, PlayedFrame
  <2> QED
    BY <2>2, <2>3
<1>12. ChosenInv' /\ PointerHasRecord'
  BY <1>1 DEF ChosenInv, PointerHasRecord
<1> QED
  BY <1>7, <1>8, <1>10, <1>11, <1>12 DEF VisitInv, EveryPlayedInv

-----------------------------------------------------------------------------
LEMMA VisitStarts == Init => VisitInv
<1> SUFFICES ASSUME Init PROVE VisitInv
  OBVIOUS
<1>1. /\ legacy \in {NoCharacter, Old} /\ records \in SUBSET {Old} /\ pointer = NoCharacter
      /\ ops = [t \in Tab |-> <<>>] /\ step = [t \in Tab |-> "start"]
      /\ seen = [t \in Tab |-> NoCharacter] /\ found = [t \in Tab |-> Pending]
      /\ choice = (IF legacy \in records THEN legacy ELSE NoCharacter) /\ clears = 0
      /\ stage = [t \in Tab |-> "closed"] /\ creating = [t \in Tab |-> <<>>]
      /\ created = [t \in Tab |-> 0] /\ character = [t \in Tab |-> NoCharacter]
  BY DEF Init, StoreInit
<1>2. failed = FALSE /\ disturbed = FALSE /\ introSeen = FALSE
  BY DEF Init, StoreInit
<1>3. <<>> \in Seq(Operation) /\ <<>> \in Seq(Character)
  BY EmptySeq
<1>4. StoreTypeOK
  <2>1. /\ records \subseteq Character /\ pointer \in Character \union {NoCharacter}
        /\ legacy \in {NoCharacter, Old} /\ choice \in Character \union {NoCharacter}
        /\ clears \in 0..MaxClears
    BY <1>1, CharactersApart, CharacterAssumption
  <2>2. ops \in [Tab -> Seq(Operation)] /\ step \in [Tab -> {"start", "migrating", "committed"}]
        /\ seen \in [Tab -> Character \union {NoCharacter}]
        /\ found \in [Tab -> Character \union {NoCharacter, Pending}]
    BY <1>1, <1>3
  <2>3. failed \in BOOLEAN /\ disturbed \in BOOLEAN
    BY <1>2
  <2> QED
    BY <2>1, <2>2, <2>3, Zenon DEF StoreTypeOK, Operation
<1>5. VisitTyped
  <2>1. introSeen \in BOOLEAN
    BY <1>2
  <2>2. \A t \in Tab : MaxCreated[t] \in Nat
    BY CharacterAssumption
  <2>3. \A t \in Tab : created[t] \in 0..MaxCreated[t]
    BY <1>1, <2>2
  <2> QED
    BY <1>1, <1>3, <1>4, <2>1, <2>3 DEF VisitTyped, TypeOK
<1>6. DOMAIN <<>> = {}
  OBVIOUS
<1>7. OperationsInv /\ ChosenInv /\ PointerHasRecord
  BY <1>1, <1>6 DEF OperationsInv, ChosenInv, PointerHasRecord
<1>8. ChoiceInv
  <2>1. \A t \in Tab : step[t] = "start"
    BY <1>1
  <2>2. legacy \in records => legacy # NoCharacter /\ choice = legacy
    BY <1>1, CharacterAssumption
  <2> QED
    BY <1>1, <2>1, <2>2 DEF ChoiceInv
<1>9. EveryPlayedInv
  BY <1>1 DEF EveryPlayedInv, PlayedInv
<1> QED
  BY <1>5, <1>7, <1>8, <1>9 DEF VisitInv

LEMMA VisitInductive == VisitInv /\ [Next]_vars => VisitInv'
<1> SUFFICES ASSUME VisitInv, [Next]_vars PROVE VisitInv'
  OBVIOUS
<1>1. ASSUME NEW t \in Tab, NEW joining \in BOOLEAN, NEW readable \in BOOLEAN,
             OpenPage(t, joining, readable)
      PROVE  VisitInv'
  BY <1>1, OpenPageStep
<1>2. ASSUME NEW t \in Tab, NEW writable \in BOOLEAN, CompleteIntro(t, writable) PROVE VisitInv'
  BY <1>2, CompleteIntroStep
<1>3. ASSUME NEW t \in Tab, Enter(t) \/ KeyArrives(t) \/ ClosePage(t) PROVE VisitInv'
  BY <1>3, EnterStep, KeyArrivesStep, ClosePageStep
<1>4. ASSUME NEW t \in Tab, StoreRuns(t) PROVE VisitInv'
  <2>1. UNCHANGED pageVars /\ StoreWork(t)
    BY <1>4 DEF StoreRuns
  <2>2. CASE MigrateCommit(t) \/ SaveCommit(t) \/ ClearCommit(t)
    BY <2>1, <2>2, MigrateCommitStep, SaveCommitStep, ClearCommitStep
  <2>3. CASE \E usable \in BOOLEAN : LoadRead(t, usable) \/ ClearLegacy(t, usable)
    BY <2>1, <2>3, LoadReadStep, ClearLegacyStep
  <2> QED
    BY <2>1, <2>2, <2>3 DEF StoreWork
<1>5. ASSUME NEW t \in Tab, StoreRejects(t) \/ StoreCleared(t) PROVE VisitInv'
  BY <1>5, RejectStep, ClearedStep
<1>6. CASE UNCHANGED vars
  <2>1. UNCHANGED pageVars /\ UNCHANGED storeVars
    BY <1>6 DEF vars
  <2>2. /\ UNCHANGED <<stage, introSeen, creating, created, character>>
        /\ UNCHANGED <<records, pointer, legacy, ops, step, seen, found, choice, clears, failed,
                       disturbed>>
    BY <2>1 DEF pageVars, storeVars, database
  <2>3. VisitTyped'
    BY <2>2 DEF VisitInv, VisitTyped, TypeOK, StoreTypeOK
  <2>4. OperationsInv' /\ ChosenInv' /\ PointerHasRecord'
    BY <2>2 DEF VisitInv, OperationsInv, ChosenInv, PointerHasRecord
  <2>5. ChoiceInv'
    BY <2>2 DEF VisitInv, ChoiceInv, Clearing
  <2>6. EveryPlayedInv'
    BY <2>2 DEF VisitInv, EveryPlayedInv, PlayedInv, Unsaved
  <2> QED
    BY <2>3, <2>4, <2>5, <2>6 DEF VisitInv
<1> QED
  BY <1>1, <1>2, <1>3, <1>4, <1>5, <1>6 DEF Next

LEMMA VisitInvariant == Spec => []VisitInv
BY VisitStarts, VisitInductive, PTL DEF Spec

\* The state of a visit and of the character store (character/store.ts) is always well-formed.
THEOREM VisitTypeCorrect == Spec => []TypeOK
<1>1. VisitInv => TypeOK
  BY DEF VisitInv, VisitTyped
<1> QED
  BY <1>1, VisitInvariant, PTL

\* With any number of tabs and of characters, the chosen character survives loads, saves,
\* migrations, clears, rejections and pages that die (character/store.ts, GameFrontend.tsx):
\* the current pointer always has its record, a page finds the last choice, and what a tab
\* plays is what it stored.
THEOREM ChoiceAlwaysKept == Spec => []ChoiceIsKept
<1>1. ASSUME VisitInv PROVE ChoiceIsFound
  <2> SUFFICES ASSUME ~disturbed, \A t \in Tab : step[t] # "committed" PROVE Current = choice
    BY DEF ChoiceIsFound
  <2>1. ChoiceInv /\ ~\E t \in Tab : Clearing(t)
    BY <1>1 DEF VisitInv, Clearing
  <2> QED
    BY <2>1 DEF ChoiceInv, Current
<1>2. ASSUME VisitInv PROVE PlayedIsKept
  <2> SUFFICES ASSUME NEW t \in Tab, character[t] # NoCharacter, ops[t] = <<>>, ~failed
               PROVE  /\ character[t] \in records
                      /\ choice \in Created(t) => choice = character[t]
    BY DEF PlayedIsKept
  <2>1. PlayedInv(t)
    BY <1>2 DEF VisitInv, EveryPlayedInv
  <2>2. DOMAIN <<>> = {}
    OBVIOUS
  <2>3. Unsaved(t) = {}
    BY <2>2 DEF Unsaved
  <2> QED
    BY <2>1, <2>3 DEF PlayedInv
<1>3. VisitInv => ChoiceIsKept
  BY <1>1, <1>2 DEF VisitInv, ChoiceIsKept
<1> QED
  BY <1>3, VisitInvariant, PTL
=============================================================================
