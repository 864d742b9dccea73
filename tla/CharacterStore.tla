---------------------------- MODULE CharacterStore ----------------------------
(***************************************************************************)
(* The character store of a browser profile (character/store.ts): stored   *)
(* characters, the current pointer beside them in IndexedDB, and the       *)
(* pointer an older version left in localStorage. A tab runs its           *)
(* operations one after the other; tabs interleave at every await. A       *)
(* commit is what OrderedSaves promises: it lands whole or not at all.     *)
(***************************************************************************)
EXTENDS Integers, Sequences, FiniteSets

CONSTANTS
    Tab,          \* open tabs of the profile
    MaxCreated,   \* bound: characters created in each tab
    MaxClears,    \* bound: calls of clearCurrent
    Old,          \* the character the older version made current
    NoCharacter, Pending

ASSUME CharacterAssumption ==
    /\ MaxCreated \in [Tab -> Nat] /\ MaxClears \in Nat
    /\ NoCharacter # Old /\ Pending # Old /\ Pending # NoCharacter

\* A new character has a random id, here its tab and number.
Created(t) == {t} \X (1..MaxCreated[t])
Character == (UNION {Created(t) : t \in Tab}) \union {Old}

ASSUME MarksAreNoCharacters ==
    {Old, NoCharacter, Pending} \intersect (UNION {Created(t) : t \in Tab}) = {}

VARIABLES
    records,   \* the CHARACTER_STORE: characters by id, never deleted
    pointer,   \* CURRENT_KEY in the META_STORE
    legacy,    \* LEGACY_CURRENT_KEY in localStorage
    ops,       \* ops[t]: the operations chained on operationTail
    step,      \* step[t]: how far the first of them is
    seen,      \* seen[t]: the id a migration has read
    found,     \* found[t]: what loadCurrent returned to the page
    choice,    \* what the last committed save or clear made current (history)
    clears,    \* calls of clearCurrent so far
    failed,    \* some operation was rejected (history)
    disturbed  \* a migration or the legacy pointer outlived a newer choice (history)

database == <<records, pointer, legacy>>
storeVars == <<records, pointer, legacy, ops, step, seen, found, choice, clears, failed,
               disturbed>>

StoreInit ==
    /\ legacy \in {NoCharacter, Old}
    /\ records \in SUBSET {Old}
    /\ pointer = NoCharacter
    /\ ops = [t \in Tab |-> <<>>]
    /\ step = [t \in Tab |-> "start"]
    /\ seen = [t \in Tab |-> NoCharacter]
    /\ found = [t \in Tab |-> Pending]
    /\ choice = IF legacy \in records THEN legacy ELSE NoCharacter
    /\ clears = 0
    /\ failed = FALSE /\ disturbed = FALSE
-----------------------------------------------------------------------------
Load == [kind |-> "load", id |-> NoCharacter]
SaveOf(c) == [kind |-> "save", id |-> c]
Clear == [kind |-> "clear", id |-> NoCharacter]

\* enqueue on an operationTail.
Enqueue(t, op) == ops' = [ops EXCEPT ![t] = Append(@, op)]

At(t, kind, where) == ops[t] # <<>> /\ Head(ops[t]).kind = kind /\ step[t] = where

\* What a reader of the pointer may be misled by afterwards.
Disturbed(happens) == disturbed' = (disturbed \/ happens)

\* t commits while the migration of another tab is between its read and its commit.
OverMigration(t) == \E u \in Tab \ {t} : step[u] = "migrating"

\* t reads the legacy pointer that the committed clear of another tab is about to remove.
UnderClear(t) ==
    \E u \in Tab \ {t} : step[u] = "committed" /\ Head(ops[u]).kind = "clear"

\* The operation is over and the next one may start.
Settled(t) ==
    /\ ops' = [ops EXCEPT ![t] = Tail(@)]
    /\ step' = [step EXCEPT ![t] = "start"]
    /\ seen' = [seen EXCEPT ![t] = NoCharacter]

\* The stored pointer, or else the legacy one if localStorage can be read.
StoredOrLegacy(readable) ==
    IF pointer # NoCharacter THEN pointer ELSE IF readable THEN legacy ELSE NoCharacter

\* Whether loadCurrent goes on to move the legacy pointer into the database.
Migrates(id) == id \in records /\ pointer = NoCharacter

\* loadCurrent up to the record: without a migration it is done.
LoadRead(t, readable) ==
    LET id == StoredOrLegacy(readable) IN
    /\ At(t, "load", "start")
    /\ IF Migrates(id)
       THEN /\ step' = [step EXCEPT ![t] = "migrating"]
            /\ seen' = [seen EXCEPT ![t] = id]
            /\ Disturbed(UnderClear(t))
            /\ UNCHANGED <<ops, found>>
       ELSE /\ Settled(t)
            /\ found' = [found EXCEPT ![t] = IF id \in records THEN id ELSE NoCharacter]
            /\ UNCHANGED disturbed
    /\ UNCHANGED <<database, choice, clears, failed>>

\* The migration's commit puts what was read, whatever the pointer is by now. It moves a
\* choice and makes none.
MigrateCommit(t) ==
    /\ At(t, "load", "migrating")
    /\ pointer' = seen[t]
    /\ step' = [step EXCEPT ![t] = "committed"]
    /\ UNCHANGED <<records, legacy, ops, seen, found, choice, clears, failed, disturbed>>

\* save: record, pointer and audit event are one transaction.
SaveCommit(t) ==
    /\ At(t, "save", "start")
    /\ Disturbed(OverMigration(t))
    /\ records' = records \union {Head(ops[t]).id}
    /\ pointer' = Head(ops[t]).id
    /\ choice' = Head(ops[t]).id
    /\ step' = [step EXCEPT ![t] = "committed"]
    /\ UNCHANGED <<legacy, ops, seen, found, clears, failed>>

\* clearCurrent deletes the pointer and keeps the records.
ClearCommit(t) ==
    /\ At(t, "clear", "start")
    /\ Disturbed(OverMigration(t))
    /\ pointer' = NoCharacter
    /\ choice' = NoCharacter
    /\ step' = [step EXCEPT ![t] = "committed"]
    /\ UNCHANGED <<records, legacy, ops, seen, found, clears, failed>>

\* A bug: the cleanup is left to the next load.
KeepLegacy(t, writable) ==
    /\ step[t] = "committed"
    /\ Settled(t)
    /\ found' = IF Head(ops[t]).kind = "load" THEN [found EXCEPT ![t] = seen[t]] ELSE found
    /\ UNCHANGED <<database, choice, clears, failed, disturbed>>

\* clearLegacyCurrentId, once the transaction is complete; storage that is blocked is ignored.
ClearLegacy(t, writable) ==
    /\ step[t] = "committed"
    /\ legacy' = IF writable THEN NoCharacter ELSE legacy
    /\ Disturbed(Head(ops[t]).kind = "clear" /\ legacy' # NoCharacter)
    /\ Settled(t)
    /\ found' = IF Head(ops[t]).kind = "load" THEN [found EXCEPT ![t] = seen[t]] ELSE found
    /\ UNCHANGED <<records, pointer, choice, clears, failed>>

\* A bug: the page waits for a character that was found (storeChecked set on success only).
RejectUnnoticed(t) ==
    /\ ops[t] # <<>> /\ step[t] # "committed"
    /\ failed' = (failed \/ Head(ops[t]).kind = "save")
    /\ Settled(t)
    /\ UNCHANGED <<database, found, choice, clears, disturbed>>

\* The database does not open, or the write is given up: the caller hears of it, a page that
\* loads takes it for "none".
Reject(t) ==
    /\ ops[t] # <<>> /\ step[t] # "committed"
    /\ found' = IF Head(ops[t]).kind = "load" THEN [found EXCEPT ![t] = NoCharacter] ELSE found
    /\ failed' = (failed \/ Head(ops[t]).kind = "save")
    /\ Settled(t)
    /\ UNCHANGED <<database, choice, clears, disturbed>>

\* clearCurrent, which the application offers no button for.
ClearCurrent(t) ==
    /\ clears < MaxClears
    /\ clears' = clears + 1
    /\ Enqueue(t, Clear)
    /\ UNCHANGED <<database, step, seen, found, choice, failed, disturbed>>

\* The page dies with what it had under way.
StoreGone(t) ==
    /\ Disturbed(At(t, "clear", "committed") /\ legacy # NoCharacter)
    /\ failed' = (failed \/ \E i \in DOMAIN ops[t] :
                                ops[t][i].kind = "save" /\ ~(i = 1 /\ step[t] = "committed"))
    /\ ops' = [ops EXCEPT ![t] = <<>>]
    /\ step' = [step EXCEPT ![t] = "start"]
    /\ seen' = [seen EXCEPT ![t] = NoCharacter]
    /\ found' = [found EXCEPT ![t] = Pending]
    /\ UNCHANGED <<database, choice, clears>>

\* What an operation's continuations do.
StoreWork(t) ==
    \/ MigrateCommit(t) \/ SaveCommit(t) \/ ClearCommit(t)
    \/ \E usable \in BOOLEAN : LoadRead(t, usable) \/ ClearLegacy(t, usable)
-----------------------------------------------------------------------------
\* Type invariant of the store.
StoreTypeOK ==
    /\ records \subseteq Character
    /\ pointer \in Character \union {NoCharacter}
    /\ legacy \in {NoCharacter, Old}
    /\ ops \in [Tab -> Seq([kind : {"load", "save", "clear"}, id : Character \union {NoCharacter}])]
    /\ step \in [Tab -> {"start", "migrating", "committed"}]
    /\ seen \in [Tab -> Character \union {NoCharacter}]
    /\ found \in [Tab -> Character \union {NoCharacter, Pending}]
    /\ choice \in Character \union {NoCharacter}
    /\ clears \in 0..MaxClears
    /\ failed \in BOOLEAN /\ disturbed \in BOOLEAN

\* The pointer is atomic with the record it names: there is never a current character that
\* cannot be loaded, whatever is migrated, cut off or done twice.
PointerHasRecord == pointer # NoCharacter => pointer \in records

\* What a page opened now would find.
Current ==
    IF pointer # NoCharacter THEN pointer
    ELSE IF legacy \in records THEN legacy ELSE NoCharacter

\* A page finds the last choice that was committed, also when an earlier page died before it
\* had cleared the legacy pointer. A migration moves the choice and does not change it. Three
\* cases are left out, where the legacy pointer comes back: a clear that is cut off there or
\* may not write localStorage, a commit that falls between the read and the commit of another
\* tab's migration, and a migration that reads what a committed clear has yet to remove.
ChoiceIsFound ==
    /\ ~disturbed
    /\ \A t \in Tab : step[t] # "committed"
    => Current = choice
===============================================================================
