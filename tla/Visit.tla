--------------------------------- MODULE Visit ---------------------------------
(***************************************************************************)
(* A visit to the game from opening the page to playing a character        *)
(* (GameFrontend, MemberSelect, frontend/onboarding.ts), over the store    *)
(* that all tabs of the profile share. The pages differ in what they were  *)
(* opened with: a join link skips the intro, a demo build lets a moment    *)
(* pass between choosing a character and playing it.                       *)
(***************************************************************************)
EXTENDS CharacterStore

CONSTANT DemoWrites \* DEMO_WRITES_ENABLED of the build

ASSUME DemoAssumption == DemoWrites \in BOOLEAN

VARIABLES
    stage,      \* stage[t]: closed, intro, gate (no character yet) or playing
    introSeen,  \* INTRO_SEEN_KEY in localStorage
    creating,   \* creating[t]: chosen characters still waiting for the key module
    created,    \* created[t]: characters created so far, over all visits
    character   \* character[t]: the one being played

pageVars == <<stage, introSeen, creating, created, character>>
vars == <<pageVars, storeVars>>

Init ==
    /\ StoreInit
    /\ stage = [t \in Tab |-> "closed"]
    /\ introSeen = FALSE
    /\ creating = [t \in Tab |-> <<>>]
    /\ created = [t \in Tab |-> 0]
    /\ character = [t \in Tab |-> NoCharacter]
-----------------------------------------------------------------------------
\* The page is opened, with a join link or without; the stored character is looked up behind
\* the start screen, and storage that is blocked counts as an intro never seen.
OpenPage(t, joining, readable) ==
    /\ stage[t] = "closed"
    /\ stage' = [stage EXCEPT ![t] = IF joining \/ (readable /\ introSeen) THEN "gate" ELSE "intro"]
    /\ Enqueue(t, Load)
    /\ UNCHANGED <<introSeen, creating, created, character, database, step, seen, found,
                   choice, clears, failed, disturbed>>

\* completeIntro
CompleteIntro(t, writable) ==
    /\ stage[t] = "intro"
    /\ stage' = [stage EXCEPT ![t] = "gate"]
    /\ introSeen' = (introSeen \/ writable)
    /\ UNCHANGED <<creating, created, character, storeVars>>

\* The selector is there once the store was asked (storeChecked).
Selecting(t) == stage[t] = "gate" /\ found[t] # Pending

\* A bug: the character of the last render is saved.
FinishStale(t, c) ==
    /\ stage' = [stage EXCEPT ![t] = "playing"]
    /\ character' = [character EXCEPT ![t] = c]
    /\ Enqueue(t, SaveOf(character[t]))

\* finish: the save is started and not waited for, and the character is played.
FinishWith(t, c) ==
    /\ stage' = [stage EXCEPT ![t] = "playing"]
    /\ character' = [character EXCEPT ![t] = c]
    /\ Enqueue(t, SaveOf(c))

\* enter of the selector, then onCreated: in a demo build the key module is loaded first, the
\* selector stays, and a second character may be chosen meanwhile.
Enter(t) ==
    LET c == <<t, created[t] + 1>> IN
    /\ Selecting(t)
    /\ created[t] < MaxCreated[t]
    /\ created' = [created EXCEPT ![t] = @ + 1]
    /\ IF DemoWrites
       THEN /\ creating' = [creating EXCEPT ![t] = Append(@, c)]
            /\ UNCHANGED <<stage, character, ops>>
       ELSE /\ FinishWith(t, c)
            /\ UNCHANGED creating
    /\ UNCHANGED <<introSeen, database, step, seen, found, choice, clears,
                   failed, disturbed>>

\* The key module has come, or could not be loaded: the character is finished, also when an
\* earlier one is being played already.
KeyArrives(t) ==
    /\ creating[t] # <<>>
    /\ FinishWith(t, Head(creating[t]))
    /\ creating' = [creating EXCEPT ![t] = Tail(@)]
    /\ UNCHANGED <<introSeen, created, database, step, seen, found, choice,
                   clears, failed, disturbed>>

\* The page is closed, reloaded or lost.
ClosePage(t) ==
    /\ stage[t] # "closed"
    /\ stage' = [stage EXCEPT ![t] = "closed"]
    /\ creating' = [creating EXCEPT ![t] = <<>>]
    /\ character' = [character EXCEPT ![t] = NoCharacter]
    /\ StoreGone(t)
    /\ UNCHANGED <<introSeen, created>>

StoreRuns(t) == StoreWork(t) /\ UNCHANGED pageVars

StoreRejects(t) == Reject(t) /\ UNCHANGED pageVars

StoreCleared(t) == stage[t] = "playing" /\ ClearCurrent(t) /\ UNCHANGED pageVars

Next ==
    \E t \in Tab :
        \/ \E joining, readable \in BOOLEAN : OpenPage(t, joining, readable)
        \/ \E writable \in BOOLEAN : CompleteIntro(t, writable)
        \/ Enter(t)
        \/ KeyArrives(t)
        \/ ClosePage(t)
        \/ StoreRuns(t)
        \/ StoreRejects(t)
        \/ StoreCleared(t)

\* The database settles what it is asked, and an import settles; players owe the page nothing.
Fairness == \A t \in Tab : WF_vars(StoreRuns(t)) /\ WF_vars(KeyArrives(t))

Spec == Init /\ [][Next]_vars /\ Fairness
-----------------------------------------------------------------------------
\* Type invariant of a visit.
TypeOK ==
    /\ StoreTypeOK
    /\ introSeen \in BOOLEAN
    /\ stage \in [Tab -> {"closed", "intro", "gate", "playing"}]
    /\ creating \in [Tab -> Seq(Character)]
    /\ \A t \in Tab : created[t] \in 0..MaxCreated[t]
    /\ character \in [Tab -> Character \union {NoCharacter}]

\* What a tab plays is what it has stored, once its operations are through: of two characters
\* chosen in a hurry the same one wins on the screen and in the store.
PlayedIsKept ==
    \A t \in Tab :
        /\ character[t] # NoCharacter /\ ops[t] = <<>> /\ ~failed
        => /\ character[t] \in records
           /\ choice \in Created(t) => choice = character[t]

\* The choice of a character survives: it can always be loaded, the next page finds it, and
\* it is the one that is played.
ChoiceIsKept == PointerHasRecord /\ ChoiceIsFound /\ PlayedIsKept

\* A player waits for the stored character to be looked up, or for a chosen one.
Waiting(t) == (stage[t] = "gate" /\ found[t] = Pending) \/ creating[t] # <<>>

\* A player who is through the intro gets the selector, and a chosen character is played,
\* whatever the store is doing or fails to do.
VisitsGoOn == \A t \in Tab : Waiting(t) ~> ~Waiting(t)
===============================================================================
