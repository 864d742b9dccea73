------------------------------- MODULE Homestead -------------------------------
(***************************************************************************)
(* The home builder of one tab: the Economy singleton (economy.ts) that    *)
(* owns the crafted objects, the BuildSystem of the private home           *)
(* (buildState.ts) that places them, and the two audit streams both are    *)
(* saved on (store.ts). Saves are what AuditedSave promises: per stream    *)
(* they land in order, and one may be lost. Objects of all kinds are       *)
(* counted together, materials in crafts they pay for, and a placed object *)
(* of any kind occupies a cell. Time is what may be done in it. Processing *)
(* of materials into others is left out.                                   *)
(***************************************************************************)
EXTENDS Integers, Sequences, FiniteSets

CONSTANTS
    Caller,     \* the components that call homeBuild.setup()
    Cell,
    Starter,    \* objects in STARTER_INVENTORY
    Stock,      \* STARTER_MATERIALS
    MaterialCap, \* MATERIAL_CAPS
    Threshold,  \* placed objects the move-in condition asks for
    MaxGrants,  \* bound: materials dripped and objects arrived
    MaxReloads, \* bound: reloads of the page
    MaxPending, \* bound: saves under way on a stream
    None

ASSUME HomesteadAssumption ==
    /\ IsFiniteSet(Cell)
    /\ Starter \in Nat /\ MaterialCap \in Nat /\ Stock \in 0..MaterialCap
    /\ Threshold \in Nat \ {0}
    /\ MaxGrants \in Nat /\ MaxReloads \in Nat /\ MaxPending \in Nat \ {0}

\* What the economy's stream stores; the home's stores the occupied cells.
Snapshot ==
    [inventory : Nat, materials : 0..MaterialCap, queue : Nat, condition : BOOLEAN,
     fresh : BOOLEAN]

ASSUME NoneAssumption ==
    /\ None \notin Snapshot
    /\ \A home \in SUBSET Cell : home # None

VARIABLES
    \* Economy
    inventory, materials,
    queue,        \* crafts paid for and not finished
    condition, dirty, ready,
    fresh,        \* this page's economy began with the starter kit (history)
    \* BuildSystem
    cells, loaded,
    setup,        \* setup[c]: where a call of setup() stands
    read,         \* read[c]: what its loadHome returned
    \* IndexedDB, and the writeQueues of the two streams
    saved,        \* [economy, home], each None before its first save
    economyQueue, homeQueue,
    \* history
    granted,      \* given out beyond the starter kit: materials dripped, objects arrived
    reloads,
    mishap        \* the page was torn down with unsaved state, a read or a write failed,
                  \* or something was built before both parts were loaded

economyVars == <<inventory, materials, queue, condition, dirty, ready, fresh>>
buildVars   == <<cells, loaded, setup, read>>
vars == <<inventory, materials, queue, condition, dirty, ready, fresh, cells, loaded, setup,
          read, saved, economyQueue, homeQueue, granted, reloads, mishap>>

Init ==
    /\ inventory = 0 /\ materials = 0 /\ queue = 0
    /\ condition = FALSE /\ dirty = FALSE /\ ready = FALSE /\ fresh = FALSE
    /\ cells = {} /\ loaded = FALSE
    /\ setup = [c \in Caller |-> "idle"]
    /\ read = [c \in Caller |-> None]
    /\ saved = [economy |-> None, home |-> None]
    /\ economyQueue = <<>> /\ homeQueue = <<>>
    /\ granted = 0 /\ reloads = 0 /\ mishap = FALSE
-----------------------------------------------------------------------------
\* persist() of an economy that is ready: the snapshot of what it is after the step.
Persist ==
    /\ dirty' = FALSE
    /\ economyQueue' = Append(economyQueue,
                              [inventory |-> inventory', materials |-> materials',
                               queue |-> queue', condition |-> condition', fresh |-> fresh'])

Room == Len(economyQueue) < MaxPending /\ Len(homeQueue) < MaxPending

\* The constructor's boot(): with no readable save the economy starts over, else it catches
\* up with what dripped, was crafted and arrived in between, and either way what it now
\* holds is saved. A condition reported earlier survives only a missing save.
Boot(readable) ==
    /\ ~ready /\ Room
    /\ ready' = TRUE
    /\ IF readable /\ saved.economy # None
       THEN LET state == saved.economy IN
            \E dripped \in 0..(MaterialCap - state.materials), crafted \in 0..state.queue,
               arrived \in 0..MaxGrants :
                /\ arrived > 0 => state.condition
                /\ granted' = granted + dripped + arrived
                /\ materials' = state.materials + dripped
                /\ queue' = state.queue - crafted
                /\ inventory' = state.inventory + crafted + arrived
                /\ condition' = state.condition
                /\ fresh' = FALSE
       ELSE /\ inventory' = Starter /\ materials' = Stock
            /\ fresh' = TRUE
            /\ UNCHANGED <<queue, condition, granted>>
    /\ granted' <= MaxGrants
    /\ mishap' = (mishap \/ ~readable)
    /\ UNCHANGED <<buildVars, saved, homeQueue, reloads>>
    /\ Persist

\* queueCraft: a craft is paid for when it is queued.
QueueCraft ==
    /\ ready /\ Room
    /\ materials > 0
    /\ materials' = materials - 1
    /\ queue' = queue + 1
    /\ UNCHANGED <<inventory, condition, ready, fresh, buildVars, saved, homeQueue, granted,
                   reloads, mishap>>
    /\ Persist

\* advance() and completeCraft: the head of the queue is finished. Several may be in one
\* tick, each with a save of its own.
CompleteCraft ==
    /\ ready /\ Room
    /\ queue > 0
    /\ queue' = queue - 1
    /\ inventory' = inventory + 1
    /\ UNCHANGED <<materials, condition, ready, fresh, buildVars, saved, homeQueue, granted,
                   reloads, mishap>>
    /\ Persist

\* checkMoveIn: a condition held long enough brings an object.
Arrive ==
    /\ ready /\ Room
    /\ condition /\ granted < MaxGrants
    /\ granted' = granted + 1
    /\ inventory' = inventory + 1
    /\ UNCHANGED <<materials, queue, condition, ready, fresh, buildVars, saved, homeQueue,
                   reloads, mishap>>
    /\ Persist

\* advance() drips materials up to their cap, which only marks the economy dirty.
Drip ==
    /\ ready
    /\ materials < MaterialCap /\ granted < MaxGrants
    /\ materials' = materials + 1
    /\ granted' = granted + 1
    /\ dirty' = TRUE
    /\ UNCHANGED <<inventory, queue, condition, ready, fresh, buildVars, saved, economyQueue,
                   homeQueue, reloads, mishap>>

\* tick() with the autosave interval over, or the page is about to go: a save of the economy
\* as it is.
SaveNow ==
    /\ ready /\ Room
    /\ UNCHANGED <<inventory, materials, queue, condition, ready, fresh, buildVars, saved,
                   homeQueue, granted, reloads, mishap>>
    /\ Persist
-----------------------------------------------------------------------------
Met(placed) == Cardinality(placed) >= Threshold

\* A bug: the condition is reported without being saved.
ReportUnsaved(placed) ==
    /\ condition' = Met(placed)
    /\ UNCHANGED <<materials, queue, fresh>>
    /\ dirty' = (dirty /\ condition' = condition)
    /\ UNCHANGED economyQueue

\* afterChange(): the specialty marks the economy dirty, and a changed condition is saved at
\* once, unless the economy has not booted.
Report(placed) ==
    /\ condition' = Met(placed)
    /\ UNCHANGED <<materials, queue, fresh>>
    /\ IF ready /\ condition' # condition
       THEN Persist
       ELSE dirty' = TRUE /\ UNCHANGED economyQueue

\* A bug: the home is saved only when the condition changes.
SaveHomeRarely(placed) ==
    homeQueue' = IF loaded /\ Met(placed) # condition THEN Append(homeQueue, placed)
                                                      ELSE homeQueue

\* saveHome, once the blueprint is loaded.
SaveHome(placed) ==
    homeQueue' = IF loaded THEN Append(homeQueue, placed) ELSE homeQueue

\* setup(): the check, the read, and what the read is used for are three steps.
SetupBegin(c) ==
    /\ setup[c] = "idle"
    /\ setup' = [setup EXCEPT ![c] = IF loaded THEN "done" ELSE "reading"]
    /\ UNCHANGED <<economyVars, cells, loaded, read, saved, economyQueue, homeQueue, granted,
                   reloads, mishap>>

SetupRead(c, readable) ==
    /\ setup[c] = "reading"
    /\ setup' = [setup EXCEPT ![c] = "read"]
    /\ read' = [read EXCEPT ![c] = IF readable THEN saved.home ELSE None]
    /\ mishap' = (mishap \/ ~readable)
    /\ UNCHANGED <<economyVars, cells, loaded, saved, economyQueue, homeQueue, granted, reloads>>

\* fromData replaces whatever is placed and does not save the home.
SetupApply(c) ==
    LET placed == IF read[c] = None THEN {} ELSE read[c] IN
    /\ setup[c] = "read" /\ Room
    /\ cells' = placed
    /\ loaded' = TRUE
    /\ setup' = [setup EXCEPT ![c] = "done"]
    /\ read' = [read EXCEPT ![c] = None]
    /\ UNCHANGED <<inventory, ready, saved, homeQueue, granted, reloads, mishap>>
    /\ Report(placed)

\* A bug: the objects are placed without being taken from the inventory.
PlaceFree(placed) ==
    /\ placed # {} /\ placed \intersect cells = {} /\ Room
    /\ Cardinality(placed) <= inventory
    /\ cells' = cells \union placed
    /\ SaveHome(cells')
    /\ mishap' = (mishap \/ ~ready \/ ~loaded)
    /\ UNCHANGED <<inventory, ready, loaded, setup, read, saved, granted, reloads>>
    /\ Report(cells')

\* A bug: consumeObject without its check.
PlaceUnchecked(placed) ==
    /\ placed # {} /\ placed \intersect cells = {} /\ Room
    /\ inventory' = inventory - Cardinality(placed)
    /\ cells' = cells \union placed
    /\ SaveHome(cells')
    /\ mishap' = (mishap \/ ~ready \/ ~loaded)
    /\ UNCHANGED <<ready, loaded, setup, read, saved, granted, reloads>>
    /\ Report(cells')

\* placeBlocks, which stops when the inventory is used up, and placeDecor for one piece.
Place(placed) ==
    /\ placed # {} /\ placed \intersect cells = {} /\ Room
    /\ Cardinality(placed) <= inventory
    /\ inventory' = inventory - Cardinality(placed)
    /\ cells' = cells \union placed
    /\ SaveHome(cells')
    /\ mishap' = (mishap \/ ~ready \/ ~loaded)
    /\ UNCHANGED <<ready, loaded, setup, read, saved, granted, reloads>>
    /\ Report(cells')

\* replaceBlocks: one object is consumed for each that is returned.
Replace ==
    /\ cells # {} /\ inventory > 0 /\ Room
    /\ SaveHome(cells)
    /\ mishap' = (mishap \/ ~ready \/ ~loaded)
    /\ UNCHANGED <<inventory, ready, cells, loaded, setup, read, saved, granted, reloads>>
    /\ Report(cells)

\* absorbBlock and absorbDecor.
Absorb(cell) ==
    /\ cell \in cells /\ Room
    /\ inventory' = inventory + 1
    /\ cells' = cells \ {cell}
    /\ SaveHome(cells')
    /\ mishap' = (mishap \/ ~ready \/ ~loaded)
    /\ UNCHANGED <<ready, loaded, setup, read, saved, granted, reloads>>
    /\ Report(cells')
-----------------------------------------------------------------------------
\* A save lands or is lost; the streams do not wait for each other.
EconomySaved(kept) ==
    /\ economyQueue # <<>>
    /\ saved' = IF kept THEN [saved EXCEPT !.economy = Head(economyQueue)] ELSE saved
    /\ economyQueue' = Tail(economyQueue)
    /\ mishap' = (mishap \/ ~kept)
    /\ UNCHANGED <<economyVars, buildVars, homeQueue, granted, reloads>>

HomeSaved(kept) ==
    /\ homeQueue # <<>>
    /\ saved' = IF kept THEN [saved EXCEPT !.home = Head(homeQueue)] ELSE saved
    /\ homeQueue' = Tail(homeQueue)
    /\ mishap' = (mishap \/ ~kept)
    /\ UNCHANGED <<economyVars, buildVars, economyQueue, granted, reloads>>

Quiescent == ~dirty /\ economyQueue = <<>> /\ homeQueue = <<>>

\* The page goes away with everything it had not stored, and is opened again.
Reload ==
    /\ reloads < MaxReloads
    /\ reloads' = reloads + 1
    /\ mishap' = (mishap \/ ~Quiescent)
    /\ inventory' = 0 /\ materials' = 0 /\ queue' = 0
    /\ condition' = FALSE /\ dirty' = FALSE /\ ready' = FALSE /\ fresh' = FALSE
    /\ cells' = {} /\ loaded' = FALSE
    /\ setup' = [c \in Caller |-> "idle"]
    /\ read' = [c \in Caller |-> None]
    /\ economyQueue' = <<>> /\ homeQueue' = <<>>
    /\ UNCHANGED <<saved, granted>>

Next ==
    \/ \E readable \in BOOLEAN : Boot(readable)
    \/ QueueCraft \/ CompleteCraft \/ Arrive \/ Drip \/ SaveNow
    \/ \E c \in Caller :
        \/ SetupBegin(c) \/ SetupApply(c)
        \/ \E readable \in BOOLEAN : SetupRead(c, readable)
    \/ \E placed \in SUBSET Cell : Place(placed)
    \/ \E cell \in Cell : Absorb(cell)
    \/ Replace
    \/ \E kept \in BOOLEAN : EconomySaved(kept) \/ HomeSaved(kept)
    \/ Reload

Spec == Init /\ [][Next]_vars
-----------------------------------------------------------------------------
\* Type invariant of the homestead: nobody builds with objects they do not have.
TypeOK ==
    /\ inventory \in Nat /\ materials \in 0..MaterialCap /\ queue \in Nat
    /\ condition \in BOOLEAN /\ dirty \in BOOLEAN /\ ready \in BOOLEAN /\ fresh \in BOOLEAN
    /\ cells \subseteq Cell /\ loaded \in BOOLEAN
    /\ setup \in [Caller -> {"idle", "reading", "read", "done"}]
    /\ read \in [Caller -> {None} \union SUBSET Cell]
    /\ saved \in [economy : {None} \union Snapshot, home : {None} \union SUBSET Cell]
    /\ economyQueue \in Seq(Snapshot) /\ homeQueue \in Seq(SUBSET Cell)
    /\ granted \in 0..MaxGrants /\ reloads \in 0..MaxReloads
    /\ mishap \in BOOLEAN

\* What was given out is there exactly once, as a material, a craft under way, an object in
\* the inventory or a placed one, over crafting, building, absorbing, saving and reloading,
\* although inventory and home are saved on separate streams and load in either order
\* (economy.ts persist, buildState.ts afterChange).
NothingIsLost ==
    ~mishap /\ ready /\ loaded =>
        materials + queue + inventory + Cardinality(cells) = Stock + Starter + granted

\* The move-in timer runs exactly while the home earns it, also when the home is loaded
\* before the economy and boot() puts the saved timer over the reported one.
ConditionAgrees == ~mishap /\ ready /\ loaded => (condition <=> Met(cells))

\* Economy and home, two parts that load, change and save apart, agree on what there is.
PartsAgree == NothingIsLost /\ ConditionAgrees

\* Once nothing is dirty or under way, the store holds what is on the screen: no change goes
\* without a save of both parts.
StoreCatchesUp ==
    ~mishap /\ Quiescent /\ ready =>
        /\ saved.economy = [inventory |-> inventory, materials |-> materials, queue |-> queue,
                             condition |-> condition, fresh |-> fresh]
        /\ loaded => saved.home = cells \/ (saved.home = None /\ cells = {})

\* buildState.ts:56 calls setup() "Idempotent": once the home is loaded, cells change only by
\* mutations, which settle with the economy.
SetupIdempotent == [][loaded /\ loaded' /\ cells' # cells => inventory' # inventory]_vars

\* economy.ts:335: "never snapshot a not-yet-loaded economy over the real save". A page that
\* found a save goes on from it.
RealSaveKept ==
    [][saved.economy # None /\ saved'.economy # None =>
        (saved'.economy.fresh => saved.economy.fresh)]_vars
===============================================================================
