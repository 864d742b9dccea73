# Palace of Culture: a verification project

TLA+ models of the parts of this repository in which several actors, failures and orders
meet: the public palace room and its durable raid count, the server process from start to
shutdown with its feed proxy, the audited saves, the home and the characters in the browser,
the browser's connection to the palace, and the two flows that cross all of it, the first raid
and the Phase 1 relay. TLC checks the models on small instances, and TLAPS proves most of
their safety properties for every value of the constants. Paths below are relative to the repository;
`PROJECT.json` has the line range each definition stands for.

Contents: [the system](#1-the-system), [modules](#2-the-modules), [runs](#3-the-runs),
[fairness](#4-fairness), [proofs](#5-the-proofs), [disagreements found](#6-where-code-and-documents-disagree),
[limits](#7-what-is-not-modelled), [plan](#8-the-plan).

## 1. The system

A three-dimensional "palace" is shared by the visitors of a web page. One Node process serves
it: an HTTP feed proxy, a Colyseus room for presence, and a SQLite file. What a visitor owns
(character, economy, home) never leaves the browser and is kept in IndexedDB.

    browser tab                                server process
    +--------------------------------+         +-------------------------------------+
    | PalaceScene / panels           |         | index.ts: start, shutdown           |
    |   | setup, place, absorb       |         |   |                                 |
    | buildState.ts --> economy.ts   |         | httpGuard.ts --> Colyseus           |
    |   |  saveHome      | persist   |         |                    |                |
    | store.ts: a queue per stream   |  ws     |   PalaceRoom.ts <--+                |
    |   | commitAuditedWrite         | <-----> |     | total(), record()             |
    | indexedDbAudit.ts --> IndexedDB|         |   raidLedger.ts                     |
    | multiplayer.ts (transport)     |         |     | getHead, append               |
    +--------------------------------+         |   auditStore.ts --> SQLite file     |
       other tabs: the same IndexedDB          +-------------------------------------+
                                                  other processes: the same file

### Components

**Public palace room** (`apps/server/src/multiplayer/PalaceRoom.ts`). *State:* the static id of
the one active room; players, ship modules and `completedRaids`, all replicated; a guard per
session (`client.userData`) with its windows, budgets and flags. *Operations:* `onCreate`,
`onJoin`, `onDrop`, `onReconnect`, `onLeave`, `onDispose` and the handlers for moves, zap flashes,
ship modules and finished raids. *Hard:* lifecycle hooks of a refused room run beside the live
one; a session drops, returns within ten seconds or does not; a session told to leave still has
messages under way; limits over sliding windows and budgets refilled by real time. *Correct
when:* there is one live room, the ship and the guards agree, a run counts once and is
co-created, the published total follows the ledger, no session moves faster than allowed.

**Raid ledger and audit store** (`raidLedger.ts`, `db/auditStore.ts`). *State:* a hash-linked
event stream and its head in SQLite, a schema version. *Operations:* open and migrate, `getHead`,
`append` (compare and swap on the head), `record` with one retry, `total`. *Hard:* several
processes share the file (a rolling restart, tooling); they commit between two statements of
another; a transaction fails; a process dies between commit and publication. *Correct when:* the
stream verifies and only grows, no run is counted twice or minted by a failure, totals never go
back.

**Browser audit trail and saves** (`audit/indexedDbAudit.ts`, `builder/store.ts`). *State:* a
value, an event chain and a head per stream; a promise queue per stream and tab. *Operations:*
`writeAuditedKey`, which chains `commitAuditedWrite` with three attempts. *Hard:* every `await`
lets another tab commit; a write fails, or its tab is closed; the queue forgets itself when it is
done. *Correct when:* value and history agree, the chain verifies, snapshots of a tab land in
order, every write settles.

**Home builder** (`builder/economy.ts`, `builder/buildState.ts`). *State:* materials, the craft
queue, inventory, the move-in condition, dirty and ready flags; the placed blocks and decor, the
`loaded` flag. *Operations:* `boot`, which catches up with the time away, `tick`, `queueCraft`,
`persist`; `setup`, placing, repainting, absorbing, `afterChange`. *Hard:* two asynchronous loads in
either order, two streams saved at different moments, several callers of `setup`, reloads. *Correct
when:* nothing given out is lost or doubled, both parts agree on the condition, what is on the
screen reaches the store, a real save is never replaced.

**Multiplayer client transport** (`apps/web/src/net/multiplayer.ts`). *State:* the active join, the
room created for it, the attached room, one retry timer, attempt counters, the published view.
*Operations:* `connect`, `open`, `leave`, the callbacks of SDK, socket and timers. *Hard:* the SDK
settles a join at any time, also after it was given up; five timeouts; drops, restarts and
`leave` at any moment. *Correct when:* it is never stuck and never joins twice, leaves no socket
open, recovers, and never shows the total shrinking.

**Multiplayer wire protocol** (`packages/multiplayer/src/index.ts`). Pure parsers, limits and the
state schema. Here a message is well-formed or malformed, and limits are constants.

**Matchmaking guard** (`multiplayer/httpGuard.ts`, `rateLimit.ts`). *State:* active requests, globally and per
address; token buckets in a bounded table. *Operations:* admit, read a bounded body, release,
evict. *Hard:* body end, timeout, abort and oversize race; `finish` and `close` both release; a full
table evicts. *Correct when:* the active counts equal the requests in progress and stay within
the limits.

**Character store** (`apps/web/src/character/store.ts`). *State:* characters, the current pointer,
the legacy pointer in localStorage. *Operations:* load (which migrates), save, clear, one after
the other in a tab. *Hard:* the legacy pointer is cleared outside the transaction; several tabs;
a tab closed in the middle. *Correct when:* the pointer always names a stored character, and a
page finds the last choice.

**HTTP API and podcast proxy** (`app.ts`, `api/podcasts.ts`). *State:* the slots taken, in total and
per client; for each request the fetch, its redirects and its connection upstream. *Hard:* fetch,
timeout and a client that goes away race; a name lookup cannot be aborted. *Correct when:* slots
equal requests in progress, no upstream connection is in use without a slot, every request ends.

**Server start and shutdown** (`index.ts`, `multiplayer/server.ts`). *State:* what is open, the one
shutdown promise, the grace timer. *Hard:* failure in the middle of the start, signals and
failing listeners during shutdown, connections that do not end. *Correct when:* the process ends
and the audit store closes after everything that could use it.

**Phase 1 relay** (`meaningverse/phase1Relay.ts`, `net/phase1RelayTransport.ts`, its wiring in
`scene/PalaceScene.tsx`). *State:* the reducer's activation, witness and lens, as rendered and as
dispatched; a subscription with a deduplication window and rate limits; attempts to sign. *Hard:*
signed events arrive late, twice, out of order; a signing outlives its cancellation, its attempt
and its scene; evidence is judged by the state of the last render. *Correct when:* what is held
is bound to one activation and stands, and a fresh witness is not lost.

**Onboarding and first raid** (`frontend/GameFrontend.tsx`, `ui/MemberSelect.tsx`,
`ui/MeaningPath.tsx`, `meaningverse/*.ts`). *State:* the stage of a page, the character it plays; the
invite, the part in the ship, the report already made. *Hard:* the character is looked up and
chosen asynchronously; the panel judges by a view that lags, over sessions that change beneath
it. *Correct when:* the chosen character is the one played and found again, and a panel claims
only what the room confirms, and once.

**Napplet framework** (`packages/napplet-framework`), **napplet panels and zaps**, **ownership
verifier** (`packages/ownership`), **Nostr and media reads, scene and interface, catalogues, shared
types and identity, world agent, Godot client, asset pipeline**: unused libraries, one-shot
requests, I/O, rendering, static data or build-time code without shared state; section 7 has the
reasons.

The hazards of this code are listed with their lines in `PROJECT.json`, together with the
properties that would catch each one; those without a property say why.

## 2. The modules

| module | models | place |
|---|---|---|
| `RaidCount` | what the ledger promises: a log without repetition, honest totals | abstract |
| `RaidLedger` | `AuditRaidLedger` over `AuditStore`, several processes | implements `RaidCount` |
| `PalaceRoom` | the room: lifecycle, sessions, ship, runs | uses `RaidCount`'s log |
| `FirstRaid` | the creation panel over the transport's view and messages | extends `PalaceRoom` |
| `SessionGuard` | the limits the room puts on one session over time | clocked |
| `OrderedSaves` | what saving promises: per tab in order, each at most once | abstract |
| `AuditedSave` | `writeAuditedKey` over `commitAuditedWrite`, several tabs | implements `OrderedSaves` |
| `Homestead` | economy and home builder of one tab, on two streams | uses `OrderedSaves`' promise |
| `CharacterStore` | the characters of a browser profile and two pointers to the current one | uses `OrderedSaves`' promise |
| `Visit` | the pages over it: intro, selector, play | extends `CharacterStore` |
| `PalaceTransport` | the browser's transport with SDK, sockets and timers | |
| `TokenBuckets` | `TokenBucketRateLimiter` as operators on its table | used twice by the guard |
| `MatchmakingGuard` | admission of matchmaking requests and their slots | |
| `FeedProxy` | feed requests: slots, fetch, redirects, timeout, abort | |
| `ServerProcess` | start, failed start, shutdown and the grace timer | extends `FeedProxy` |
| `Phase1Relay` | the Phase 1 reducer, as operators on its state | |
| `Phase1Scene` | the scenes, signers and nostr relays around it | extends `Phase1Relay` |
| `ReplayedPulse` | what a device has accepted so far, a history beside the scenes | extends `MCPhase1Scene` |
| `RaidLedgerProofs`, `AuditedSaveProofs`, `HomesteadProofs`, `VisitProofs`, `ServerProcessProofs`, `Phase1SceneProofs` | theorems about the module each is named after | extend it |
| `FirstRaidProofs` | theorems about the room, and about the panels over it | extends `FirstRaid` |
| `ConnectionProofs` | theorems about transport, matchmaking guard and session guard | extends all three |
| `MC*` | constant values and symmetry sets for TLC | |

The modules compose in two ways. Through the promises between them: `RaidLedger` refines
`RaidCount`, and `PalaceRoom` keeps `RaidCount`'s log instead of the SQLite tables, where a record
appends or throws and other processes append too; `AuditedSave` refines `OrderedSaves`, and
`Homestead` and `CharacterStore` let a save land in order or be lost, which is what `OrderedSaves`
allows. And by extension: `FirstRaid`, `Visit`, `ServerProcess` and `Phase1Scene` run the actions of
the module they extend together with those of the code that calls it.

**RaidLedger.** A process is anything that has the database file open. JavaScript runs `getHead`
and `append` of one process back to back, but they are two SQLite statements, so they are two
actions between which others commit. `pc[p]` is the place in `AuditStore`'s constructor or in
`record`. The body of an immediate transaction is one action. The hash is injective: it is the
tuple it digests. `Time` may jump either way. A crash loses locals, never committed rows
(WAL, `synchronous=FULL`).

**PalaceRoom.** A Colyseus handler runs to completion without an `await` that lets another in
(`onDrop`'s `allowReconnection` aside, whose outcome is an action of its own), so each handler is
one action. `CreateRefused` and `Dispose` cover the room whose `onCreate` threw while another is
live. The expiry of the reconnection window and of the invalid-message window are choices here;
`SessionGuard` has the clocks. A module is its author and slot; `hasModule` and `raidCounted`
are flags of `client.userData`, which survives a reconnection and not the session.

**FirstRaid.** What a panel shows is its `view`, the authors in the last state patch it received,
which lags behind the room's `modules` by any time. `channel` holds what was sent and not heard; a
drop loses it, and empties the view, on both sides at once. `Enter` is also the fresh join of a
transport whose token was refused: the panel keeps `invite` and `reported`, the room sees somebody
new. The clipboard is asked in one step and answers in another (`copying`). `Report` is the React
effect on `raidCompleteFor`. Sessions of other players do whatever the room's handlers allow.

**SessionGuard.** One session, one clock. Both distance budgets are an axis each: the horizontal
plane is walked along a line, which is the worst case for distance. `Tick` advances time by one
unit; `Respawn` is the move to the spawn point that skips the distance check and empties the
budgets. The histories `moved`, `flashed`, `invalids` record what was really let through,
separately from the windows the code keeps; `excess[a]` is the largest amount by which travel in
any interval ending now exceeds speed times its length.

**AuditedSave.** A write is the n-th call in its tab, its payload the snapshot of that moment.
`readHead`, hashing and the read-write transaction are separate steps; a transaction is one step
because IndexedDB serialises those over the same stores. `Close` cuts a tab off anywhere.

**Homestead.** The objects of all kinds are one number, a placed object occupies a cell, and
materials are counted in the crafts they pay for. `queue` is what was paid and is not finished.
The clock is not there: what may happen in time may happen, in `tick` one thing after the other
(`Drip`, `CompleteCraft`, `Arrive`), in `boot` all at once for the time the page was closed.
`setup()` is three steps: the check of `loaded`, the read, the use of what was read. Each mutation
includes the whole of `afterChange`: the condition report, its immediate save, the home's save.
The history flag `mishap` records that a page was torn down with unsaved state, a read or a
write failed, or something was built before both parts were loaded; the properties that relate
the two parts speak of pages without one, the violation of section 6 of pages with one.

**CharacterStore, Visit.** `ops[t]` is the promise queue of a tab, `step[t]` the place of its first
operation. A migration reads, commits and clears the legacy pointer in three steps, a clear of the
character commits and clears it in two; other tabs act in between, and `Close` may cut a tab off
anywhere. The history `choice` is what the last committed save or clear made current; a migration
does not change it. `disturbed` marks the cases in which the code does lose it (section 6): a clear
that is cut off or may not write localStorage, a commit between the read and the commit of another
tab's migration, a migration that reads what a committed clear has yet to remove. A page looks its character up (`found[t]`) when it comes to
the gate and plays a chosen one only after the module that makes its key has been imported
(`creating[t]`); with `DemoWrites` a moment passes in between, so that a second one may be chosen.

**PalaceTransport.** One transport object, which is used once. An operation is one call of
`open()`; the SDK's share (matchmaker, socket, `JOIN_ROOM`) advances on its own and settles long
after the transport gave it up, in a socket the transport may not know. Promise continuations run
before the next event, so a settled join and what `open()` does with it are one action. Delays are
abstracted to "some time later", and `attempts` is counted up to the limit that matters.

**TokenBuckets, MatchmakingGuard.** The limiter's table is the sequence of its buckets in the
Map's order, and a token is `Window` units, so that refills are whole numbers where the code has
floats. The guard instantiates it for the addresses and, with one entry, for all together. The
wall clock has any value at each request; the limiter makes it monotone. A request goes through
`reading`, `handling`, `ended` and `finished`, and `Close` may come at any stage, once. Answers of
Colyseus are its own (`Respond`). `ipExcess` and `globalExcess` measure what was let through
independently of the buckets.

**FeedProxy, ServerProcess.** A feed request is raced by its fetch, its timeout and its client.
Whatever wins is carried through in the same turn of the event loop, so the answer, the abort and
the release of the slot are one action. A name lookup goes on without its request (`late`), also
when the same connection asks again. `upstream` counts the connections a fetch uses: after a feed
that was read to its end the connection is free in the pool of Node's default agent (`pooled`),
which closes it or gives it to a later fetch; every other end destroys it. `phase` is the
process: `starting`, `binding`, `running`, then `closing` or `failing`, and `ended`, or `killed` by a
signal that has no handler (any more) or a rejection nobody handles. A listener is closed when its
last connection is; rooms
are reduced to the visitors who may still report a run to the store.

**Phase1Relay, Phase1Scene.** The reducer is a function on `[accepted, activation, creator, witness,
lens]`. A scene has it twice: `state`, as last rendered, by which evidence is judged, and `next`,
with what was dispatched since. `Render` runs the effects of a commit in their order: the pulse,
the subscription, the receive epoch. A `flight` is a chain of promises between a consent and its
end; it knows whether its token is `current` and its scene `live`. The nostr relays hold what
was published and hand it out in any order, any number of times or never; an event is refused once
it is older than its age. `sub` is the open subscription: what its guard has authorised, and when;
its deduplication set and rate windows are computed from it. What outsiders publish is one answer
each to an invite there was at the start, and a lens on it. `ReplayedPulse` adds the witnesses a
device has rendered as accepted in any of its scenes, and leaves the scenes as they are.

## 3. The runs

| run | instance | distinct states | asks |
|---|---|---|---|
| `RaidLedger` | 3 processes, 3 runs, 2 clock values, seed 1 | 171 664 | Does the chain verify, is the file migrated once, is a run lost to conflicts only after two foreign commits, does the log only grow, is `RaidCount` implemented? |
| `PalaceRoom` | 3 sessions, 2 room ids, 2 places, 2 ship slots, 1 foreign run | 168 088 | Does the room's bookkeeping agree with its ledger, is a closed session finished, does nobody stay as a ghost? |
| `FirstRaid` | 1 panel, 3 sessions, 3 slots, 2 messages in flight | 1 064 739 | Does a panel claim only what the room confirms, once, and is a completed run judged? |
| `VisitorLimits` | at the door: 3 requests, 3 addresses, table of 2, 2 per address, 5 clock values; in the room: positions on both axes, 4 time units, 3 sequence numbers | 413 166 | Do slots match requests, are rates kept, is eviction fair; can budgets or windows be beaten? |
| `AuditedSave` | 2 tabs, 3 saves each, 3 attempts | 113 362 | Do value and history agree, are saves in order, is a save given up only for a cause, does every write settle? |
| `Homestead` | 2 cells, 1 starter object, material for 1 craft, threshold 2, 1 grant, 2 reloads | 3 686 936 | Is nothing lost or doubled, do the parts agree, does the store catch up? |
| `StarterOverwrites` | smaller | violation | section 6 |
| `PalaceTransport` | 3 joins at once, 3 fast attempts, 2 raids | 187 902 | One driver, no leaked socket, totals that never shrink, recovery? |
| `ServerProcess` | 2 requests, 2 clients, 1 slot each, 1 redirect, 1 pooled connection, 1 visitor | 193 085 | Do slots and the connections in use have owners, does the store close last, does nothing hang? |
| `Visit` | 2 tabs, 2 and 1 characters created, 1 clear | 351 522 | Is the chosen character kept and played, does nobody wait for ever? |
| `Phase1Scene` | 1 device, 2 other keys, 1 invite, 2 clock values, 3 moves | 214 199 | Is evidence bound, does it stand, is a scene's pulse news to it, does a fresh witness arrive? |
| `ReplayedPulse` | the same | violation | section 6 |

Why these bounds are enough for the questions asked:

- *Three processes and three runs* give a recording with two foreign commits during it, the
  smallest case in which the one retry of `record` is used up, and a process that only opens.
- *Two places in the room for three sessions* makes the room full; *two ship slots* makes the
  ship full; one foreign run interleaves with the room's own. Two room ids are one live and one
  refused.
- *One panel and three sessions* are the panel's first, the one it joins afresh with and another
  player, or one of the panel and two others; two messages in flight are a part sent twice or a
  part and a report. With three slots a full ship still refuses the panel.
- *MaxTime 4 with caps of a few units* lets a budget fill up entirely, be spent and refill; windows
  of 1 and 2 end and begin again within it, with bursts on both sides. Speeds, caps and limits are
  scaled down together.
- *Three saves with three attempts* let one tab lose all its attempts against three commits of
  the other, and leave a write chained behind it.
- *A threshold of two with one starter object* makes the condition depend on a craft; *two reloads*
  let a page find what a page that itself found a save has stored; the grant is an arrival or a
  drip, before, between or after them.
- *Three SDK operations* are a current join and two that were given up and have not settled.
- *Three addresses for a table of two* evict; *a clock up to Ttl* prunes; rates of one and two
  tokens per window of two units give partial refills. Three requests with two places per address
  reach both limits. `MCVisitorLimits` puts `MatchmakingGuard` and `SessionGuard` into one run: they
  share no variable and no clock, so either is followed with the other at its start.
- *Two feed requests* contend for the slot of one client or have one each. With the limits used,
  the total is reached only when both clients have theirs; a total that bites first needs a third
  request, which `FeedAlwaysBounded` covers. Two lookups a connection may leave behind let a
  request run beside one and be aborted as well; one pooled connection is reused, or not, or gone.
- *Two tabs* are what it takes to overtake a migration or a choice; the tab that creates two
  characters races itself.
- *Three moves* of a device are its first scene and two more: scenes, attempts or one of each;
  the clock of two values makes evidence old. Two outside keys are the creator and a second guest.
- Bounds that exist only for TLC (`MaxForeign`, `MaxInFlight`, `MaxSaves`, `MaxGrants`, `MaxReloads`,
  `MaxPending`, `MaxSequence`, `MaxTime`, `MaxRaids`, `MaxCreated`, `MaxClears`, `MaxMoves`,
  `MaxLate`, `MaxPooled`) are guards in the actions and named as bounds where they are declared.

Deadlock is checked where the system cannot stop. It is off for `VisitorLimits` (the bounded
clock ends, or the session was closed), `Homestead`, `FirstRaid`, `Visit` and `Phase1Scene` (their bounds are
used up), `PalaceTransport` (a transport that was left is finished) and `ServerProcess` (a process
that has ended).

Symmetry is used over processes and runs, and over requests and addresses, in runs that check
invariants and step properties only, never with liveness.

Every property has a mutant in `PROJECT.json`: a plausible bug in a definition that models code,
written next to it and commented "A bug". Under the run's own configuration TLC finds the
property violated by it.

## 4. Fairness

- `RaidLedger`, `VisitorLimits`, `Homestead`: none; only safety is claimed. A
  process may stop or a visitor walk away at any time.
- `PalaceRoom`: `client.leave` closes the socket of a session told to leave, Colyseus' timer ends a
  reconnection window, `onLeave` follows, and an empty room is disposed. Nothing is assumed of
  players: they need not join, send or come back.
- `FirstRaid`: React runs the effect of a render (`Report`), and an open connection delivers
  (`Deliver`). State patches and players are not fair; the property ends with the connection.
- `AuditedSave`: a browser runs the continuations an open tab has scheduled. Failing and closing
  are not fair, and no tab has to save.
- `Visit`: IndexedDB settles what an open tab asked of it, in success or in failure, and the import
  of the key module settles. Players and closing are not fair.
- `PalaceTransport`: timers fire, sockets close and the SDK settles what it was asked (weak
  fairness). *Strong* fairness says that a server which is asked again and again answers in the
  end: of infinitely many waits one gets its room created and joined, and of infinitely many
  joined rooms one shows its state. Without it no retry loop recovers. One real gap: the
  matchmaking timeout ends with the response headers (`multiplayer.ts:450`), so a stalled body is
  bounded by the network only.
- `ServerProcess`: timers fire (the grace timer, the timeout of a feed request), settled promises
  continue, Colyseus sends visitors out of rooms it drains, and a connection to the multiplayer
  listener ends by its timeouts. Clients of the feed proxy, feeds and name servers owe nothing:
  that the process ends in spite of them is the point. A killed process does nothing more.
- `Phase1Scene`: React renders what was dispatched, and an open subscription is handed what its
  relays hold. Signers and consents are not fair.

## 5. The proofs

All theorems hold for every value of the constants that satisfies the named assumptions of the
modules: any number of processes, tabs, sessions, panels, requests, devices, saves. They are

- sizes: `LedgerAssumption`, `RoomAssumption`, `PanelAssumption`, `TransportAssumption`,
  `AdmissionAssumption`, `GuardAssumption`, `SaveAssumption`, `HomesteadAssumption`, `CharacterAssumption`, `DemoAssumption`,
  `FeedAssumption`, `Phase1Assumption` say which constants are finite sets, naturals or Booleans
  and which limits are at least one;
- marks: `NoDataIsNoWrite`, `MarksAreNoCharacters` and the two called `NoneAssumption` say that the
  value for "nothing" is not one of the values it stands for.

TLC evaluates them in each run. Each inductive invariant below was also checked by TLC on the
instance of its component's run.

**RaidLedgerProofs.** `StreamVerifies` alone is not inductive: an append links to the head the
process has *read*. The inductive invariant adds `SeenIsPast` (a head some process saw is an event
of the stream, so equal revisions mean equal heads), `AttemptsSawCommits` (a second attempt means
the head it reads, or has read, is at least one commit past the beginning of `record`),
`TotalsHonest` (what is shown or about to be returned is at most seed plus count) and `RunsOnce`
(a stored or recorded run is counted, and only once). The lemma `CurrentHeadAppends` says that an
append at the current revision passes both the head check and the unique keys; `AppendEffect` says
what a commit stores; each step then preserves the invariant.
Theorems: `TypeCorrect`; `StoreAlwaysSound`, which joins that the stream verifies
(`StreamAlwaysVerifies`), that the file is migrated once (`MigrationHappensOnce`, from a small
invariant of its own) and that a run is dropped only after two foreign commits (`RetryTolerance`);
`LedgerIsAppendOnly`; and `LedgerRefinesRaidCount`, the refinement: `AppendCommit` is `Complete`,
publishing is `Show`, everything else stutters.

**FirstRaidProofs.** First the room (`RoomInv`). That guards and ship agree for those present says
nothing of a session before it joins and after it left, and there the induction would break:
`GuardsAreFresh` (outside the room a session has a new client's guard), `StrangersLeftNoTrace` (who
has not joined is in no ship and in no log), `ClosedAreLeaving` (a session told to leave cannot
reconnect) and `NobodyWithoutRoom` close the gap. `ShipIsFinite` makes the cardinalities in
`ShipIsConsistent` mean something. Theorems: `RoomTypeCorrect`, `RoomAlwaysConsistent`,
`RunsAlwaysHonest`, `ClosingIsFinal`.
Then the panels. `RunImplementsRoom` says that every step of panels and room is a step of the room
or leaves it alone, so `RoomInv` holds beneath them. `RunInv` adds, for each panel, that its view is
part of the ship (`ShowsTheShip`: no part is withdrawn while somebody is connected, so a view may
lag and not lie), that one report is under way at most and will be verified (`ReportsOnce`), and
that until the room has judged it no session of the panel was counted (`CountsOnce`). Two panels
never share a session (`SessionsAreOwned`), and nobody who sends what the panels send is ever closed
(`NobodyIsClosed`). Theorem: `ReportsAlwaysHonest`.

**ConnectionProofs.** The way of a visitor into the room: the transport that asks, the guard that
admits, the limits on the session. The three modules share no variable, so the proofs are three
parts of one module, and what they share are the lemmas about forgetting the first elements of a
list (`PrefixIsInterval`, `SuffixIsCut`).

*Transport.* `ConnectionsAreOwned` says that what is open has an owner; for the induction one has to
say which. `Driven`: of a join, the room, the retry timer and the close that is waited for exactly
one moves a transport on, and nothing else does when it is offline. `JoinsAreKnown`: the join that
is still looked for is the one `open()` waits for, unless the transport was left, and a pending
room is the room of that join. Theorems: `TransportTypeCorrect`, `ConnectionsAlwaysOwned`,
`RaidsNeverLost`.

*Matchmaking guard.* `TableInv` is an invariant of a limiter: its table has no key twice and is
ordered by last use (`Ordered`), and what a key had beyond its refill is missing from its bucket
(`Paid`). Each operation of `TokenBuckets` has its lemma: pruning cuts first entries off, which is
fair because of the order and gives nothing away because an entry idle for `Ttl >= 2 * Window` is
full again (`PrunedIs`, `GoneIsPaid`); a refill pays at most the time since the last one
(`RefillIsPaid`); the bucket that was used goes to the end, past the oldest if the table is full
(`ReinsertedIs`); `ConsumeKeepsInv` puts them together for both limiters. `SlotsInv` is the count:
the slots are the requests that wait, and only those still have to release one. Theorems:
`GuardTypeCorrect`, `AdmissionAlwaysBounded` and the action property `EvictionAlwaysFair`, for any
number of addresses and requests, any rate, table size and jumps of the clock.

*Session: the walk.* `ExcessIsPaid` says that for each axis the excess plus the tokens a refill
would give now stays within the cap: what was travelled too fast has been paid from the budget.
`RespawnIsPaid` is the same for the distance from the spawn since the last respawn, where the
budgets start empty. Theorem: `TravelAlwaysHonest`, from `TravelBounded` and `NoRespawnBurst`, for
all speeds, caps, tolerances and grounds.

*Session: the windows.* Timestamps come in the order of the clock, so what `consumeMoveToken` shifts
out and what `#handleZapFlash` filters out are first entries (`RecentIs`). The room forgets
timestamps whenever it looks, the history only when something is let through; that both then hold
the same list (`FreshIsUnique`, `BehindTwice`) is what makes the room's count the true one. `InvalidsAreCounted` bounds a burst across two windows
that do not overlap: of the messages before the current count all but the last
`InvalidLimit - 1` were past before this window was opened. Theorems: `WindowsAlwaysHold`,
`SessionTypeCorrect`.

**AuditedSaveProofs.** Order across failures is the hard part: `Chained` says that what is begun in
a tab has only settled writes before it, that the tail is the last unsettled write, and that a
write waits for the one before it; `Stored` says that what is in the log belongs
to writes that are stored or settled, so the next one of the same tab lies after them. Theorems:
`StoreAlwaysAudited`, that the chain verifies and the value is the payload of its newest event, and
`SavesStayOrdered`, the refinement of `OrderedSaves`. A second invariant, `AttemptInv`, counts: every
attempt a write lost has seen one more commit since the write began, because the head it expects is
the current one or an older one (`Beaten`). Theorems: `SaveTypeCorrect`, `NoneGivenUpLightly`.

**HomesteadProofs.** `PartsAgree` speaks of complete pages, and the steps that complete a page are
those that could break it. `BalanceInv` therefore says where each part is while it is not on the
screen: until the economy has booted, its share is in the store; until the home is loaded, so are
the cells (`Home`); and what a queue will have stored is its last snapshot (`Latest`). `SetupInv` is
about a call of `setup()` under way: it finds the home unloaded, and what it read is still what is
stored. All of it is conditional on no `mishap`. Theorems: `HomesteadTypeCorrect`, for any number of
callers; `PartsAlwaysAgree` and `StoreAlwaysCatchesUp` under the hypothesis `[]SetupsTakeTurns`, that
two calls of `setup()` never overlap. The hypothesis is needed, and the code does not grant it:
overlapping calls replace what was built in between (section 6, `SetupIdempotent`). With one caller,
as in the run, it always holds.

**VisitProofs.** `ChoiceIsFound` holds only while no operation is between its commit and its
clean-up, so `ChoiceInv` says where the choice is at any moment: behind the legacy pointer until
something is committed, in the pointer from then on; a legacy pointer that still names a record
without being the choice has a clear about to remove it; and a migration under way carries the
choice in `seen`. What a tab plays is the last character it has still to save, or else the one it
saved (`PlayedInv`), which needs that a tab saves only characters of its own (`OperationsInv`).
Theorems: `VisitTypeCorrect`, `ChoiceAlwaysKept`. The proof corrected the model: while a migration
rewrote the history `choice`, the exclusion of overtaken migrations was never used, a sign that the
property said less than it meant. Now migrations leave `choice` alone, and a third way to lose it
came to light (a migration that reads under another tab's clear, section 6).

**ServerProcessProofs.** For the proxy, `FetchHasHandler` says that a request holds a slot exactly
as long as it has a fetch, and `LookupsFit` that the bound on lookups left behind is never what
stops an abort; the slots of a client are then those of its requests
in `active`, also under limits the run cannot reach. For the process, `PhaseInv` lists what each
phase has made and let go, and `DrainInv` the order in between: rooms before the listener, all
before the store. Theorems: `ProcessTypeCorrect`, `FeedAlwaysBounded`, `StoreAlwaysOutlives`.

**Phase1SceneProofs.** Evidence is judged by `state` and applied to `next`. `ReducerInv` has both
bound and `next` never behind `state` (`Keeps`), so evidence that was good where it was judged is
good, or refused, where it is applied. Lemmas about the reducer alone (`HoldKeeps` and those after
it) say what each of its actions keeps. `NumbersInv` and `OriginsInv` are about identity: attempts
are numbered once per device, so an activation still to be signed is none that is known, and
signing one never replaces another. Theorems: `SceneTypeCorrect`, `EvidenceAlwaysSound`, and for
the action properties `NewsAlwaysStands`.

Only model-checked:

- liveness (`GhostsResolve`, `RunsAreJudged`, `WritesSettle`, `Recovers`, `NothingHangs`,
  `VisitsGoOn`, `WitnessArrives`): fairness and `ENABLED` are beyond this prover.

## 6. Where code and documents disagree

Shown by a run:

- `StarterOverwrites`: `economy.ts:335` promises never to snapshot a not-yet-loaded economy over the
  real save. A read that fails looks like a missing save, and the starter economy is then saved
  over the real one.
- `ReplayedPulse`: `phase1RelayTransport.ts:519` calls "EOSE/reconnect history"
  "presentation-silent", and `PalaceScene.tsx:830`, `phase1Relay.ts:736` and the Phase 1 UI
  specification say the same of every reopened receive path. The silent baseline is taken in the
  render that follows the subscription. What the relays hand out after that is news to a scene that
  was entered again or a page that was loaded again, whose reducer starts empty: a witness that the
  device had accepted before and that is still fresh pulses once more.

Stated by a property that no run checks, because the code does not keep it:

- `AnotherLiveSessionAnswered` of `PalaceRoom`: `packages/multiplayer/src/index.ts:317` says a run
  counts when "another live session answered". The room counts the authors of all ship modules, and
  modules outlive their sessions, so a run counts when the only other author has left.
- `SetupIdempotent` of `Homestead`: `buildState.ts:56` calls `setup()` idempotent. `loaded` is tested
  before the read is awaited and set after it; of two overlapping calls (`PalaceScene.tsx:1155`,
  `WorkshopPanel.tsx:28`) the second replaces what was built since the first finished.

Met while modelling; the models do what the code does, and their properties leave these cases out
or do not speak of them:

- *Characters.* `store.ts:59` calls the IndexedDB pointer authoritative. A migration that was
  overtaken by a commit of another tab puts the legacy pointer back over it, one that reads between
  the commit of a clear and its line 156 in another tab brings back what was cleared, and a clear
  cut off before that line leaves a legacy pointer that revives the old character. `openDb`
  has no `onblocked` handler, so an upgrade waits for other tabs to close.
- *First raid.* `raidReported` is set when the report is handed to the socket. A report lost in a
  drop, or one the ledger failed on, is never sent again, and a session joined afresh beneath the
  panel never reports.
- *Crafting.* When a long `tick` finishes a craft, the save in `completeCraft` (`economy.ts:316`) has
  the time of now and a queue to which the rest of that time has not been applied yet; a page that
  dies before the next save loses that rest. The models have no clock there.
- *Shutdown.* The exit code is that of the first caller; the same signal a second time kills the
  process before the store is closed; so does an error of the multiplayer listener while the rooms
  drain, which rejects the promise of `server.ts:116` before line 118 awaits it; a failed start
  has no grace timer. `closeAllConnections` does
  not end upgraded WebSockets, which are Colyseus' to close.
- *Feeds.* A name lookup outlives its request and its slot, so the slots do not bound lookups. Nor
  do they bound the connections to feeds that are open: `podcasts.ts:470-485` names no agent, and
  that of Node keeps a connection for a while after its feed was read to its end.
- *Phase 1.* A cancel may come after the publish, and the overlay then says that no pulse
  was sent. An attempt that settles after it was cancelled or superseded sets "failed". An
  activation the reducer ignored still shows its link. A signer that answers too late leaves
  "signer_pending" for good. A lens that comes right after a witness not rendered yet is dropped
  by the guard. The subscription stays open after witness and lens.

## 7. What is not modelled

Each component with status `not_modelled` in `PROJECT.json` has its reason there. In short:

- *Libraries nothing imports yet*: the napplet framework and the ownership verifier. The latter is
  also one recursive pass over data, which its unit tests cover.
- *One request, one answer*: napplet panels and zaps, Nostr and media reads, the world agent,
  the search and health endpoints.
- *Data*: catalogues, habitats, shared types, the wire protocol's parsers and limits (here a message
  is well-formed or malformed and a limit a constant), the asset pipeline.
- *Rendering*: `PalaceScene`, `GameFrontend`, `StreetWorld`, `Plaza` and the other scenes are most of
  the repository's lines. Their effects, refs and callbacks that touch the modelled state are
  modelled where they do it (Phase 1 wiring, start and selector, first-raid panel); what they draw
  is not, so the map stays far from covering the repository by lines.
- *The Godot client*: the prototype the web builder was ported from.

Within the modelled components: canonical JSON and SHA-256 (the digest is injective), validation of
stored values, the read-only queries of the audit store, join options and names, which material is
which and the processing of one into another, the floors of demo builds, the palace blueprint
(exported and unused), the transport's movement sampling, corrections and light, and delays; in
Phase 1 attentive presence, handoff, lifecycle gate and workbench (whose gate is always false in
the scene). The total the transport is shown is that of one server, which does not go back
(`RaidLedger`); two servers live at once, one of them behind, are outside `RaidsNeverShrink`, since
nothing in the client would keep the larger number. The in-memory ledger is used by tests only. A page torn down between the two saves of
one change is outside `PartsAgree`: the streams share no transaction, and nothing in the repository
promises that they agree then.

## 8. The plan

Done: the ledger, the room, its limits, the saves, the homestead, the transport and the
matchmaking guard; the characters and a visit; the feed proxy and the server's life; the Phase 1
relay; the first raid over transport and room; and the proofs of section 5.

To prove next, the most consequential first:

1. `Homestead`: what overlapping calls of `setup()` still keep, so that the hypothesis
   `[]SetupsTakeTurns` is left only where the code needs it.
2. Of the liveness properties the part that is an action property: that each step of a shutdown
   (`ServerProcess`) and of a write (`AuditedSave`) brings it nearer to its end, a measure that
   no step of anybody else raises. That it then ends remains with TLC.
3. `CharacterStore` and `Homestead` let a save land in order or be lost. That this is what
   `OrderedSaves` allows is argued in section 2 and could be a refinement.

To model, if the code grows that way: `PrismHost` and the ownership verifier once an application
imports them; the craft queue with its clock.
