------------------------------ MODULE RaidLedger ------------------------------
(***************************************************************************)
(* The durable count of completed raid runs: AuditRaidLedger               *)
(* (raidLedger.ts) over the `street:raids` stream of the SQLite audit      *)
(* store (auditStore.ts).                                                  *)
(*                                                                         *)
(* A Process is anything holding a connection to the database file: the    *)
(* palace server, the next server of a rolling restart, operator tooling.  *)
(* Within one process getHead and append run back to back, but they are    *)
(* two SQLite statements, and other processes commit between them.         *)
(***************************************************************************)
EXTENDS Integers

CONSTANTS
    Process,    \* processes sharing the database file
    Run,        \* completed raid runs (the session that claims one)
    Time,       \* values of the wall clock, which may jump either way
    Seed,       \* the configured demo seed
    NoHash, NoRun

ASSUME LedgerAssumption ==
    /\ Seed \in Nat
    /\ NoRun \notin Run

\* getHead returns null for a stream without events.
NoHead == [revision |-> -1, hash |-> NoHash]

\* LATEST_SCHEMA_VERSION
LatestSchema == 1

VARIABLES
    head,        \* the row of audit_streams, or NoHead
    events,      \* audit_events: a table keyed by revision
    schema,      \* the newest version in audit_schema_migrations
    migrations,  \* how often MIGRATION_1 was executed (history)
    pc,          \* pc[p]: where process p stands in opening or in record()
    attempt,     \* attempt[p]: 1, or 2 after the one retry
    seen,        \* seen[p]: the head getHead returned to p
    run,         \* run[p]: the run p is recording
    base,        \* base[p]: events stored when p entered record() (history)
    counted,     \* runs whose session already has raidCounted set
    total        \* total[p]: the completedRaids p's room shows, 0 before its first room

store == <<head, events, schema, migrations>>
local == <<pc, attempt, seen, run, base, counted, total>>
vars == <<head, events, schema, migrations, pc, attempt, seen, run, base, counted, total>>

Count == IF head = NoHead THEN 0 ELSE head.revision + 1

\* computeAuditContentHash: a collision-free digest is the content it digests.
ContentHash(revision, prevHash, payload, timestamp) ==
    <<revision, prevHash, payload, timestamp>>

NextRevision(h) == IF h = NoHead THEN 0 ELSE h.revision + 1
HeadHash(h)     == IF h = NoHead THEN NoHash ELSE h.hash

Init ==
    /\ head = NoHead
    /\ events = [r \in {} |-> NoHash]
    /\ schema \in 0..LatestSchema + 1
    /\ migrations = 0
    /\ pc = [p \in Process |-> "down"]
    /\ attempt = [p \in Process |-> 1]
    /\ seen = [p \in Process |-> NoHead]
    /\ run = [p \in Process |-> NoRun]
    /\ base = [p \in Process |-> 0]
    /\ counted = {}
    /\ total = [p \in Process |-> 0]
-----------------------------------------------------------------------------
\* The process opens the file and reads the stored version outside any transaction; a
\* database of a newer release is refused.
Open(p) ==
    /\ pc[p] = "down"
    /\ schema <= LatestSchema
    /\ pc' = [pc EXCEPT ![p] = "migrate"]
    /\ UNCHANGED <<store, attempt, seen, run, base, counted, total>>

OpenRefused(p) ==
    /\ pc[p] = "down"
    /\ schema > LatestSchema
    /\ pc' = [pc EXCEPT ![p] = "refused"]
    /\ UNCHANGED <<store, attempt, seen, run, base, counted, total>>

\* A bug: #migrate trusting the version it read before the transaction
MigrateUnchecked(p) ==
    /\ pc[p] = "migrate"
    /\ schema' = 1 /\ migrations' = migrations + 1
    /\ pc' = [pc EXCEPT ![p] = "open"]
    /\ UNCHANGED <<head, events, attempt, seen, run, base, counted, total>>

\* The immediate transaction of #migrate looks again before it creates the tables.
Migrate(p) ==
    /\ pc[p] = "migrate"
    /\ IF schema = 0
       THEN schema' = 1 /\ migrations' = migrations + 1
       ELSE UNCHANGED <<schema, migrations>>
    /\ pc' = [pc EXCEPT ![p] = "open"]
    /\ UNCHANGED <<head, events, attempt, seen, run, base, counted, total>>

\* PalaceRoom.onCreate publishes ledger.total().
CreateRoom(p) ==
    /\ pc[p] \in {"open", "idle"}
    /\ total' = [total EXCEPT ![p] = Seed + Count]
    /\ pc' = [pc EXCEPT ![p] = "idle"]
    /\ UNCHANGED <<store, attempt, seen, run, base, counted>>

\* A verified claim: raidCounted is set first, then record() is entered.
Record(p, r) ==
    /\ pc[p] = "idle"
    /\ r \notin counted
    /\ counted' = counted \union {r}
    /\ run' = [run EXCEPT ![p] = r]
    /\ attempt' = [attempt EXCEPT ![p] = 1]
    /\ base' = [base EXCEPT ![p] = Count]
    /\ pc' = [pc EXCEPT ![p] = "getHead"]
    /\ UNCHANGED <<store, seen, total>>

GetHead(p) ==
    /\ pc[p] = "getHead"
    /\ seen' = [seen EXCEPT ![p] = head]
    /\ pc' = [pc EXCEPT ![p] = "append"]
    /\ UNCHANGED <<store, attempt, run, base, counted, total>>

\* A bug: an upsert instead of a compare-and-swap
AppendableAlways(revision, prevHash, contentHash) == TRUE

\* #assertExpectedHead on the head as it is inside the transaction, and the primary key and
\* UNIQUE (content_hash) of audit_events.
Appendable(revision, prevHash, contentHash) ==
    /\ revision = NextRevision(head)
    /\ prevHash = HeadHash(head)
    /\ revision \notin DOMAIN events
    /\ \A k \in DOMAIN events : events[k].contentHash # contentHash

\* INSERT INTO audit_events
InsertEvent(revision, prevHash, payload, timestamp) ==
    events' = [k \in DOMAIN events \union {revision} |->
                 IF k \in DOMAIN events THEN events[k]
                 ELSE [revision    |-> revision,
                       prevHash    |-> prevHash,
                       payload     |-> payload,
                       timestamp   |-> timestamp,
                       contentHash |-> ContentHash(revision, prevHash, payload, timestamp)]]

\* A bug: UPDATE audit_streams without head_hash
MoveHeadStaleHash(revision, contentHash, timestamp) ==
    head' = [revision  |-> revision,
             hash      |-> IF head = NoHead THEN contentHash ELSE head.hash,
             createdAt |-> IF head = NoHead THEN timestamp ELSE head.createdAt,
             updatedAt |-> timestamp]

\* INSERT INTO audit_streams for the first event, UPDATE ... WHERE for the others.
MoveHead(revision, contentHash, timestamp) ==
    head' = [revision  |-> revision,
             hash      |-> contentHash,
             createdAt |-> IF head = NoHead THEN timestamp ELSE head.createdAt,
             updatedAt |-> timestamp]

\* The immediate transaction commits: stream row and event row together.
AppendCommit(p, t) ==
    LET revision == NextRevision(seen[p])
        prevHash == HeadHash(seen[p])
        hash     == ContentHash(revision, prevHash, run[p], t)
    IN
    /\ pc[p] = "append"
    /\ Appendable(revision, prevHash, hash)
    /\ InsertEvent(revision, prevHash, run[p], t)
    /\ MoveHead(revision, hash, t)
    /\ seen' = [seen EXCEPT ![p] = head']
    /\ pc' = [pc EXCEPT ![p] = "return"]
    /\ UNCHANGED <<schema, migrations, attempt, run, base, counted, total>>

\* A bug: retry as long as it conflicts
AppendConflictUnbounded(p, t) ==
    LET revision == NextRevision(seen[p])
        prevHash == HeadHash(seen[p])
    IN
    /\ pc[p] = "append"
    /\ ~Appendable(revision, prevHash, ContentHash(revision, prevHash, run[p], t))
    /\ pc' = [pc EXCEPT ![p] = "getHead"]
    /\ attempt' = [attempt EXCEPT ![p] = @ + 1]
    /\ UNCHANGED <<store, seen, run, base, counted, total>>

\* A bug: retry on the head that was read before the conflict
AppendConflictStale(p, t) ==
    LET revision == NextRevision(seen[p])
        prevHash == HeadHash(seen[p])
    IN
    /\ pc[p] = "append"
    /\ ~Appendable(revision, prevHash, ContentHash(revision, prevHash, run[p], t))
    /\ IF attempt[p] = 1
       THEN /\ attempt' = [attempt EXCEPT ![p] = 2]
            /\ UNCHANGED pc
       ELSE /\ pc' = [pc EXCEPT ![p] = "conflict"]
            /\ UNCHANGED attempt
    /\ UNCHANGED <<store, seen, run, base, counted, total>>

\* The transaction finds another head: AuditConflictError, nothing is stored. record()
\* starts over once, the second conflict reaches the room.
AppendConflict(p, t) ==
    LET revision == NextRevision(seen[p])
        prevHash == HeadHash(seen[p])
    IN
    /\ pc[p] = "append"
    /\ ~Appendable(revision, prevHash, ContentHash(revision, prevHash, run[p], t))
    /\ IF attempt[p] = 1
       THEN /\ pc' = [pc EXCEPT ![p] = "getHead"]
            /\ attempt' = [attempt EXCEPT ![p] = 2]
       ELSE /\ pc' = [pc EXCEPT ![p] = "conflict"]
            /\ UNCHANGED attempt
    /\ UNCHANGED <<store, seen, run, base, counted, total>>

\* Any other failure (busy for five seconds, a full disk) rolls the transaction back and is
\* not retried.
AppendError(p) ==
    /\ pc[p] \in {"getHead", "append"}
    /\ pc' = [pc EXCEPT ![p] = "error"]
    /\ UNCHANGED <<store, attempt, seen, run, base, counted, total>>

\* record() is left: its locals are gone.
Leave(p, to) ==
    /\ pc' = [pc EXCEPT ![p] = to]
    /\ attempt' = [attempt EXCEPT ![p] = 1]
    /\ seen' = [seen EXCEPT ![p] = NoHead]
    /\ run' = [run EXCEPT ![p] = NoRun]
    /\ base' = [base EXCEPT ![p] = 0]

\* record() returns seed + event.revision + 1 and the room publishes it.
Return(p) ==
    /\ pc[p] = "return"
    /\ total' = [total EXCEPT ![p] = Seed + NextRevision(seen[p])]
    /\ Leave(p, "idle")
    /\ UNCHANGED <<store, counted>>

\* A bug: the catch block advancing the world total all the same
ThrowMints(p) ==
    /\ pc[p] \in {"conflict", "error"}
    /\ total' = [total EXCEPT ![p] = @ + 1]
    /\ Leave(p, "idle")
    /\ UNCHANGED <<store, counted>>

\* record() threw: the room logs it, the run stays counted and the total is left alone.
Throw(p) ==
    /\ pc[p] \in {"conflict", "error"}
    /\ Leave(p, "idle")
    /\ UNCHANGED <<store, counted, total>>

\* The process dies anywhere; a committed transaction is durable (WAL, synchronous=FULL).
\* What the room last showed is kept as what players have seen.
Crash(p) ==
    /\ pc[p] # "down"
    /\ Leave(p, "down")
    /\ UNCHANGED <<store, counted, total>>

Step(p) ==
    \/ Open(p) \/ OpenRefused(p) \/ Migrate(p) \/ CreateRoom(p)
    \/ \E r \in Run : Record(p, r)
    \/ GetHead(p)
    \/ \E t \in Time : AppendCommit(p, t)
    \/ \E t \in Time : AppendConflict(p, t)
    \/ AppendError(p) \/ Return(p) \/ Throw(p) \/ Crash(p)

Next == \E p \in Process : Step(p)

Spec == Init /\ [][Next]_vars
-----------------------------------------------------------------------------
PC == {"down", "refused", "migrate", "open", "idle", "getHead", "append", "return",
       "conflict", "error"}

IsHead(h) ==
    /\ h.revision \in Nat
    /\ h.createdAt \in Time
    /\ h.updatedAt \in Time

\* Type invariant of the ledger: rows are keyed by revision, a process tries at most twice.
TypeOK ==
    /\ head # NoHead => IsHead(head)
    /\ DOMAIN events \subseteq Nat
    /\ \A k \in DOMAIN events : events[k].payload \in Run /\ events[k].timestamp \in Time
    /\ schema \in 0..LatestSchema + 1
    /\ migrations \in Nat
    /\ pc \in [Process -> PC]
    /\ attempt \in [Process -> 1..2]
    /\ DOMAIN seen = Process
    /\ \A p \in Process : seen[p] # NoHead => IsHead(seen[p])
    /\ run \in [Process -> Run \union {NoRun}]
    /\ base \in [Process -> Nat]
    /\ counted \subseteq Run
    /\ total \in [Process -> Nat]

\* verifyStream never reports a broken stream: revisions without a gap, each event linked to
\* the one before and hashing to its stored digest, and the materialized head equal to the
\* one derived from the rows.
StreamVerifies ==
    /\ DOMAIN events = 0..Count - 1
    /\ \A k \in DOMAIN events :
         LET e == events[k] IN
         /\ e.revision = k
         /\ e.prevHash = IF k = 0 THEN NoHash ELSE events[k - 1].contentHash
         /\ e.contentHash = ContentHash(e.revision, e.prevHash, e.payload, e.timestamp)
    /\ head # NoHead =>
         /\ head.hash = events[head.revision].contentHash
         /\ head.createdAt = events[0].timestamp
         /\ head.updatedAt = events[head.revision].timestamp

\* A run is dropped for a conflict only if other processes committed at least twice while it
\* was being recorded: the one retry of record() absorbs one foreign writer.
ConflictMeansTwoCommits ==
    \A p \in Process :
        /\ (pc[p] \in {"getHead", "append"} /\ attempt[p] = 2) => Count >= base[p] + 1
        /\ pc[p] = "conflict" => Count >= base[p] + 2

\* However many processes open a new database file at once, its tables are created once.
MigratedOnce == migrations <= 1

\* The stored stream is sound whatever the processes do to the file, and it misses a run only
\* where two others came between.
StoreIsSound == StreamVerifies /\ MigratedOnce /\ ConflictMeansTwoCommits

\* The audit log is append-only: stored rows stay as they are, and the head moves only
\* together with the one row it names.
AppendOnly ==
    [][/\ \A k \in DOMAIN events : k \in DOMAIN events' /\ events'[k] = events[k]
       /\ head' # head => /\ Count' = Count + 1
                          /\ DOMAIN events' = DOMAIN events \union {Count}]_vars
-----------------------------------------------------------------------------
\* The log a replay of the stream yields.
Log == [i \in 1..Count |-> events[i - 1].payload]

RC == INSTANCE RaidCount WITH log <- Log, shown <- total

\* The ledger keeps the promise of RaidCount: no run twice, totals honest and never going
\* back, across conflicts, errors and crashes.
ImplementsRaidCount == RC!Spec
===============================================================================
