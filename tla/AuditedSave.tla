----------------------------- MODULE AuditedSave ------------------------------
(***************************************************************************)
(* Saving in the browser: writeAuditedKey (builder/store.ts) over          *)
(* commitAuditedWrite (audit/indexedDbAudit.ts), for one key and its audit *)
(* stream. A tab chains its writes on a promise per stream; the writes of  *)
(* several tabs interleave at every await. A read-write transaction is one *)
(* step: IndexedDB runs transactions over the same stores one at a time.   *)
(***************************************************************************)
EXTENDS Integers

CONSTANTS
    Tab,         \* open tabs of one browser profile
    MaxSaves,    \* bound: snapshots taken by a tab
    MaxAttempts, \* three
    NoHash, NoData

ASSUME SaveAssumption ==
    /\ MaxSaves \in Nat
    /\ MaxAttempts \in Nat \ {0}

\* A write is the n-th call of writeAuditedKey in its tab; its payload is the snapshot then.
Write == Tab \X (1..MaxSaves)

ASSUME NoDataIsNoWrite == NoData \notin Write

\* readHead gives null for a stream without events; revisions start at 1.
NoHead == [revision |-> 0, hash |-> NoHash]

VARIABLES
    data,      \* the value stored under the key
    events,    \* the audit events, keyed by revision (their id)
    head,      \* the row of audit-heads, or NoHead
    taken,     \* taken[t]: calls of writeAuditedKey so far
    tail,      \* tail[t]: the write in writeQueues, 0 for none
    after,     \* after[w]: the write of its tab w waits for, 0 for none
    pc,        \* pc[w]: where the write stands
    attempt,   \* attempt[w]
    expected,  \* expected[w]: the head readHead returned to w
    base       \* base[w]: revisions stored when w began (history)

store == <<data, events, head>>
vars == <<data, events, head, taken, tail, after, pc, attempt, expected, base>>

Init ==
    /\ data = NoData
    /\ events = [r \in {} |-> NoHash]
    /\ head = NoHead
    /\ taken = [t \in Tab |-> 0]
    /\ tail = [t \in Tab |-> 0]
    /\ after = [w \in Write |-> 0]
    /\ pc = [w \in Write |-> "new"]
    /\ attempt = [w \in Write |-> 1]
    /\ expected = [w \in Write |-> NoHead]
    /\ base = [w \in Write |-> 0]
-----------------------------------------------------------------------------
\* writeAuditedKey up to its return: the write is chained behind the tail of its stream.
Save(t) ==
    LET n == taken[t] + 1 IN
    /\ taken[t] < MaxSaves
    /\ taken' = [taken EXCEPT ![t] = n]
    /\ after' = [after EXCEPT ![<<t, n>>] = tail[t]]
    /\ pc' = [pc EXCEPT ![<<t, n>>] = "queued"]
    /\ tail' = [tail EXCEPT ![t] = n]
    /\ UNCHANGED <<store, attempt, expected, base>>

\* The previous promise has settled, if there was one, and the database opens.
Begin(t, n) ==
    LET w == <<t, n>> IN
    /\ pc[w] = "queued"
    /\ after[w] # 0 => pc[<<t, after[w]>>] = "settled"
    /\ pc' = [pc EXCEPT ![w] = "readHead"]
    /\ base' = [base EXCEPT ![w] = head.revision]
    /\ UNCHANGED <<store, taken, tail, after, attempt, expected>>

\* readHead in a transaction of its own; createAuditEvent then hashes, which takes a while.
ReadHead(t, n) ==
    LET w == <<t, n>> IN
    /\ pc[w] = "readHead"
    /\ expected' = [expected EXCEPT ![w] = head]
    /\ pc' = [pc EXCEPT ![w] = "commit"]
    /\ UNCHANGED <<store, taken, tail, after, attempt, base>>

\* sha256 of the canonical event, an injection
ContentHash(revision, prevHash, payload) == <<revision, prevHash, payload>>

\* createAuditEvent on the head w has read.
Event(w) ==
    LET revision == expected[w].revision + 1
        prevHash == expected[w].hash
    IN  [revision |-> revision,
         payload  |-> w,
         prevHash |-> prevHash,
         hash     |-> ContentHash(revision, prevHash, w)]

\* A bug: the head keeps the hash of the event before.
PutHeadLate(event) == head' = [revision |-> event.revision, hash |-> event.prevHash]

\* The put into audit-heads.
PutHead(event) == head' = [revision |-> event.revision, hash |-> event.hash]

\* The transaction finds the head it expects: value, event and head are stored together.
Commit(t, n) ==
    LET w     == <<t, n>>
        event == Event(w)
    IN
    /\ pc[w] = "commit"
    /\ head = expected[w]
    /\ event.revision \notin DOMAIN events
    /\ data' = w
    /\ events' = [r \in DOMAIN events \union {event.revision} |->
                    IF r = event.revision THEN event ELSE events[r]]
    /\ PutHead(event)
    /\ pc' = [pc EXCEPT ![w] = "stored"]
    /\ UNCHANGED <<taken, tail, after, attempt, expected, base>>

\* A bug: the value is written before the head is compared, in a transaction of its own.
ConflictAfterPut(t, n) ==
    LET w == <<t, n>> IN
    /\ pc[w] = "commit"
    /\ head # expected[w]
    /\ data' = w
    /\ IF attempt[w] < MaxAttempts
       THEN /\ attempt' = [attempt EXCEPT ![w] = @ + 1]
            /\ pc' = [pc EXCEPT ![w] = "readHead"]
       ELSE /\ pc' = [pc EXCEPT ![w] = "conflict"]
            /\ UNCHANGED attempt
    /\ UNCHANGED <<events, head, taken, tail, after, expected, base>>

\* A bug: the retry keeps the head it read at first.
ConflictStale(t, n) ==
    LET w == <<t, n>> IN
    /\ pc[w] = "commit"
    /\ head # expected[w]
    /\ IF attempt[w] < MaxAttempts
       THEN /\ attempt' = [attempt EXCEPT ![w] = @ + 1]
            /\ UNCHANGED pc
       ELSE /\ pc' = [pc EXCEPT ![w] = "conflict"]
            /\ UNCHANGED attempt
    /\ UNCHANGED <<store, taken, tail, after, expected, base>>

\* A bug: one attempt too many.
ConflictOnceMore(t, n) ==
    LET w == <<t, n>> IN
    /\ pc[w] = "commit"
    /\ head # expected[w]
    /\ IF attempt[w] <= MaxAttempts
       THEN /\ attempt' = [attempt EXCEPT ![w] = @ + 1]
            /\ pc' = [pc EXCEPT ![w] = "readHead"]
       ELSE /\ pc' = [pc EXCEPT ![w] = "conflict"]
            /\ UNCHANGED attempt
    /\ UNCHANGED <<store, taken, tail, after, expected, base>>

\* The head has moved: the transaction is aborted and tried again, three times in all.
Conflict(t, n) ==
    LET w == <<t, n>> IN
    /\ pc[w] = "commit"
    /\ head # expected[w]
    /\ IF attempt[w] < MaxAttempts
       THEN /\ attempt' = [attempt EXCEPT ![w] = @ + 1]
            /\ pc' = [pc EXCEPT ![w] = "readHead"]
       ELSE /\ pc' = [pc EXCEPT ![w] = "conflict"]
            /\ UNCHANGED attempt
    /\ UNCHANGED <<store, taken, tail, after, expected, base>>

\* Anything else that goes wrong (the database does not open, the quota is exhausted)
\* aborts the transaction and is not tried again.
Fail(t, n) ==
    LET w == <<t, n>> IN
    /\ pc[w] \in {"readHead", "commit"}
    /\ pc' = [pc EXCEPT ![w] = "failed"]
    /\ UNCHANGED <<store, taken, tail, after, attempt, expected, base>>

\* The locals of the writes ws are gone.
Forget(ws) ==
    /\ pc' = [w \in Write |-> IF w \in ws THEN "settled" ELSE pc[w]]
    /\ after' = [w \in Write |-> IF w \in ws THEN 0 ELSE after[w]]
    /\ attempt' = [w \in Write |-> IF w \in ws THEN 1 ELSE attempt[w]]
    /\ expected' = [w \in Write |-> IF w \in ws THEN NoHead ELSE expected[w]]
    /\ base' = [w \in Write |-> IF w \in ws THEN 0 ELSE base[w]]

\* A bug: clean without comparing, so that a later write chains behind nothing.
SettleAll(t, n) ==
    /\ pc[<<t, n>>] \in {"stored", "conflict", "failed"}
    /\ Forget({<<t, n>>})
    /\ tail' = [tail EXCEPT ![t] = 0]
    /\ UNCHANGED <<store, taken>>

\* A bug: a failure is passed on, and what is chained behind it never runs.
SettleStored(t, n) ==
    /\ pc[<<t, n>>] = "stored"
    /\ Forget({<<t, n>>})
    /\ tail' = [tail EXCEPT ![t] = IF @ = n THEN 0 ELSE @]
    /\ UNCHANGED <<store, taken>>

\* Failures are swallowed: the promise settles, and clean forgets it if it is still the tail.
Settle(t, n) ==
    /\ pc[<<t, n>>] \in {"stored", "conflict", "failed"}
    /\ Forget({<<t, n>>})
    /\ tail' = [tail EXCEPT ![t] = IF @ = n THEN 0 ELSE @]
    /\ UNCHANGED <<store, taken>>

\* The tab is closed or reloaded: its writes are gone, whatever they had not committed.
Close(t) ==
    /\ Forget({w \in Write : w[1] = t /\ pc[w] # "new"})
    /\ tail' = [tail EXCEPT ![t] = 0]
    /\ UNCHANGED <<store, taken>>

Work(t, n) ==
    \/ Begin(t, n) \/ ReadHead(t, n) \/ Commit(t, n) \/ Conflict(t, n) \/ Settle(t, n)

Next ==
    \E t \in Tab :
        \/ Save(t)
        \/ Close(t)
        \/ \E n \in 1..MaxSaves : Work(t, n) \/ Fail(t, n)

\* A browser runs what an open tab has scheduled.
Fairness == \A t \in Tab, n \in 1..MaxSaves : WF_vars(Work(t, n))

Spec == Init /\ [][Next]_vars /\ Fairness
-----------------------------------------------------------------------------
PC == {"new", "queued", "readHead", "commit", "stored", "conflict", "failed", "settled"}

\* Type invariant of the store and the writes.
TypeOK ==
    /\ data \in Write \union {NoData}
    /\ head.revision \in Nat
    /\ DOMAIN events = 1..head.revision
    /\ \A r \in DOMAIN events : events[r].payload \in Write
    /\ taken \in [Tab -> 0..MaxSaves]
    /\ tail \in [Tab -> 0..MaxSaves]
    /\ after \in [Write -> 0..MaxSaves]
    /\ pc \in [Write -> PC]
    /\ attempt \in [Write -> 1..MaxAttempts]
    /\ DOMAIN expected = Write
    /\ \A w \in Write : expected[w].revision \in Nat
    /\ base \in [Write -> Nat]

\* verifyAuditChain never finds a fault, whichever tabs write: every event links to the one
\* before, and the head is the last event.
ChainVerifies ==
    /\ \A r \in DOMAIN events :
         LET event == events[r] IN
         /\ event.revision = r
         /\ event.prevHash = IF r = 1 THEN NoHash ELSE events[r - 1].hash
         /\ event.hash = ContentHash(event.revision, event.prevHash, event.payload)
    /\ head.hash = IF head.revision = 0 THEN NoHash ELSE events[head.revision].hash

\* The stored value is the one the newest audit event tells of: the two are never apart,
\* although writes are retried, fail and are cut off anywhere.
DataMatchesAudit ==
    data = IF head.revision = 0 THEN NoData ELSE events[head.revision].payload

\* Value and history are one, and the history verifies.
StoreIsAudited == ChainVerifies /\ DataMatchesAudit

\* A snapshot is given up as a conflict only after MaxAttempts foreign writes beat it.
GivenUpForCause ==
    \A w \in Write :
        /\ pc[w] \in {"readHead", "commit"} => head.revision >= base[w] + attempt[w] - 1
        /\ pc[w] = "conflict" => head.revision >= base[w] + MaxAttempts

\* No write waits for ever, whatever happens to the ones before it.
WritesSettle == \A w \in Write : pc[w] = "queued" ~> pc[w] = "settled"

Log == [r \in 1..head.revision |-> events[r].payload]

OS == INSTANCE OrderedSaves WITH log <- Log, asked <- taken

\* store.ts:93: call order is preserved, without the queue "an older snapshot could win a
\* retry after a newer one".
ImplementsOrderedSaves == OS!Spec
===============================================================================
