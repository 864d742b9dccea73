------------------------------ MODULE TokenBuckets -----------------------------
(***************************************************************************)
(* TokenBucketRateLimiter (rateLimit.ts) as operators on its table: the    *)
(* Map of buckets in the order of their last use, the last timestamp and   *)
(* the time of the next pruning. A token is Window units, so that the      *)
(* refill of Limit tokens per Window is Limit units per unit of time.      *)
(***************************************************************************)
EXTENDS Integers, Sequences, FiniteSets

CONSTANTS
    Limit, Window,  \* limit, windowMs
    MaxEntries,
    Ttl             \* entryTtlMs

Full == Limit * Window

NewTable == [entries |-> <<>>, lastTimestamp |-> 0, nextPruneAt |-> 0]

Smaller(m, n) == IF m <= n THEN m ELSE n
Larger(m, n)  == IF m >= n THEN m ELSE n

\* #monotonicTimestamp
Timestamp(table, now) == Larger(table.lastTimestamp, now)

\* The entries #pruneIdleEntries deletes before it meets one that was used lately.
IdlePrefix(entries, now) ==
    {i \in DOMAIN entries : \A j \in 1..i : entries[j].lastSeenAt <= now - Ttl}

\* The first lines of consume: idle entries go when pruning is due or the table is full.
Pruned(table, now) ==
    IF now >= table.nextPruneAt \/ Len(table.entries) >= MaxEntries
    THEN [entries |-> SubSeq(table.entries, Cardinality(IdlePrefix(table.entries, now)) + 1,
                             Len(table.entries)),
          lastTimestamp |-> now,
          nextPruneAt   |-> now + Window]
    ELSE [table EXCEPT !.lastTimestamp = now]

Known(entries, key) == \E i \in DOMAIN entries : entries[i].key = key

\* #evictOldestIfFull, for a key that is not in the table.
Evicted(entries) == IF Len(entries) >= MaxEntries THEN Tail(entries) ELSE entries

\* A bug: the elapsed time is credited again at the next call.
RefilledAgain(entry, now) ==
    [entry EXCEPT !.tokens = Smaller(Full, @ + (now - entry.updatedAt) * Limit),
                  !.lastSeenAt = now]

Refilled(entry, now) ==
    [entry EXCEPT !.tokens = Smaller(Full, @ + (now - entry.updatedAt) * Limit),
                  !.updatedAt = now, !.lastSeenAt = now]

\* The place of a known key in the Map: there is one.
PlaceOf(entries, key) == CHOOSE i \in DOMAIN entries : entries[i].key = key

\* The bucket of key before its token is taken.
BucketOf(entries, key, now) ==
    IF Known(entries, key)
    THEN Refilled(entries[PlaceOf(entries, key)], now)
    ELSE [key |-> key, tokens |-> Full, updatedAt |-> now, lastSeenAt |-> now]

\* A bug: the bucket keeps its place in the Map.
ReinsertedInPlace(entries, bucket) ==
    IF Known(entries, bucket.key)
    THEN [i \in DOMAIN entries |-> IF entries[i].key = bucket.key THEN bucket ELSE entries[i]]
    ELSE Append(Evicted(entries), bucket)

\* The bucket goes to the end of the Map, where the latest are.
Reinserted(entries, bucket) ==
    IF Known(entries, bucket.key)
    THEN LET i == PlaceOf(entries, bucket.key) IN
         Append(SubSeq(entries, 1, i - 1) \o SubSeq(entries, i + 1, Len(entries)), bucket)
    ELSE Append(Evicted(entries), bucket)

\* consume: whether a request of key is allowed, and the table after it.
Consume(table, key, now) ==
    LET timestamp == Timestamp(table, now)
        pruned    == Pruned(table, timestamp)
        bucket    == BucketOf(pruned.entries, key, timestamp)
        allowed   == bucket.tokens >= Window
    IN  [allowed |-> allowed,
         table   |-> [pruned EXCEPT !.entries = Reinserted(@,
                        IF allowed THEN [bucket EXCEPT !.tokens = @ - Window] ELSE bucket)]]
===============================================================================
