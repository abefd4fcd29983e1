---------------------------- MODULE InProcessMemo ----------------------------
(***************************************************************************)
(* nimblecas::InProcessMemo, one table shared by several threads: shards   *)
(* with a mutex each, buckets addressed by (hi % shard_count, lo), and one *)
(* entry counter for all of them, an atomic read and bumped with relaxed   *)
(* order while only the mutex of ONE shard is held.                        *)
(*                                                                         *)
(* A relaxed load may return any value between the newest one the thread   *)
(* is ordered after and the current one.  seen and released record that    *)
(* lower bound: what a thread has read or written itself, and what the     *)
(* last holder of a shard's mutex passed on by unlocking it.  MemoStats    *)
(* counts what happened and decides nothing; it is left out.               *)
(***************************************************************************)
EXTENDS Naturals, Sequences, FiniteSetsExt

CONSTANTS
    Threads,
    Keys,           \* full keys: the bytes of encoded tasks
    Hi(_), Lo(_),   \* the two halves of a key's ContentKey
    Values,
    Oversize(_),    \* value.size() > max_value_bytes_
    MaxEntries,     \* max_entries_
    ShardCount,     \* the constructor's argument
    MaxCalls        \* bound: calls made

NumShards == IF ShardCount = 0 THEN 1 ELSE ShardCount
Shards == 0 .. NumShards - 1

ASSUME MemoAssumption ==
    /\ MaxEntries \in Nat /\ ShardCount \in Nat /\ MaxCalls \in Nat
    /\ IsFiniteSet(Threads) /\ Threads # {}
    /\ \A k \in Keys : Hi(k) \in Nat

VARIABLES
    buckets,   \* shard -> lo -> sequence of entries
    total,     \* total_entries_
    op,        \* thread -> the insertion it is about to make, or Idle
    seen,      \* thread -> lower bound of what it may read of total
    released,  \* shard -> the same, for whoever locks it next
    answer,    \* what the latest lookup returned: {} or {<<key, value>>}
    calls      \* calls made so far, for the bound

vars == <<buckets, total, op, seen, released, answer, calls>>

Idle == <<>>
ShardOf(k) == Hi(k) % NumShards
Busy(s) == \E t \in Threads : op[t] # Idle /\ ShardOf(op[t].key) = s
Inserting == {t \in Threads : op[t] # Idle}

Bucket(k) == IF Lo(k) \in DOMAIN buckets[ShardOf(k)]
             THEN buckets[ShardOf(k)][Lo(k)] ELSE <<>>

\* Mutant of Matching: the lo half of the fingerprint is enough.
MatchingBucket(k) == DOMAIN Bucket(k)

\* Positions of the entries that hold k, byte for byte.
Matching(k) == {i \in DOMAIN Bucket(k) : Bucket(k)[i].key = k}

\* The scan of a bucket returns the first of them.
First(k) == Min(Matching(k))

AtLeast(a, b) == IF a < b THEN b ELSE a

-----------------------------------------------------------------------------
Init ==
    /\ buckets = [s \in Shards |-> [lo \in {} |-> <<>>]]
    /\ total = 0
    /\ op = [t \in Threads |-> Idle]
    /\ seen = [t \in Threads |-> 0] /\ released = [s \in Shards |-> 0]
    /\ answer = {} /\ calls = 0

\* What thread t is ordered after once it holds the mutex of k's shard.
Ordered(t, k) == AtLeast(seen[t], released[ShardOf(k)])

\* lookup runs under the shard's mutex from end to end.
Lookup(t, k) ==
    /\ op[t] = Idle /\ ~Busy(ShardOf(k))
    /\ calls < MaxCalls /\ calls' = calls + 1
    /\ answer' = IF Matching(k) = {} THEN {} ELSE {<<k, Bucket(k)[First(k)].value>>}
    /\ seen' = [seen EXCEPT ![t] = Ordered(t, k)]
    /\ released' = [released EXCEPT ![ShardOf(k)] = Ordered(t, k)]
    /\ UNCHANGED <<buckets, total, op>>

\* publish, up to the capacity check.  A key that is there is left as it is
\* (first writer wins); an oversize value or a full table is refused; else the
\* thread goes on to insert, still holding the shard's mutex.
Publish(t, k, v) ==
    /\ op[t] = Idle /\ ~Busy(ShardOf(k))
    /\ calls < MaxCalls /\ calls' = calls + 1
    /\ IF Matching(k) # {}
       THEN /\ seen' = [seen EXCEPT ![t] = Ordered(t, k)]
            /\ released' = [released EXCEPT ![ShardOf(k)] = Ordered(t, k)]
            /\ UNCHANGED op
       ELSE \E x \in Ordered(t, k) .. total :
            /\ seen' = [seen EXCEPT ![t] = x]
            /\ IF Oversize(v) \/ x >= MaxEntries
               THEN released' = [released EXCEPT ![ShardOf(k)] = x] /\ UNCHANGED op
               ELSE op' = [op EXCEPT ![t] = [key |-> k, value |-> v]]
                    /\ UNCHANGED released
    /\ UNCHANGED <<buckets, total, answer>>

\* Mutant of Insert: the mutex is released before the counter is bumped, so
\* the next holder of the shard is not ordered after the increment.
InsertUnordered(t) ==
    /\ op[t] # Idle
    /\ LET k == op[t].key
           s == ShardOf(k)
       IN  /\ buckets' = [buckets EXCEPT ![s] =
                [lo \in DOMAIN @ \cup {Lo(k)} |->
                    IF lo = Lo(k) THEN Append(Bucket(k), op[t]) ELSE @[lo]]]
           /\ released' = released
    /\ total' = total + 1
    /\ seen' = [seen EXCEPT ![t] = total + 1]
    /\ op' = [op EXCEPT ![t] = Idle]
    /\ UNCHANGED <<answer, calls>>

\* The entry is built first, so no empty bucket is ever left behind.
Insert(t) ==
    /\ op[t] # Idle
    /\ LET k == op[t].key
           s == ShardOf(k)
       IN  /\ buckets' = [buckets EXCEPT ![s] =
                [lo \in DOMAIN @ \cup {Lo(k)} |->
                    IF lo = Lo(k) THEN Append(Bucket(k), op[t]) ELSE @[lo]]]
           /\ released' = [released EXCEPT ![s] = total + 1]
    /\ total' = total + 1
    /\ seen' = [seen EXCEPT ![t] = total + 1]
    /\ op' = [op EXCEPT ![t] = Idle]
    /\ UNCHANGED <<answer, calls>>

Done == calls = MaxCalls /\ Inserting = {} /\ UNCHANGED vars

Next ==
    \/ \E t \in Threads :
          \/ \E k \in Keys : Lookup(t, k) \/ \E v \in Values : Publish(t, k, v)
          \/ Insert(t)
    \/ Done

Spec == Init /\ [][Next]_vars

-----------------------------------------------------------------------------
(* Properties *)

Stored == {k \in Keys : Matching(k) # {}}

\* The sharded table is one immutable first-writer-wins table, and a lookup
\* answers with the bytes' own value whatever their fingerprints share.
Table == INSTANCE MemoTable WITH
    table <- [k \in Stored |-> Bucket(k)[First(k)].value]

IsMemoTable == Table!Spec

\* The entry bound is advisory: checked under one shard's mutex, it can be
\* overrun, but by at most one entry for every further shard or thread.
Lesser(a, b) == IF a < b THEN a ELSE b
BoundedOvershoot ==
    total + Cardinality(Inserting) <=
        MaxEntries + Lesser(NumShards, Cardinality(Threads)) - 1

=============================================================================
