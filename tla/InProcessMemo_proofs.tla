------------------------ MODULE InProcessMemo_proofs ------------------------
(***************************************************************************)
(* What the sharded memo keeps true for any number of threads, shards and  *)
(* entries, and any hash of the keys: it is one first-writer-wins table,   *)
(* and its capacity is overrun by a bounded number of entries.             *)
(***************************************************************************)
EXTENDS InProcessMemo, TLAPS, FiniteSetTheorems, WellFoundedInduction

Entry == [key : Keys, value : Values]

-----------------------------------------------------------------------------
(* The inductive invariant.                                                  *)

TypeOK ==
    /\ buckets = [s \in Shards |-> buckets[s]]
    /\ \A k \in Keys : Bucket(k) \in Seq(Entry)
    /\ op \in [Threads -> Entry \cup {Idle}]
    /\ total \in Nat
    /\ seen \in [Threads -> 0 .. total] /\ released \in [Shards -> 0 .. total]

\* A thread about to insert holds its shard's mutex, and its key is new.
MutexOK ==
    /\ \A t, u \in Inserting : ShardOf(op[t].key) = ShardOf(op[u].key) => t = u
    /\ \A t \in Inserting : Matching(op[t].key) = {}

\* Who has seen a full table never inserts again; nor does anyone in a shard
\* that passes such a count on.
LateThreads == {t \in Threads : seen[t] >= MaxEntries}
LateShards == {s \in Shards : released[s] >= MaxEntries}

CapacityOK ==
    /\ \A t \in Inserting : /\ seen[t] < MaxEntries
                            /\ released[ShardOf(op[t].key)] < MaxEntries
    /\ total >= MaxEntries =>
          /\ total + 1 <= MaxEntries + Cardinality(LateThreads)
          /\ total + 1 <= MaxEntries + Cardinality(LateShards)

MemoInv == TypeOK /\ MutexOK /\ CapacityOK

-----------------------------------------------------------------------------
(* Shards and buckets.                                                       *)

LEMMA ShardFacts ==
    /\ NumShards \in Nat \ {0}
    /\ \A k \in Keys : ShardOf(k) \in Shards
    /\ IsFiniteSet(Shards) /\ Cardinality(Shards) = NumShards
<1>1. NumShards \in Nat \ {0}
      BY MemoAssumption DEF NumShards
<1>2. ASSUME NEW k \in Keys
      PROVE  ShardOf(k) \in Shards
  <2>1. \A h \in Nat, n \in Nat \ {0} : h % n \in 0 .. n - 1
        OBVIOUS
  <2> QED BY <1>1, <2>1, MemoAssumption DEF ShardOf, Shards
<1>3. IsFiniteSet(Shards) /\ Cardinality(Shards) = NumShards
  <2>1. IsFiniteSet(0 .. NumShards - 1)
        /\ Cardinality(0 .. NumShards - 1) = NumShards
        BY <1>1, FS_Interval
  <2> QED BY <2>1 DEF Shards
<1> QED BY <1>1, <1>2, <1>3

\* A non-empty set of naturals has a least element.
LEMMA LeastNat ==
    ASSUME NEW T \in SUBSET Nat, T # {}
    PROVE  \E m \in T : \A n \in T : m <= n
<1>1. PICK m \in T : \A n \in T : <<n, m>> \notin OpToRel(<, Nat)
      BY NatLessThanWellFounded, WFMin, Zenon
<1>2. \A n \in T : ~(n < m)
      BY <1>1 DEF OpToRel
<1> QED BY <1>2

\* The scan of a bucket that holds k returns a position that holds k.
LEMMA FirstMatches ==
    ASSUME TypeOK, NEW k \in Keys, Matching(k) # {}
    PROVE  /\ First(k) \in Matching(k)
           /\ \A j \in Matching(k) : First(k) <= j
           /\ Bucket(k)[First(k)] \in Entry /\ Bucket(k)[First(k)].key = k
<1>1. Matching(k) \in SUBSET Nat /\ DOMAIN Bucket(k) = 1 .. Len(Bucket(k))
      BY DEF Matching, TypeOK
<1>2. \E i \in Matching(k) : \A j \in Matching(k) : i <= j
      BY <1>1, LeastNat
<1>3. First(k) \in Matching(k) /\ \A j \in Matching(k) : First(k) <= j
      BY <1>2 DEF First, Min
<1>4. Bucket(k)[First(k)] \in Entry /\ Bucket(k)[First(k)].key = k
      BY <1>3 DEF Matching, TypeOK
<1> QED BY <1>3, <1>4

\* Before an insertion the key is nowhere; after it, its bucket has one entry
\* more, the thread's own, and no other bucket has changed.
LEMMA InsertBuckets ==
    ASSUME MemoInv, NEW t \in Threads, Insert(t)
    PROVE  /\ op[t] \in Entry
           /\ Matching(op[t].key) = {}
           /\ buckets' = [s \in Shards |-> buckets'[s]]
           /\ \A j \in Keys : Bucket(j)' =
                IF ShardOf(j) = ShardOf(op[t].key) /\ Lo(j) = Lo(op[t].key)
                THEN Append(Bucket(j), op[t]) ELSE Bucket(j)
<1> DEFINE e == op[t]
           k == op[t].key
           s == ShardOf(k)
           b == [lo \in DOMAIN buckets[s] \cup {Lo(k)} |->
                    IF lo = Lo(k) THEN Append(Bucket(k), e) ELSE buckets[s][lo]]
<1>1. e \in Entry /\ k \in Keys /\ Matching(k) = {}
      BY DEF MemoInv, TypeOK, MutexOK, Insert, Inserting, Entry
<1>2. s \in Shards
      BY <1>1, ShardFacts
<1>3. buckets' = [buckets EXCEPT ![s] = b]
      BY DEF Insert
<1> HIDE DEF b
<1>4. buckets' = [x \in Shards |-> IF x = s THEN b ELSE buckets[x]]
      BY <1>2, <1>3 DEF MemoInv, TypeOK
<1>5. ASSUME NEW j \in Keys
      PROVE  Bucket(j)' = IF ShardOf(j) = s /\ Lo(j) = Lo(k)
                          THEN Append(Bucket(j), e) ELSE Bucket(j)
  <2>1. ShardOf(j) \in Shards
        BY ShardFacts
  <2>2. CASE ShardOf(j) # s
    <3>1. buckets'[ShardOf(j)] = buckets[ShardOf(j)]
          BY <1>4, <2>1, <2>2
    <3> QED BY <2>2, <3>1 DEF Bucket
  <2>3. CASE ShardOf(j) = s
    <3>1. buckets'[ShardOf(j)] = b
          BY <1>4, <2>1, <2>3
    <3>2. CASE Lo(j) = Lo(k)
      <4>1. Bucket(j) = Bucket(k)
            BY <2>3, <3>2 DEF Bucket
      <4> QED BY <2>3, <3>1, <3>2, <4>1 DEF Bucket, b
    <3>3. CASE Lo(j) # Lo(k)
          BY <2>3, <3>1, <3>3 DEF Bucket, b
    <3> QED BY <3>2, <3>3
  <2> QED BY <2>2, <2>3
<1>6. buckets' = [x \in Shards |-> buckets'[x]]
      BY <1>4
<1> QED BY <1>1, <1>5, <1>6

\* What that makes of the entries that hold a key.
LEMMA InsertMatches ==
    ASSUME MemoInv, NEW t \in Threads, Insert(t), NEW j \in Keys
    PROVE  /\ Bucket(j)' \in Seq(Entry)
           /\ j # op[t].key => /\ Matching(j)' = Matching(j)
                               /\ \A i \in Matching(j) : Bucket(j)'[i] = Bucket(j)[i]
           /\ j = op[t].key => \E n \in Nat : Matching(j)' = {n} /\ Bucket(j)'[n] = op[t]
<1> DEFINE e == op[t]
           B == Bucket(j)
<1>1. e \in Entry /\ Matching(e.key) = {} /\ B \in Seq(Entry)
      /\ Bucket(j)' = (IF ShardOf(j) = ShardOf(e.key) /\ Lo(j) = Lo(e.key)
                       THEN Append(B, e) ELSE B)
      BY InsertBuckets DEF MemoInv, TypeOK
<1>2. Matching(j) = {i \in DOMAIN B : B[i].key = j}
      /\ Matching(j)' = {i \in DOMAIN (Bucket(j)') : Bucket(j)'[i].key = j}
      BY DEF Matching
<1> HIDE DEF B, e
<1>3. CASE Bucket(j)' = B /\ j # e.key
      BY <1>1, <1>2, <1>3 DEF e, B
<1>4. CASE Bucket(j)' = Append(B, e)
  <2>1. /\ Append(B, e) \in Seq(Entry) /\ DOMAIN Append(B, e) = 1 .. Len(B) + 1
        /\ DOMAIN B = 1 .. Len(B) /\ Len(B) \in Nat
        /\ \A i \in 1 .. Len(B) : Append(B, e)[i] = B[i]
        /\ Append(B, e)[Len(B) + 1] = e
        BY <1>1
  <2>2. CASE j # e.key
        BY <1>2, <1>4, <2>1, <2>2 DEF e, B
  <2>3. CASE j = e.key
    <3>1. \A i \in DOMAIN B : B[i].key # j
          BY <1>1, <1>2, <2>3
    <3>2. Matching(j)' = {Len(B) + 1}
          BY <1>2, <1>4, <2>1, <2>3, <3>1
    <3>3. Len(B) + 1 \in Nat /\ Bucket(j)'[Len(B) + 1] = e
          BY <1>4, <2>1
    <3>4. Bucket(j)' \in Seq(Entry)
          BY <1>4, <2>1
    <3> QED BY <2>3, <3>2, <3>3, <3>4 DEF e
  <2> QED BY <2>2, <2>3 DEF e
<1> QED BY <1>1, <1>3, <1>4 DEF e

-----------------------------------------------------------------------------
(* The invariant is inductive.                                               *)

LEMMA LateFacts ==
    /\ IsFiniteSet(LateThreads) /\ Cardinality(LateThreads) \in Nat
    /\ IsFiniteSet(LateShards) /\ Cardinality(LateShards) \in Nat
<1>1. LateThreads \in SUBSET Threads /\ LateShards \in SUBSET Shards
      BY DEF LateThreads, LateShards
<1>2. IsFiniteSet(Threads) /\ IsFiniteSet(Shards)
      BY MemoAssumption, ShardFacts
<1>3. IsFiniteSet(LateThreads) /\ IsFiniteSet(LateShards)
      BY <1>1, <1>2, FS_Subset
<1> QED BY <1>3, FS_CardinalityType

\* A step that inserts nothing only lets threads and shards see more.
Looking(t, s, x) ==
    /\ x \in Nat /\ seen[t] <= x /\ released[s] <= x /\ x <= total
    /\ seen' = [seen EXCEPT ![t] = x]
    /\ released' \in {released, [released EXCEPT ![s] = x]}
    /\ UNCHANGED <<buckets, total>>

LEMMA LookingKeeps ==
    ASSUME MemoInv, NEW t \in Threads, NEW s \in Shards, NEW x, Looking(t, s, x)
    PROVE  /\ seen' \in [Threads -> 0 .. total'] /\ released' \in [Shards -> 0 .. total']
           /\ \A u \in Threads : u # t => seen'[u] = seen[u]
           /\ \A r \in Shards : r # s => released'[r] = released[r]
           /\ total' >= MaxEntries =>
                 /\ total' + 1 <= MaxEntries + Cardinality(LateThreads')
                 /\ total' + 1 <= MaxEntries + Cardinality(LateShards')
<1>1. /\ seen' \in [Threads -> 0 .. total'] /\ released' \in [Shards -> 0 .. total']
      /\ \A u \in Threads : u # t => seen'[u] = seen[u]
      /\ \A r \in Shards : r # s => released'[r] = released[r]
      BY DEF MemoInv, TypeOK, Looking
<1>2. LateThreads \subseteq LateThreads' /\ LateShards \subseteq LateShards'
  <2>1. MaxEntries \in Nat
        BY MemoAssumption
  <2>2. \A u \in Threads : seen[u] \in Nat /\ seen'[u] \in Nat /\ seen[u] <= seen'[u]
        BY DEF MemoInv, TypeOK, Looking
  <2>3. \A r \in Shards : released[r] \in Nat /\ released'[r] \in Nat /\ released[r] <= released'[r]
        BY DEF MemoInv, TypeOK, Looking
  <2> QED BY <2>1, <2>2, <2>3 DEF LateThreads, LateShards
<1>3. /\ IsFiniteSet(LateThreads') /\ Cardinality(LateThreads') \in Nat
      /\ IsFiniteSet(LateShards') /\ Cardinality(LateShards') \in Nat
  <2>1. LateThreads' \in SUBSET Threads /\ LateShards' \in SUBSET Shards
        BY DEF LateThreads, LateShards
  <2>2. IsFiniteSet(Threads) /\ IsFiniteSet(Shards)
        BY MemoAssumption, ShardFacts
  <2>3. IsFiniteSet(LateThreads') /\ IsFiniteSet(LateShards')
        BY <2>1, <2>2, FS_Subset
  <2> QED BY <2>3, FS_CardinalityType
<1>4. Cardinality(LateThreads) <= Cardinality(LateThreads')
      /\ Cardinality(LateShards) <= Cardinality(LateShards')
      BY <1>2, <1>3, FS_Subset
<1>5. total' = total /\ total \in Nat /\ MaxEntries \in Nat
      BY MemoAssumption DEF MemoInv, TypeOK, Looking
<1>6. ASSUME total >= MaxEntries
      PROVE  /\ total + 1 <= MaxEntries + Cardinality(LateThreads')
             /\ total + 1 <= MaxEntries + Cardinality(LateShards')
  <2>1. /\ total + 1 <= MaxEntries + Cardinality(LateThreads)
        /\ total + 1 <= MaxEntries + Cardinality(LateShards)
        BY <1>6 DEF MemoInv, CapacityOK
  <2> QED BY <1>3, <1>4, <1>5, <2>1, LateFacts
<1> QED BY <1>1, <1>5, <1>6

LEMMA OrderedFacts ==
    ASSUME MemoInv, NEW t \in Threads, NEW k \in Keys
    PROVE  /\ Ordered(t, k) \in Nat /\ Ordered(t, k) <= total /\ ShardOf(k) \in Shards
           /\ seen[t] <= Ordered(t, k) /\ released[ShardOf(k)] <= Ordered(t, k)
<1>1. ShardOf(k) \in Shards
      BY ShardFacts
<1>2. seen[t] \in 0 .. total /\ released[ShardOf(k)] \in 0 .. total /\ total \in Nat
      BY <1>1 DEF MemoInv, TypeOK
<1> QED BY <1>1, <1>2 DEF Ordered, AtLeast

\* Looking leaves the threads that are inserting elsewhere alone.
LEMMA LookingInv ==
    ASSUME MemoInv, NEW t \in Threads, NEW s \in Shards, NEW x, Looking(t, s, x),
           op[t] = Idle, ~Busy(s), op' = op
    PROVE  MemoInv'
<1>1. /\ seen' \in [Threads -> 0 .. total'] /\ released' \in [Shards -> 0 .. total']
      /\ \A u \in Threads : u # t => seen'[u] = seen[u]
      /\ \A r \in Shards : r # s => released'[r] = released[r]
      BY LookingKeeps
<1>2. UNCHANGED <<buckets, total, op>>
      BY DEF Looking
<1>3. TypeOK'
      BY <1>1, <1>2 DEF MemoInv, TypeOK, Bucket
<1>4. MutexOK' /\ Inserting' = Inserting
      BY <1>2 DEF MemoInv, MutexOK, Matching, Bucket, Inserting
<1>5. \A u \in Inserting : u # t /\ ShardOf(op[u].key) # s /\ ShardOf(op[u].key) \in Shards
      BY ShardFacts DEF Inserting, Busy, MemoInv, TypeOK, Entry
<1>6. \A u \in Inserting : seen'[u] < MaxEntries /\ released'[ShardOf(op'[u].key)] < MaxEntries
      BY <1>1, <1>2, <1>5 DEF MemoInv, CapacityOK, Inserting
<1>7. CapacityOK'
      BY <1>4, <1>6, LookingKeeps DEF CapacityOK
<1> QED BY <1>3, <1>4, <1>7 DEF MemoInv

LEMMA LookupInv ==
    ASSUME MemoInv, NEW t \in Threads, NEW k \in Keys, Lookup(t, k)
    PROVE  MemoInv'
<1>1. Looking(t, ShardOf(k), Ordered(t, k))
      BY OrderedFacts DEF Lookup, Looking
<1> QED BY <1>1, OrderedFacts, LookingInv DEF Lookup

LEMMA PublishInv ==
    ASSUME MemoInv, NEW t \in Threads, NEW k \in Keys, NEW v \in Values, Publish(t, k, v)
    PROVE  MemoInv'
<1> DEFINE s == ShardOf(k)
           e == [key |-> k, value |-> v]
<1>1. op[t] = Idle /\ ~Busy(s) /\ UNCHANGED <<buckets, total>>
      BY DEF Publish
<1>2. CASE op' = op
  <2>1. \E x \in Nat : Looking(t, s, x)
    <3>1. CASE Matching(k) # {}
          BY <1>1, <3>1, OrderedFacts DEF Publish, Looking
    <3>2. CASE Matching(k) = {}
      <4>1. PICK x \in Ordered(t, k) .. total :
               /\ seen' = [seen EXCEPT ![t] = x]
               /\ released' \in {released, [released EXCEPT ![s] = x]}
            BY <3>2 DEF Publish
      <4>2. x \in Nat /\ Ordered(t, k) <= x /\ x <= total
            BY <4>1, OrderedFacts DEF MemoInv, TypeOK
      <4>3. seen[t] <= x /\ released[s] <= x
        <5>1. seen[t] \in Nat /\ released[s] \in Nat
              BY OrderedFacts DEF MemoInv, TypeOK
        <5> QED BY <4>2, <5>1, OrderedFacts
      <4> QED BY <1>1, <4>1, <4>2, <4>3 DEF Looking
    <3> QED BY <3>1, <3>2
  <2> QED BY <1>1, <1>2, <2>1, OrderedFacts, LookingInv
<1>3. CASE op' # op
  <2>1. /\ Matching(k) = {}
        /\ \E x \in Ordered(t, k) .. total :
              /\ seen' = [seen EXCEPT ![t] = x] /\ ~(x >= MaxEntries)
              /\ op' = [op EXCEPT ![t] = e] /\ released' = released
        BY <1>3 DEF Publish
  <2>2. PICK x \in Ordered(t, k) .. total :
           /\ seen' = [seen EXCEPT ![t] = x] /\ ~(x >= MaxEntries)
           /\ op' = [op EXCEPT ![t] = e] /\ released' = released
        BY <2>1
  <2>3. /\ x \in Nat /\ x <= total /\ seen[t] <= x /\ released[s] <= x /\ x < MaxEntries
        /\ released[s] < MaxEntries /\ s \in Shards
    <3>1. /\ x \in Nat /\ Ordered(t, k) <= x /\ x <= total /\ MaxEntries \in Nat
          /\ seen[t] \in Nat /\ released[s] \in Nat
          BY <2>2, OrderedFacts, MemoAssumption DEF MemoInv, TypeOK
    <3> QED BY <2>2, <3>1, OrderedFacts
  <2>4. Looking(t, s, x)
        BY <1>1, <2>2, <2>3 DEF Looking
  <2>5. e \in Entry /\ e.key = k
        BY DEF Entry
  <2> HIDE DEF e
  <2>6. op' \in [Threads -> Entry \cup {Idle}] /\ op'[t] = e
        /\ \A u \in Threads : u # t => op'[u] = op[u]
        BY <2>2, <2>5 DEF MemoInv, TypeOK
  <2>7. TypeOK'
        BY <1>1, <2>4, <2>6, LookingKeeps, <2>3 DEF MemoInv, TypeOK, Bucket
  <2>8. Inserting' \subseteq Inserting \cup {t}
        BY <2>6 DEF Inserting
  <2>9. \A u \in Inserting : u # t /\ ShardOf(op[u].key) # s /\ ShardOf(op[u].key) \in Shards
        BY <1>1, ShardFacts DEF Inserting, Busy, MemoInv, TypeOK, Entry
  <2>10. \A j \in Keys : Matching(j)' = Matching(j)
        BY <1>1 DEF Matching, Bucket
  <2>11. \A u \in Inserting' : /\ op'[u] \in Entry /\ op'[u].key \in Keys
                               /\ Matching(op'[u].key) = {}
    <3>1. \A u \in Inserting : op[u] \in Entry /\ Matching(op[u].key) = {}
          BY DEF Inserting, MemoInv, TypeOK, MutexOK
    <3>2. \A u \in Inserting' : u = t \/ (u \in Inserting /\ op'[u] = op[u])
          BY <2>6, <2>8 DEF Inserting
    <3> QED BY <2>1, <2>5, <2>6, <3>1, <3>2 DEF Entry
  <2>12. MutexOK'
    <3>1. \A u \in Inserting' : (Matching(op[u].key))' = {}
      <4> TAKE u \in Inserting'
      <4>1. Matching(op'[u].key) = {}
            BY <2>11
      <4> QED BY <1>1, <4>1 DEF Matching, Bucket
    <3>2. ASSUME NEW u \in Inserting', NEW w \in Inserting',
                 ShardOf(op'[u].key) = ShardOf(op'[w].key)
          PROVE  u = w
      <4>1. \A x1, x2 \in Inserting : ShardOf(op[x1].key) = ShardOf(op[x2].key) => x1 = x2
            BY DEF MemoInv, MutexOK
      <4>2. \A x1 \in Inserting : op'[x1] = op[x1]
            BY <2>6, <2>9 DEF Inserting
      <4>3. ShardOf(op'[t].key) = s
            BY <2>5, <2>6
      <4>4. u \in Inserting \/ u = t
            BY <2>8
      <4>5. w \in Inserting \/ w = t
            BY <2>8
      <4> HIDE DEF s
      <4>6. CASE u \in Inserting /\ w \in Inserting
            BY <3>2, <4>1, <4>2, <4>6
      <4>7. CASE u \in Inserting /\ w = t
            BY <2>9, <3>2, <4>2, <4>3, <4>7
      <4>8. CASE u = t /\ w \in Inserting
            BY <2>9, <3>2, <4>2, <4>3, <4>8
      <4> QED BY <4>4, <4>5, <4>6, <4>7, <4>8
    <3>3. \A u, w \in Inserting' : ShardOf(op'[u].key) = ShardOf(op'[w].key) => u = w
          BY <3>2
    <3> QED BY <3>1, <3>3 DEF MutexOK
  <2>13. ASSUME NEW u \in Inserting'
         PROVE  seen'[u] < MaxEntries /\ released'[ShardOf(op'[u].key)] < MaxEntries
    <3>1. CASE u = t
          BY <2>2, <2>3, <2>5, <2>6, <3>1 DEF MemoInv, TypeOK
    <3>2. CASE u \in Inserting
          BY <2>2, <2>6, <2>9, <3>2, <2>4, <2>3, LookingKeeps DEF MemoInv, CapacityOK, Inserting
    <3> QED BY <2>8, <3>1, <3>2
  <2>14. CapacityOK'
         BY <2>3, <2>4, <2>13, LookingKeeps DEF CapacityOK
  <2> QED BY <2>7, <2>12, <2>14 DEF MemoInv
<1> QED BY <1>2, <1>3

LEMMA InsertInv ==
    ASSUME MemoInv, NEW t \in Threads, Insert(t)
    PROVE  MemoInv'
<1> DEFINE k == op[t].key
           s == ShardOf(k)
<1>1. /\ t \in Inserting /\ op[t] \in Entry /\ k \in Keys /\ s \in Shards
      BY InsertBuckets, ShardFacts DEF Insert, Inserting, Entry
<1>2. /\ released' = [released EXCEPT ![s] = total + 1] /\ total' = total + 1
      /\ seen' = [seen EXCEPT ![t] = total + 1] /\ op' = [op EXCEPT ![t] = Idle]
      BY DEF Insert
<1>3. /\ total \in Nat /\ MaxEntries \in Nat /\ op \in [Threads -> Entry \cup {Idle}]
      /\ seen \in [Threads -> 0 .. total] /\ released \in [Shards -> 0 .. total]
      BY MemoAssumption DEF MemoInv, TypeOK
<1>4. seen[t] < MaxEntries /\ released[s] < MaxEntries
      BY <1>1 DEF MemoInv, CapacityOK
<1>5. \A u \in Inserting \ {t} : /\ op[u].key \in Keys /\ ShardOf(op[u].key) # s
                                 /\ ShardOf(op[u].key) \in Shards
      BY <1>1, ShardFacts DEF MemoInv, MutexOK, TypeOK, Inserting, Entry
<1> HIDE DEF s
<1>6. Inserting' = Inserting \ {t} /\ \A u \in Inserting \ {t} : op'[u] = op[u]
      BY <1>1, <1>2, <1>3 DEF Inserting
<1>7. TypeOK'
  <2>1. buckets' = [x \in Shards |-> buckets'[x]]
        BY InsertBuckets
  <2>2. \A j \in Keys : Bucket(j)' \in Seq(Entry)
        BY InsertMatches
  <2>3. /\ op' \in [Threads -> Entry \cup {Idle}] /\ total' \in Nat
        /\ seen' \in [Threads -> 0 .. total'] /\ released' \in [Shards -> 0 .. total']
        BY <1>1, <1>2, <1>3
  <2> QED BY <2>1, <2>2, <2>3 DEF TypeOK
<1>8. MutexOK'
  <2>1. \A u, w \in Inserting' : ShardOf(op'[u].key) = ShardOf(op'[w].key) => u = w
        BY <1>6 DEF MemoInv, MutexOK
  <2>2. \A u \in Inserting' : (Matching(op[u].key))' = {}
    <3> TAKE u \in Inserting'
    <3>1. PICK j \in Keys : j = op'[u].key
          BY <1>5, <1>6
    <3>2. j # k /\ Matching(j) = {}
          BY <1>5, <1>6, <3>1 DEF MemoInv, MutexOK, s
    <3>3. Matching(j)' = {}
          BY <3>2, InsertMatches
    <3>4. (Matching(op[u].key))' = Matching(j)'
          BY <3>1 DEF Matching, Bucket
    <3> QED BY <3>3, <3>4
  <2> QED BY <2>1, <2>2 DEF MutexOK
<1>9. CapacityOK'
  <2>1. ASSUME NEW u \in Inserting'
        PROVE  seen'[u] < MaxEntries /\ released'[ShardOf(op'[u].key)] < MaxEntries
        BY <1>2, <1>3, <1>5, <1>6 DEF MemoInv, CapacityOK, Inserting
  <2>2. ASSUME total' >= MaxEntries
        PROVE  /\ LateThreads' = LateThreads \cup {t} /\ t \notin LateThreads
               /\ LateShards' = LateShards \cup {s} /\ s \notin LateShards
        BY <1>1, <1>2, <1>3, <1>4, <2>2 DEF LateThreads, LateShards
  <2>3. ASSUME total' >= MaxEntries
        PROVE  /\ Cardinality(LateThreads') = Cardinality(LateThreads) + 1
               /\ Cardinality(LateShards') = Cardinality(LateShards) + 1
        BY <2>2, <2>3, LateFacts, FS_AddElement
  <2>4. total >= MaxEntries =>
           /\ total + 1 <= MaxEntries + Cardinality(LateThreads)
           /\ total + 1 <= MaxEntries + Cardinality(LateShards)
        BY DEF MemoInv, CapacityOK
  <2>5. ASSUME total' >= MaxEntries
        PROVE  /\ total' + 1 <= MaxEntries + Cardinality(LateThreads')
               /\ total' + 1 <= MaxEntries + Cardinality(LateShards')
        BY <1>2, <1>3, <2>3, <2>4, <2>5, LateFacts
  <2> QED BY <2>1, <2>5 DEF CapacityOK
<1> QED BY <1>7, <1>8, <1>9 DEF MemoInv

LEMMA MemoInitOK == Init => MemoInv
<1> SUFFICES ASSUME Init PROVE MemoInv
    OBVIOUS
<1>1. Inserting = {} /\ total = 0
      BY DEF Init, Inserting
<1>2. \A k \in Keys : Bucket(k) = <<>>
      BY ShardFacts DEF Init, Bucket
<1>3. TypeOK
  <2>1. <<>> \in Seq(Entry) /\ 0 \in 0 .. 0
        OBVIOUS
  <2>2. buckets = [s \in Shards |-> buckets[s]]
        BY DEF Init
  <2>3. seen \in [Threads -> 0 .. total] /\ released \in [Shards -> 0 .. total]
        BY <1>1, <2>1 DEF Init
  <2>4. op \in [Threads -> Entry \cup {Idle}] /\ total \in Nat
        BY DEF Init
  <2> QED BY <1>2, <2>1, <2>2, <2>3, <2>4 DEF TypeOK
<1>4. MutexOK
      BY <1>1 DEF MutexOK
<1>5. CapacityOK
  <2>1. MaxEntries = 0 => LateThreads = Threads /\ LateShards = Shards
        BY DEF Init, LateThreads, LateShards
  <2>2. Cardinality(Threads) \in Nat \ {0}
        BY MemoAssumption, FS_CardinalityType, FS_EmptySet
  <2>3. MaxEntries \in Nat
        BY MemoAssumption
  <2> QED BY <1>1, <2>1, <2>2, <2>3, ShardFacts DEF CapacityOK
<1> QED BY <1>3, <1>4, <1>5 DEF MemoInv

LEMMA MemoNextOK == MemoInv /\ [Next]_vars => MemoInv'
<1> SUFFICES ASSUME MemoInv, [Next]_vars PROVE MemoInv'
    OBVIOUS
<1>1. CASE UNCHANGED vars
  <2>1. TypeOK'
        BY <1>1 DEF vars, MemoInv, TypeOK, Bucket
  <2>2. MutexOK'
        BY <1>1 DEF vars, MemoInv, MutexOK, Bucket, Matching, Inserting
  <2>3. CapacityOK'
        BY <1>1 DEF vars, MemoInv, CapacityOK, Inserting, LateThreads, LateShards
  <2> QED BY <2>1, <2>2, <2>3 DEF MemoInv
<1> QED BY <1>1, LookupInv, PublishInv, InsertInv DEF Next, Done

-----------------------------------------------------------------------------
(* What callers can rely on.                                                 *)

\* For any capacity, and any number of threads and shards: the relaxed counter
\* lets the table overrun its bound by less than the number of threads, and by
\* less than the number of shards.
THEOREM BoundedOvershootAlways == Spec => []BoundedOvershoot
<1>1. MemoInv => BoundedOvershoot
  <2> SUFFICES ASSUME MemoInv PROVE BoundedOvershoot
      OBVIOUS
  <2> DEFINE T == Threads \ LateThreads
             S == Shards \ LateShards
             f == [t \in Inserting |-> ShardOf(op[t].key)]
  <2>1. /\ IsFiniteSet(Threads) /\ IsFiniteSet(Shards) /\ MaxEntries \in Nat /\ total \in Nat
        /\ Cardinality(Shards) = NumShards /\ NumShards \in Nat \ {0}
        /\ Cardinality(Threads) \in Nat
        BY MemoAssumption, ShardFacts, FS_CardinalityType DEF MemoInv, TypeOK
  <2>2. /\ Cardinality(T) = Cardinality(Threads) - Cardinality(LateThreads)
        /\ Cardinality(S) = NumShards - Cardinality(LateShards)
        /\ IsFiniteSet(T) /\ IsFiniteSet(S)
    <3>1. Threads \cap LateThreads = LateThreads /\ Shards \cap LateShards = LateShards
          BY DEF LateThreads, LateShards
    <3>2. /\ Cardinality(Threads \ LateThreads) = Cardinality(Threads) - Cardinality(LateThreads)
          /\ IsFiniteSet(Threads \ LateThreads)
          BY <2>1, <3>1, FS_Difference
    <3>3. /\ Cardinality(Shards \ LateShards) = Cardinality(Shards) - Cardinality(LateShards)
          /\ IsFiniteSet(Shards \ LateShards)
          BY <2>1, <3>1, FS_Difference
    <3> QED BY <2>1, <3>2, <3>3
  <2>3. Inserting \in SUBSET T
    <3>1. \A t \in Inserting : t \in Threads /\ seen[t] < MaxEntries /\ seen[t] \in Nat
      <4>1. \A t \in Inserting : seen[t] < MaxEntries
            BY DEF MemoInv, CapacityOK
      <4>2. \A t \in Threads : seen[t] \in Nat
            BY <2>1 DEF MemoInv, TypeOK
      <4> QED BY <4>1, <4>2 DEF Inserting
    <3> QED BY <2>1, <3>1 DEF LateThreads
  <2>4. /\ IsFiniteSet(Inserting) /\ Cardinality(Inserting) \in Nat
        /\ Cardinality(Inserting) <= Cardinality(T)
        BY <2>2, <2>3, FS_Subset, FS_CardinalityType
  <2>5. Cardinality(Inserting) <= Cardinality(S)
    <3>1. \A t \in Inserting : ShardOf(op[t].key) \in S
          BY <2>1, ShardFacts
          DEF MemoInv, CapacityOK, TypeOK, Inserting, LateShards, Entry
    <3>2. f \in Injection(Inserting, S)
          BY <3>1 DEF Injection, IsInjective, MemoInv, MutexOK
    <3> HIDE DEF f, S
    <3> QED BY <2>2, <3>2, FS_Injection
  <2> QED BY <2>1, <2>2, <2>4, <2>5, LateFacts DEF BoundedOvershoot, Lesser, MemoInv, CapacityOK
<1> QED BY <1>1, MemoInitOK, MemoNextOK, PTL DEF Spec

-----------------------------------------------------------------------------
(* The refinement: every step stores one pair, looks once, or is hidden.     *)

Tab == [k \in Stored |-> Bucket(k)[First(k)].value]

\* An insertion stores one pair: its own.
LEMMA InsertStores ==
    ASSUME MemoInv, NEW t \in Threads, Insert(t)
    PROVE  /\ op[t].key \in Keys /\ op[t].value \in Values
           /\ Table!Stores(op[t].key, op[t].value)
<1>1. op[t] \in Entry /\ Matching(op[t].key) = {}
      BY InsertBuckets
<1>2. PICK k \in Keys, v \in Values : k = op[t].key /\ v = op[t].value /\ k \notin Stored
      BY <1>1 DEF Entry, Stored
<1>3. /\ Matching(k)' # {}
      /\ (Bucket(k)[First(k)].value)' = v
  <2>1. PICK n \in Nat : Matching(k)' = {n} /\ Bucket(k)'[n] = op[t]
        BY <1>2, InsertMatches
  <2>2. Min({n}) = n
        BY DEF Min
  <2>3. First(k)' = n
        BY <2>1, <2>2 DEF First
  <2> QED BY <1>2, <2>1, <2>3
<1>4. ASSUME NEW j \in Keys, j # k
      PROVE  /\ Matching(j)' = Matching(j)
             /\ j \in Stored => (Bucket(j)[First(j)].value)' = Bucket(j)[First(j)].value
  <2>1. Matching(j)' = Matching(j) /\ \A i \in Matching(j) : Bucket(j)'[i] = Bucket(j)[i]
        BY <1>2, <1>4, InsertMatches
  <2>2. First(j)' = First(j)
        BY <2>1 DEF First
  <2>3. j \in Stored => First(j) \in Matching(j)
        BY FirstMatches DEF Stored, MemoInv
  <2> QED BY <2>1, <2>2, <2>3
<1>5. Stored' = Stored \cup {k}
  <2>1. \A j \in Keys : Matching(j)' # {} <=> Matching(j) # {} \/ j = k
        BY <1>3, <1>4
  <2>2. Stored' = {j \in Keys : Matching(j)' # {}}
        BY DEF Stored
  <2> QED BY <1>2, <2>1, <2>2 DEF Stored
<1>6. Tab' = [j \in Stored \cup {k} |-> IF j = k THEN v ELSE Tab[j]]
  <2>1. Tab' = [j \in Stored' |-> (Bucket(j)[First(j)].value)']
        BY DEF Tab
  <2>2. \A j \in Stored' : (Bucket(j)[First(j)].value)' = IF j = k THEN v ELSE Tab[j]
    <3> TAKE j \in Stored'
    <3>1. CASE j = k
          BY <1>3, <3>1
    <3>2. CASE j # k
      <4>1. j \in Stored /\ j \in Keys
            BY <1>5, <3>2 DEF Stored
      <4>2. Tab[j] = Bucket(j)[First(j)].value
            BY <4>1 DEF Tab
      <4> QED BY <1>4, <3>2, <4>1, <4>2
    <3> QED BY <3>1, <3>2
  <2> QED BY <1>5, <2>1, <2>2
<1>7. answer' = answer
      BY DEF Insert
<1> QED BY <1>2, <1>5, <1>6, <1>7 DEF Table!Stores, Tab

\* A lookup answers with what the table has for the bytes, or not at all.
LEMMA LookupLooks ==
    ASSUME MemoInv, NEW t \in Threads, NEW k \in Keys, Lookup(t, k)
    PROVE  Table!Looks(k)
<1>1. buckets' = buckets
      BY DEF Lookup
<1>2. Tab' = Tab
      BY <1>1 DEF Tab, Stored, First, Matching, Bucket
<1>3. answer' = IF k \in Stored THEN {<<k, Tab[k]>>} ELSE {}
      BY DEF Lookup, Tab, Stored
<1> QED BY <1>2, <1>3 DEF Table!Looks, Tab

\* However many threads share it and however its keys hash, the sharded table
\* is the abstract memo: one table that maps each task's bytes to the first
\* value stored for them, for ever, and lookups that answer with that or miss.
THEOREM ImplementsMemoTable == Spec => IsMemoTable
<1>1. Init => Table!Init
  <2> SUFFICES ASSUME Init PROVE Table!Init
      OBVIOUS
  <2>1. \A k \in Keys : Bucket(k) = <<>>
        BY ShardFacts DEF Init, Bucket
  <2>2. Stored = {}
        BY <2>1 DEF Stored, Matching
  <2>3. Tab = [k \in {} |-> {}] /\ answer = {}
        BY <2>2 DEF Tab, Init
  <2> QED BY <2>3 DEF Table!Init, Tab
<1>2. MemoInv /\ [Next]_vars => [Table!Next]_(Table!vars)
  <2> SUFFICES ASSUME MemoInv, [Next]_vars PROVE [Table!Next]_(Table!vars)
      OBVIOUS
  <2>1. ASSUME NEW t \in Threads, NEW k \in Keys, Lookup(t, k)
        PROVE  Table!Next
        BY <2>1, LookupLooks DEF Table!Next
  <2>2. ASSUME NEW t \in Threads, Insert(t)
        PROVE  Table!Next
        BY <2>2, InsertStores DEF Table!Next
  <2>3. ASSUME UNCHANGED <<buckets, answer>>
        PROVE  UNCHANGED Table!vars
        BY <2>3 DEF Table!vars, Stored, First, Matching, Bucket
  <2> QED BY <2>1, <2>2, <2>3 DEF Next, Publish, Done, vars
<1> QED BY <1>1, <1>2, MemoInitOK, MemoNextOK, PTL DEF Spec, IsMemoTable, Table!Spec

=============================================================================
