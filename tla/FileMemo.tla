------------------------------- MODULE FileMemo -------------------------------
(***************************************************************************)
(* nimblecas::FileMemo: an append-only log of records on disk and, while a *)
(* process has it open, an index of where each record starts.  The process *)
(* may exit or die between or within calls, a write may land in part, and  *)
(* the medium may damage a cell.                                           *)
(*                                                                         *)
(* The file is a sequence of cells.  A record is a head (magic, version,   *)
(* fingerprint, key, both lengths), the cells of its value and a checksum  *)
(* over all of them, so the cells at an offset are accepted exactly when   *)
(* they are some record's image.  Offsets count cells from 0.              *)
(***************************************************************************)
EXTENDS Integers, Sequences, FiniteSets, FiniteSetsExt

CONSTANTS
    Keys,
    Fp(_),        \* the ContentKey the caller passes with a full key
    Values,
    Bytes(_),     \* the cells of a value: arbitrary, a record's image included
    Bounds,       \* the values max_value_bytes may be given at an open
    MaxCalls,     \* bound: lookups and publishes
    MaxRuns,      \* bound: processes that opened the log
    MaxTorn,      \* bound: writes that failed or were cut by a crash
    MaxRot        \* bound: cells damaged by the medium

Rotten == <<"rotten">>
Header(k, v) == <<"head", k, v>>
Checksum(k, v) == <<"sum", k, v>>

CellsOf(v) == {Bytes(v)[i] : i \in DOMAIN Bytes(v)}

\* A value is a sequence of cells.  One that looks like a header is a header.  A
\* damaged cell is none of them: what it is part of does not verify.
ASSUME FileMemoAssumption ==
    /\ Bounds \subseteq Nat /\ Bounds # {}
    /\ {MaxCalls, MaxRuns, MaxTorn, MaxRot} \subseteq Nat
    /\ \A v \in Values :
          /\ Bytes(v) \in Seq(CellsOf(v)) /\ Rotten \notin CellsOf(v)
          /\ \A c \in CellsOf(v) :
                c[1] = "head" => \E k \in Keys, w \in Values : c = Header(k, w)

VARIABLES
    file,       \* the log's cells
    up,         \* a process has the log open
    bound,      \* its max_value_bytes_
    index,      \* fingerprint -> offsets, the buckets of index_, which list
                \* them in increasing order
    good,       \* good_prefix_
    fsize,      \* file_size_
    damaged,    \* damaged_
    answer,     \* what the latest lookup returned: {} or {<<key, value>>}
    acked,      \* history: records whose publish indexed them, with offsets
    offered,    \* history: <<key, value>> pairs passed to publish
    rotten,     \* history: offsets of the cells damaged
    held,       \* history: the table the log amounted to (see TableOf) and the
                \* latest answer, up to when the medium first damaged it
    calls, runs, torn

disk == <<file, rotten>>
object == <<up, bound, index, good, fsize, damaged>>
vars == <<disk, object, answer, acked, offered, calls, runs, torn, held>>

\* publish's serialisation of one record.
Image(k, v) == <<Header(k, v)>> \o Bytes(v) \o <<Checksum(k, v)>>

\* The record that cells of f spell at offset o: none, or one <<key, value>>.
\* The header names it; it must fit in the n cells known of, respect the value
\* bound b, and verify.
ReadAt(f, n, b, o) ==
    IF o >= n \/ f[o + 1][1] # "head" THEN {}
    ELSE LET k == f[o + 1][2]
             v == f[o + 1][3]
             size == Len(Image(k, v))
         IN  IF /\ o + size <= n
                /\ Len(Bytes(v)) <= b
                /\ SubSeq(f, o + 1, o + size) = Image(k, v)
             THEN {<<k, v>>} ELSE {}

RecordAt(f, n, b, o) == CHOOSE r \in ReadAt(f, n, b, o) : TRUE
EndOf(f, n, b, o) ==
    LET r == RecordAt(f, n, b, o) IN o + Len(Image(r[1], r[2]))

\* create's loop: the offsets of the records from 0 up to the first that does
\* not verify.
Starts(f, b) ==
    LET scan[o \in 0 .. Len(f)] ==
            IF ReadAt(f, Len(f), b, o) = {} THEN {}
            ELSE {o} \cup scan[EndOf(f, Len(f), b, o)]
    IN  scan[0]

Prefix(f, b) ==
    IF Starts(f, b) = {} THEN 0 ELSE EndOf(f, Len(f), b, Max(Starts(f, b)))

\* Those of the given offsets at which a record of key k can be read.
Holding(f, n, b, k, offsets) ==
    {o \in offsets : \E r \in ReadAt(f, n, b, o) : r[1] = k}

\* A load indexes the first record of each full key.
IndexOf(f, b) ==
    LET firsts(k) == LET all == Holding(f, Len(f), b, k, Starts(f, b))
                     IN  {o \in all : \A q \in all : o <= q}
    IN  [p \in {Fp(k) : k \in Keys} |-> UNION {firsts(k) : k \in {j \in Keys : Fp(j) = p}}]

\* Writing cells c at offset o.
Written(f, o, c) ==
    [i \in 1 .. (IF o + Len(c) > Len(f) THEN o + Len(c) ELSE Len(f)) |->
        IF i \in o + 1 .. o + Len(c) THEN c[i - o] ELSE f[i]]

Larger(a, b) == IF a > b THEN a ELSE b

\* The table an open object serves from its index, or, for a closed log, the
\* next open would.
TableOf(f, isUp, b, ix, n) ==
    LET bnd == IF isUp THEN b ELSE Max(Bounds)
        size == IF isUp THEN n ELSE Len(f)
        at(k) == Holding(f, size, bnd, k, IF isUp THEN ix[Fp(k)] ELSE Starts(f, bnd))
    IN  [k \in {j \in Keys : at(j) # {}} |-> RecordAt(f, size, bnd, Min(at(k)))[2]]

-----------------------------------------------------------------------------
NoIndex == [p \in {Fp(k) : k \in Keys} |-> {}]

Init ==
    /\ file = <<>> /\ rotten = {}
    /\ up = FALSE /\ bound = 0 /\ index = NoIndex /\ good = 0 /\ fsize = 0
    /\ damaged = FALSE
    /\ answer = {} /\ acked = {} /\ offered = {}
    /\ calls = 0 /\ runs = 0 /\ torn = 0
    /\ held = [table |-> [k \in {} |-> 0], answer |-> {}]

\* The file may have been cut and then not reopened: create fails, the cut stays.
OpenCutOnly(b) ==
    /\ ~up /\ runs < MaxRuns
    /\ Len(file) > Prefix(file, b)
    /\ file' = SubSeq(file, 1, Prefix(file, b))
    /\ runs' = runs + 1
    /\ UNCHANGED <<rotten, object, answer, acked, offered, calls, torn>>

\* Mutant of Open: the tail behind the last good record is left in the file.
OpenNoTruncate(b) ==
    /\ ~up /\ runs < MaxRuns
    /\ up' = TRUE /\ bound' = b
    /\ index' = IndexOf(file, b)
    /\ good' = Len(file)
    /\ damaged' = (Len(file) > Prefix(file, b))
    /\ fsize' = Len(file)
    /\ runs' = runs + 1
    /\ UNCHANGED <<disk, answer, acked, offered, calls, torn>>

\* FileMemo::create: index the verified prefix, cut what lies behind it.
Open(b) ==
    /\ ~up /\ runs < MaxRuns
    /\ up' = TRUE /\ bound' = b
    /\ index' = IndexOf(file, b)
    /\ good' = Prefix(file, b)
    /\ damaged' = (Len(file) > Prefix(file, b))
    /\ file' = SubSeq(file, 1, Prefix(file, b))
    /\ fsize' = Prefix(file, b)
    /\ runs' = runs + 1
    /\ UNCHANGED <<rotten, answer, acked, offered, calls, torn>>

\* Mutant of Matching: a record is served for its fingerprint alone.
MatchingFingerprint(k) == {o \in index[Fp(k)] : ReadAt(file, fsize, bound, o) # {}}

\* The offsets in k's bucket whose record is still readable and holds k itself.
Matching(k) == Holding(file, fsize, bound, k, index[Fp(k)])

Lookup(k) ==
    /\ up /\ calls < MaxCalls /\ calls' = calls + 1
    /\ answer' = IF Matching(k) = {} THEN {}
                 ELSE {<<k, RecordAt(file, fsize, bound, Min(Matching(k)))[2]>>}
    /\ UNCHANGED <<disk, object, acked, offered, runs, torn>>

\* A publish that has nothing to write: held already, or an oversize value.
Declines(k, v) == Matching(k) # {} \/ Len(Bytes(v)) > bound

PublishDeclined(k, v) ==
    /\ up /\ calls < MaxCalls /\ calls' = calls + 1
    /\ Declines(k, v)
    /\ offered' = offered \cup {<<k, v>>}
    /\ UNCHANGED <<disk, object, answer, acked, runs, torn>>

\* Mutant of PublishLanded: the append cursor stays where it was.
PublishLandedSameCursor(k, v) ==
    /\ up /\ calls < MaxCalls /\ calls' = calls + 1
    /\ ~Declines(k, v)
    /\ file' = Written(file, good, Image(k, v))
    /\ fsize' = Larger(fsize, good + Len(Image(k, v)))
    /\ index' = [index EXCEPT ![Fp(k)] = @ \cup {good}]
    /\ good' = good
    /\ offered' = offered \cup {<<k, v>>}
    /\ acked' = acked \cup {[key |-> k, value |-> v, start |-> good]}
    /\ UNCHANGED <<rotten, up, bound, damaged, answer, runs, torn>>

\* The record is written at the cursor, flushed and indexed.
PublishLanded(k, v) ==
    /\ up /\ calls < MaxCalls /\ calls' = calls + 1
    /\ ~Declines(k, v)
    /\ file' = Written(file, good, Image(k, v))
    /\ good' = good + Len(Image(k, v))
    /\ fsize' = Larger(fsize, good + Len(Image(k, v)))
    /\ index' = [index EXCEPT ![Fp(k)] = @ \cup {good}]
    /\ offered' = offered \cup {<<k, v>>}
    /\ acked' = acked \cup {[key |-> k, value |-> v, start |-> good]}
    /\ UNCHANGED <<rotten, up, bound, damaged, answer, runs, torn>>

\* The write or the flush fails after n of the record's cells reached the
\* file.  Nothing is indexed and the cursor stays; file_size_ is brought up to
\* date unless asking for the size fails too.
PublishFailed(k, v) ==
    /\ up /\ calls < MaxCalls /\ calls' = calls + 1
    /\ torn < MaxTorn /\ torn' = torn + 1
    /\ ~Declines(k, v)
    /\ offered' = offered \cup {<<k, v>>}
    /\ \E n \in 0 .. Len(Image(k, v)) :
          file' = Written(file, good, SubSeq(Image(k, v), 1, n))
    /\ fsize' \in {fsize, Larger(fsize, Len(file'))}
    /\ UNCHANGED <<rotten, up, bound, index, good, damaged, answer, acked, runs>>

\* The process dies inside publish, after n of the record's cells.
PublishCut(k, v) ==
    /\ up /\ calls < MaxCalls /\ calls' = calls + 1
    /\ torn < MaxTorn /\ torn' = torn + 1
    /\ ~Declines(k, v)
    /\ offered' = offered \cup {<<k, v>>}
    /\ \E n \in 0 .. Len(Image(k, v)) :
          file' = Written(file, good, SubSeq(Image(k, v), 1, n))
    /\ up' = FALSE /\ index' = NoIndex /\ good' = 0 /\ fsize' = 0
    /\ bound' = 0 /\ damaged' = FALSE
    /\ UNCHANGED <<rotten, answer, acked, runs>>

\* The process exits or dies between calls.
Exit ==
    /\ up /\ up' = FALSE
    /\ index' = NoIndex /\ good' = 0 /\ fsize' = 0 /\ bound' = 0 /\ damaged' = FALSE
    /\ UNCHANGED <<disk, answer, acked, offered, calls, runs, torn>>

\* The medium damages a cell.
Rot(o) ==
    /\ Cardinality(rotten) < MaxRot /\ o < Len(file)
    /\ file' = [file EXCEPT ![o + 1] = Rotten]
    /\ rotten' = rotten \cup {o}
    /\ UNCHANGED <<object, answer, acked, offered, calls, runs, torn>>

\* The bound on runs is reached and the log stays closed.
AtRest ==
    /\ ~up /\ runs = MaxRuns
    /\ UNCHANGED <<disk, object, answer, acked, offered, calls, runs, torn>>

Step ==
    \/ \E b \in Bounds : Open(b) \/ OpenCutOnly(b)
    \/ \E k \in Keys :
          \/ Lookup(k)
          \/ \E v \in Values :
                \/ PublishDeclined(k, v) \/ PublishLanded(k, v)
                \/ PublishFailed(k, v) \/ PublishCut(k, v)
    \/ Exit
    \/ \E o \in 0 .. Len(file) : Rot(o)
    \/ AtRest

Next ==
    /\ Step
    /\ held' = IF rotten' # {} THEN held
               ELSE [table |-> TableOf(file', up', bound', index', fsize'),
                     answer |-> answer']

Spec == Init /\ [][Next]_vars

-----------------------------------------------------------------------------
(* Properties *)

\* Through every exit, crash, torn or failed write and reopen, until the medium
\* damages it, the log is one table that maps a key to the first value stored
\* for it, for ever.
Table == INSTANCE MemoTable WITH table <- held.table, answer <- held.answer

IsMemoTable == Table!Spec

\* "A damaged store can cost work; it cannot produce a wrong value": whatever
\* is served for a key was handed to publish for that very key.
ServesOnlyOffered == answer \subseteq offered

\* Damage costs the records at and behind it, never one in front of it: what a
\* publish acknowledged stays readable while every damaged cell lies behind it.
IntactPrefixSurvives ==
    LET now == TableOf(file, up, bound, index, fsize)
    IN  \A a \in acked :
            (\A o \in rotten : o >= a.start + Len(Image(a.key, a.value))) =>
                a.key \in DOMAIN now /\ now[a.key] = a.value

=============================================================================
