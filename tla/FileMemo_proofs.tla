--------------------------- MODULE FileMemo_proofs ---------------------------
(***************************************************************************)
(* What FileMemo's log keeps and serves, for any keys, values, fingerprints *)
(* and any sequence of exits, crashes, failed writes and damage.           *)
(***************************************************************************)
EXTENDS FileMemo, TLAPS, WellFoundedInduction

\* A non-empty set of naturals has a least element.
LEMMA LeastNat ==
    ASSUME NEW T \in SUBSET Nat, T # {}
    PROVE  \E m \in T : \A n \in T : m <= n
<1>1. PICK m \in T : \A n \in T : <<n, m>> \notin OpToRel(<, Nat)
  BY NatLessThanWellFounded, WFMin, Zenon
<1>2. \A n \in T : ~(n < m)
  BY <1>1 DEF OpToRel
<1> QED
  BY <1>2

LEMMA MinIs ==
    ASSUME NEW T \in SUBSET Nat, T # {}
    PROVE  Min(T) \in T /\ \A n \in T : Min(T) <= n
<1>1. \E m \in T : \A n \in T : m <= n
  BY LeastNat
<1> QED
  BY <1>1 DEF Min

-----------------------------------------------------------------------------
(* Records.                                                                  *)

Heads == {Header(k, v) : k \in Keys, v \in Values}
Sums == {Checksum(k, v) : k \in Keys, v \in Values}
Cell == {Rotten} \cup Heads \cup Sums \cup UNION {CellsOf(v) : v \in Values}

LEMMA ImageFacts ==
    ASSUME NEW k \in Keys, NEW v \in Values
    PROVE  /\ Len(Bytes(v)) \in Nat
           /\ Image(k, v) \in Seq(Cell)
           /\ Len(Image(k, v)) = Len(Bytes(v)) + 2
           /\ Image(k, v)[1] = Header(k, v)
           /\ \A i \in 1 .. Len(Image(k, v)) : Image(k, v)[i] # Rotten
<1> DEFINE h == Header(k, v)
           c == Checksum(k, v)
           s == Bytes(v)
<1>1. s \in Seq(CellsOf(v)) /\ Rotten \notin CellsOf(v)
  BY FileMemoAssumption
<1>2. CellsOf(v) \subseteq Cell /\ h \in Cell /\ c \in Cell
  BY DEF Cell, Heads, Sums
<1>3. s \in Seq(Cell) /\ Len(s) \in Nat
  BY <1>1, <1>2
<1>4. h # Rotten /\ c # Rotten
  BY DEF Header, Checksum, Rotten
<1>5. \A i \in 1 .. Len(s) : s[i] \in CellsOf(v)
  BY <1>1
<1>6. Image(k, v) = (<<h>> \o s) \o <<c>>
  BY DEF Image
<1> HIDE DEF h, c, s
<1> DEFINE p == <<h>> \o s
<1>7. /\ p \in Seq(Cell) /\ Len(p) = Len(s) + 1 /\ p[1] = h
      /\ \A i \in 2 .. Len(s) + 1 : p[i] = s[i - 1]
  BY <1>2, <1>3
<1> HIDE DEF p
<1>8. \A i \in 1 .. Len(s) + 1 : p[i] # Rotten
  <2> SUFFICES ASSUME NEW i \in 1 .. Len(s) + 1 PROVE p[i] # Rotten
    OBVIOUS
  <2>1. CASE i = 1
    BY <1>4, <1>7, <2>1
  <2>2. CASE i # 1
    <3>1. i \in 2 .. Len(s) + 1 /\ i - 1 \in 1 .. Len(s)
      BY <1>3, <2>2
    <3> QED
      BY <1>1, <1>5, <1>7, <3>1
  <2> QED
    BY <2>1, <2>2
<1> DEFINE q == p \o <<c>>
<1>9. /\ q \in Seq(Cell) /\ Len(q) = Len(s) + 2
      /\ \A i \in 1 .. Len(s) + 1 : q[i] = p[i]
      /\ q[Len(s) + 2] = c
  BY <1>2, <1>3, <1>7
<1> HIDE DEF q
<1>10. ASSUME NEW i \in 1 .. Len(q) PROVE q[i] # Rotten
  <2>1. i \in 1 .. Len(s) + 1 \/ i = Len(s) + 2
    BY <1>3, <1>9
  <2> QED
    BY <1>4, <1>8, <1>9, <2>1
<1>11. Image(k, v) = q
  BY <1>6 DEF p, q
<1>12. q[1] = h
  BY <1>3, <1>7, <1>9
<1> QED
  BY <1>3, <1>9, <1>10, <1>11, <1>12 DEF s, h

\* The l cells of f behind offset a.
LEMMA SubCells ==
    ASSUME NEW f \in Seq(Cell), NEW a \in Nat, NEW l \in Nat, a + l <= Len(f)
    PROVE  /\ SubSeq(f, a + 1, a + l) \in Seq(Cell)
           /\ Len(SubSeq(f, a + 1, a + l)) = l
           /\ \A i \in 1 .. l : SubSeq(f, a + 1, a + l)[i] = f[a + i]
<1> DEFINE x == a + 1
           y == a + l
<1>1. /\ x \in 1 .. Len(f) + 1 /\ y \in 0 .. Len(f) /\ x \in Int /\ y \in Int
      /\ y - x + 1 = l /\ (l = 0 => y < x)
  OBVIOUS
<1>2. \A i \in 1 .. l : x + i - 1 = a + i /\ a + i \in 1 .. Len(f)
  OBVIOUS
<1> HIDE DEF x, y
<1>3. SubSeq(f, x, y) \in Seq(Cell)
  BY <1>1
<1>4. Len(SubSeq(f, x, y)) = l
  BY <1>1
<1>5. ASSUME NEW i \in 1 .. l PROVE SubSeq(f, x, y)[i] = f[a + i]
  <2>1. SubSeq(f, x, y)[i] = f[x + i - 1]
    BY <1>1
  <2> QED
    BY <1>2, <2>1
<1> QED
  BY <1>3, <1>4, <1>5 DEF x, y

\* The n known cells of f spell the record of k and v at offset o.
Spells(f, n, b, o, k, v) ==
    /\ k \in Keys /\ v \in Values
    /\ o + Len(Image(k, v)) <= n /\ Len(Bytes(v)) <= b
    /\ \A i \in 1 .. Len(Image(k, v)) : f[o + i] = Image(k, v)[i]

\* Offset o of f can be read and ends at e.
LEMMA ReadIs ==
    ASSUME NEW f \in Seq(Cell), NEW n \in Nat, n <= Len(f), NEW b, NEW o \in Nat,
           NEW k, NEW v, Spells(f, n, b, o, k, v)
    PROVE  /\ ReadAt(f, n, b, o) = {<<k, v>>} /\ RecordAt(f, n, b, o) = <<k, v>>
           /\ EndOf(f, n, b, o) = o + Len(Image(k, v))
<1> DEFINE m == Image(k, v)
<1>1. k \in Keys /\ v \in Values
  BY DEF Spells
<1>2. /\ m \in Seq(Cell) /\ Len(m) \in Nat /\ Len(m) >= 2 /\ m[1] = Header(k, v)
  BY <1>1, ImageFacts
<1>3. /\ o + Len(m) <= n /\ Len(Bytes(v)) <= b /\ \A i \in 1 .. Len(m) : f[o + i] = m[i]
  BY DEF Spells
<1> DEFINE sub == SubSeq(f, o + 1, o + Len(m))
<1>4. sub = m
  <2>1. sub \in Seq(Cell) /\ Len(sub) = Len(m) /\ \A i \in 1 .. Len(m) : sub[i] = f[o + i]
    <3> HIDE DEF m
    <3>1. o + Len(m) <= Len(f)
      BY <1>2, <1>3
    <3> QED
      BY <1>2, <3>1, SubCells
  <2> HIDE DEF m, sub
  <2> QED
    BY <1>2, <1>3, <2>1
<1>5. f[o + 1] = Header(k, v)
  BY <1>2, <1>3
<1>6. /\ f[o + 1][1] = "head" /\ f[o + 1][2] = k /\ f[o + 1][3] = v
  BY <1>5 DEF Header
<1>7. ~(o >= n)
  BY <1>2, <1>3
<1>8. ReadAt(f, n, b, o) = {<<k, v>>}
  <2> HIDE DEF sub
  <2> QED
    BY <1>3, <1>4, <1>6, <1>7 DEF ReadAt, sub
<1>9. RecordAt(f, n, b, o) = <<k, v>>
  BY <1>8 DEF RecordAt
<1> QED
  BY <1>8, <1>9 DEF EndOf

LEMMA ReadWhat ==
    ASSUME NEW f \in Seq(Cell), NEW n \in Nat, n <= Len(f), NEW b, NEW o \in Nat,
           ReadAt(f, n, b, o) # {}
    PROVE  \E k, v : Spells(f, n, b, o, k, v)
<1> DEFINE k == f[o + 1][2]
           v == f[o + 1][3]
           m == Image(k, v)
<1>1. /\ ~(o >= n) /\ f[o + 1][1] = "head" /\ o + Len(m) <= n /\ Len(Bytes(v)) <= b
      /\ SubSeq(f, o + 1, o + Len(m)) = m
  BY DEF ReadAt
<1>2. f[o + 1] \in Cell
  BY <1>1
<1>3. PICK kk \in Keys, vv \in Values : f[o + 1] = Header(kk, vv)
  <2>1. f[o + 1] # Rotten /\ f[o + 1] \notin Sums
    BY <1>1 DEF Rotten, Sums, Checksum
  <2>2. CASE f[o + 1] \in Heads
    BY <2>2 DEF Heads
  <2>3. CASE \E w \in Values : f[o + 1] \in CellsOf(w)
    BY <1>1, <2>3, FileMemoAssumption
  <2> QED
    BY <1>2, <2>1, <2>2, <2>3 DEF Cell
<1>4. k = kk /\ v = vv
  BY <1>3 DEF Header
<1>5. m \in Seq(Cell) /\ Len(m) \in Nat
  BY <1>4, ImageFacts
<1> HIDE DEF k, v, m
<1>6. \A i \in 1 .. Len(m) : f[o + i] = m[i]
  <2>1. \A i \in 1 .. Len(m) : SubSeq(f, o + 1, o + Len(m))[i] = f[o + i]
    <3>1. o + Len(m) <= Len(f)
      BY <1>1, <1>5
    <3> QED
      BY <1>5, <3>1, SubCells
  <2> QED
    BY <1>1, <2>1
<1>7. Spells(f, n, b, o, k, v)
  BY <1>1, <1>4, <1>6 DEF Spells, m
<1> QED
  BY <1>7

-----------------------------------------------------------------------------
(* The chain of records a load walks along.                                  *)

\* A record of k and v can be read at offset o of the whole of f.
At(f, b, o, k, v) == Spells(f, Len(f), b, o, k, v)
Readable(f, b, o) == \E k, v : At(f, b, o, k, v)

LEMMA AtFacts ==
    ASSUME NEW f \in Seq(Cell), NEW b, NEW o \in Nat, NEW k, NEW v, At(f, b, o, k, v)
    PROVE  /\ k \in Keys /\ v \in Values /\ Len(Image(k, v)) \in Nat
           /\ Len(Image(k, v)) >= 2 /\ o + Len(Image(k, v)) <= Len(f)
           /\ ReadAt(f, Len(f), b, o) = {<<k, v>>} /\ RecordAt(f, Len(f), b, o) = <<k, v>>
           /\ EndOf(f, Len(f), b, o) = o + Len(Image(k, v))
<1>1. Len(f) \in Nat /\ Len(f) <= Len(f)
  OBVIOUS
<1>2. k \in Keys /\ v \in Values /\ o + Len(Image(k, v)) <= Len(f)
  BY DEF At, Spells
<1>3. Len(Image(k, v)) \in Nat /\ Len(Image(k, v)) >= 2
  BY <1>2, ImageFacts
<1> QED
  BY <1>1, <1>2, <1>3, ReadIs DEF At

LEMMA ReadableIs ==
    ASSUME NEW f \in Seq(Cell), NEW b, NEW o \in Nat
    PROVE  ReadAt(f, Len(f), b, o) # {} <=> Readable(f, b, o)
<1>1. Len(f) \in Nat /\ Len(f) <= Len(f)
  OBVIOUS
<1>2. ASSUME ReadAt(f, Len(f), b, o) # {} PROVE Readable(f, b, o)
  BY <1>1, <1>2, ReadWhat DEF Readable, At
<1>3. ASSUME Readable(f, b, o) PROVE ReadAt(f, Len(f), b, o) # {}
  <2>1. PICK k, v : At(f, b, o, k, v)
    BY <1>3 DEF Readable
  <2>2. ReadAt(f, Len(f), b, o) = {<<k, v>>}
    BY <2>1, AtFacts
  <2> QED
    BY <2>2
<1> QED
  BY <1>2, <1>3

ScanStep(f, b, scan, o) ==
    IF ReadAt(f, Len(f), b, o) = {} THEN {} ELSE {o} \cup scan[EndOf(f, Len(f), b, o)]

\* A readable record ends behind its start and within the file.
LEMMA EndBounds ==
    ASSUME NEW f \in Seq(Cell), NEW b, NEW o \in Nat, ReadAt(f, Len(f), b, o) # {}
    PROVE  /\ EndOf(f, Len(f), b, o) \in Nat /\ o < EndOf(f, Len(f), b, o)
           /\ EndOf(f, Len(f), b, o) <= Len(f)
<1>1. PICK k, v : At(f, b, o, k, v)
  BY ReadableIs DEF Readable
<1> QED
  BY <1>1, AtFacts

\* The scan is well defined: the longest tail of the file on which it were not
\* would end in one on which it is.
LEMMA ScanDefined ==
    ASSUME NEW f \in Seq(Cell), NEW b
    PROVE  \E scan : scan = [o \in 0 .. Len(f) |-> ScanStep(f, b, scan, o)]
<1> DEFINE n == Len(f)
           Defined(m) == \E scan : scan = [o \in n - m .. n |-> ScanStep(f, b, scan, o)]
           T == {m \in Nat : m <= n /\ ~Defined(m)}
<1>1. n \in Nat
  OBVIOUS
<1>2. Defined(0)
  <2>1. ReadAt(f, n, b, n) = {}
    BY <1>1 DEF ReadAt
  <2>2. PICK scan : scan = [o \in n .. n |-> {}]
    OBVIOUS
  <2>3. \A o \in n .. n : ScanStep(f, b, scan, o) = {}
    BY <1>1, <2>1 DEF ScanStep
  <2>4. scan = [o \in n .. n |-> ScanStep(f, b, scan, o)]
    BY <2>2, <2>3
  <2>5. n - 0 = n
    BY <1>1
  <2> QED
    BY <2>4, <2>5
<1>3. ASSUME NEW m \in Nat, m < n, Defined(m) PROVE Defined(m + 1)
  <2> DEFINE low == n - (m + 1)
  <2>1. /\ low \in Nat /\ n - m = low + 1 /\ low .. n = {low} \cup (n - m .. n)
        /\ low \notin n - m .. n
    BY <1>1, <1>3
  <2>2. PICK s : s = [o \in n - m .. n |-> ScanStep(f, b, s, o)]
    BY <1>3
  <2>3. PICK scan : scan = [o \in low .. n |-> IF o = low THEN ScanStep(f, b, s, low) ELSE s[o]]
    OBVIOUS
  <2>4. \A o \in n - m .. n : scan[o] = s[o]
    BY <2>1, <2>3
  <2>5. ASSUME NEW o \in low .. n PROVE ScanStep(f, b, scan, o) = ScanStep(f, b, s, o)
    <3>1. CASE ReadAt(f, n, b, o) = {}
      BY <3>1 DEF ScanStep
    <3>2. CASE ReadAt(f, n, b, o) # {}
      <4> DEFINE e == EndOf(f, n, b, o)
      <4>1. o \in Nat
        BY <2>1
      <4>2. e \in Nat /\ o < e /\ e <= n
        BY <3>2, <4>1, EndBounds
      <4> HIDE DEF e
      <4>3. e \in n - m .. n
        BY <2>1, <4>1, <4>2
      <4>4. scan[e] = s[e]
        BY <2>4, <4>3
      <4> QED
        BY <4>4 DEF ScanStep, e
    <3> QED
      BY <3>1, <3>2
  <2>6. ASSUME NEW o \in low .. n PROVE scan[o] = ScanStep(f, b, scan, o)
    <3>1. CASE o = low
      BY <2>3, <2>5, <3>1
    <3>2. CASE o # low
      <4>1. o \in n - m .. n
        BY <2>1, <3>2
      <4>2. s[o] = ScanStep(f, b, s, o)
        BY <2>2, <4>1
      <4> QED
        BY <2>4, <2>5, <4>1, <4>2
    <3> QED
      BY <3>1, <3>2
  <2>7. scan = [o \in low .. n |-> ScanStep(f, b, scan, o)]
    BY <2>3, <2>6
  <2> QED
    BY <2>7
<1>4. Defined(n)
  <2> SUFFICES ASSUME ~Defined(n) PROVE FALSE
    OBVIOUS
  <2>1. T \in SUBSET Nat /\ T # {}
    BY <1>1
  <2>2. PICK m \in T : \A j \in T : m <= j
    <3> HIDE DEF T
    <3> QED
      BY <2>1, LeastNat
  <2> HIDE DEF Defined
  <2>3. m \in Nat /\ m <= n /\ ~Defined(m) /\ m # 0
    BY <1>2, <2>2
  <2>4. m - 1 \in Nat /\ m - 1 < n /\ m - 1 \notin T /\ (m - 1) + 1 = m
    BY <1>1, <2>2, <2>3
  <2>5. Defined(m - 1)
    BY <1>1, <2>4
  <2>6. Defined((m - 1) + 1)
    BY <1>3, <2>4, <2>5
  <2> QED
    BY <2>3, <2>4, <2>6
<1>5. n - n = 0
  BY <1>1
<1> QED
  BY <1>4, <1>5

\* The sets of offsets the scan collects from each offset on.
LEMMA ScanExists ==
    ASSUME NEW f \in Seq(Cell), NEW b
    PROVE  \E scan : /\ Starts(f, b) = scan[0]
                     /\ \A o \in 0 .. Len(f) : scan[o] = ScanStep(f, b, scan, o)
<1> DEFINE scan == CHOOSE s : s = [o \in 0 .. Len(f) |-> ScanStep(f, b, s, o)]
<1>1. Starts(f, b) = scan[0]
  BY DEF Starts, ScanStep
<1>2. scan = [o \in 0 .. Len(f) |-> ScanStep(f, b, scan, o)]
  BY ScanDefined, Zenon
<1> HIDE DEF scan
<1>3. \A o \in 0 .. Len(f) : scan[o] = ScanStep(f, b, scan, o)
  BY <1>2, Zenon
<1> QED
  BY <1>1, <1>3

\* What a scan from o collects: readable records from o on, each the next of
\* one before it, up to one behind which nothing can be read.
Chain(f, b, S, o) ==
    /\ \A p \in S : /\ p \in Nat /\ o <= p /\ p < Len(f)
                    /\ ReadAt(f, Len(f), b, p) # {}
                    /\ ReadAt(f, Len(f), b, EndOf(f, Len(f), b, p)) # {}
                          => EndOf(f, Len(f), b, p) \in S
                    /\ p = o \/ \E q \in S : EndOf(f, Len(f), b, q) = p
    /\ ReadAt(f, Len(f), b, o) # {} => o \in S

LEMMA ScanChain ==
    ASSUME NEW f \in Seq(Cell), NEW b, NEW scan,
           \A o \in 0 .. Len(f) : scan[o] = ScanStep(f, b, scan, o)
    PROVE  Chain(f, b, scan[0], 0)
<1> DEFINE n == Len(f)
           End(p) == EndOf(f, n, b, p)
           Reads(p) == ReadAt(f, n, b, p)
           Fine(o) == Chain(f, b, scan[o], o)
           T == {m \in Nat : m <= n /\ ~Fine(n - m)}
<1>1. n \in Nat
  OBVIOUS
<1>2. ASSUME NEW o \in 0 .. n, Reads(o) = {} PROVE Fine(o)
  <2>1. scan[o] = {}
    BY <1>2 DEF ScanStep
  <2> QED
    BY <1>2, <2>1 DEF Chain
<1>3. ASSUME NEW o \in 0 .. n, Reads(o) # {}, Fine(End(o)) PROVE Fine(o)
  <2> DEFINE e == End(o)
             S == scan[e]
  <2>1. o \in Nat /\ e \in Nat /\ o < e /\ e <= n
    BY <1>1, <1>3, EndBounds
  <2>2. scan[o] = {o} \cup S
    BY <1>3 DEF ScanStep
  <2>3. \A p \in S : /\ p \in Nat /\ e <= p /\ p < n /\ Reads(p) # {}
                     /\ Reads(End(p)) # {} => End(p) \in S
                     /\ p = e \/ \E q \in S : End(q) = p
    BY <1>3 DEF Chain
  <2>4. Reads(e) # {} => e \in S
    BY <1>3 DEF Chain
  <2> HIDE DEF End, Reads, S
  <2>5. ASSUME NEW p \in {o} \cup S
        PROVE  /\ p \in Nat /\ o <= p /\ p < n /\ Reads(p) # {}
               /\ Reads(End(p)) # {} => End(p) \in {o} \cup S
               /\ p = o \/ \E q \in {o} \cup S : End(q) = p
    <3>1. CASE p = o
      BY <1>1, <1>3, <2>1, <2>4, <3>1
    <3>2. CASE p \in S
      BY <1>1, <2>1, <2>3, <3>2
    <3> QED
      BY <3>1, <3>2
  <2> USE DEF End, Reads
  <2>6. Chain(f, b, {o} \cup S, o)
    BY <2>5 DEF Chain
  <2> QED
    BY <2>2, <2>6
<1> HIDE DEF Fine
<1>4. Fine(n - n)
  <2> SUFFICES ASSUME ~Fine(n - n) PROVE FALSE
    OBVIOUS
  <2>1. T \in SUBSET Nat /\ T # {}
    BY <1>1
  <2>2. PICK m \in T : \A j \in T : m <= j
    <3> HIDE DEF T
    <3> QED
      BY <2>1, LeastNat
  <2>3. m \in Nat /\ m <= n /\ ~Fine(n - m) /\ n - m \in 0 .. n
    BY <1>1, <2>2
  <2>4. Reads(n - m) # {}
    BY <1>2, <2>3
  <2>5. n - m \in Nat /\ End(n - m) \in Nat /\ n - m < End(n - m) /\ End(n - m) <= n
    BY <2>3, <2>4, EndBounds
  <2>6. n - End(n - m) \in Nat /\ n - End(n - m) < m /\ n - End(n - m) <= n
    BY <1>1, <2>3, <2>5
  <2>7. n - End(n - m) \notin T
    BY <1>1, <2>2, <2>3, <2>6
  <2>8. Fine(n - (n - End(n - m)))
    BY <2>6, <2>7
  <2>9. n - (n - End(n - m)) = End(n - m)
    BY <1>1, <2>5
  <2> QED
    BY <1>3, <2>3, <2>4, <2>8, <2>9
<1>5. n - n = 0
  BY <1>1
<1> QED
  BY <1>4, <1>5 DEF Fine

\* The records a load reaches, by offset, key and value.
Rec(f, b, o, k, v) == o \in Starts(f, b) /\ At(f, b, o, k, v)

LEMMA StartsChain ==
    ASSUME NEW f \in Seq(Cell), NEW b
    PROVE  /\ \A p \in Starts(f, b) : /\ p \in Nat /\ p < Len(f) /\ Readable(f, b, p)
                                      /\ \/ p = 0
                                         \/ \E q, k, v : /\ Rec(f, b, q, k, v)
                                                         /\ q + Len(Image(k, v)) = p
           /\ Readable(f, b, 0) => 0 \in Starts(f, b)
           /\ \A p, k, v : /\ Rec(f, b, p, k, v)
                           /\ Readable(f, b, p + Len(Image(k, v)))
                           => p + Len(Image(k, v)) \in Starts(f, b)
<1> DEFINE n == Len(f)
           S == Starts(f, b)
<1>1. Chain(f, b, S, 0)
  BY ScanExists, ScanChain
<1>2. /\ \A p \in S : /\ p \in Nat /\ p < n /\ ReadAt(f, n, b, p) # {}
                      /\ ReadAt(f, n, b, EndOf(f, n, b, p)) # {} => EndOf(f, n, b, p) \in S
                      /\ p = 0 \/ \E q \in S : EndOf(f, n, b, q) = p
      /\ ReadAt(f, n, b, 0) # {} => 0 \in S
  BY <1>1 DEF Chain
<1>3. ASSUME NEW p \in S
      PROVE  /\ p \in Nat /\ p < n /\ Readable(f, b, p)
             /\ \E k, v : At(f, b, p, k, v) /\ EndOf(f, n, b, p) = p + Len(Image(k, v))
  <2>1. p \in Nat /\ p < n /\ Readable(f, b, p)
    BY <1>2, ReadableIs
  <2> QED
    BY <2>1, AtFacts DEF Readable
<1>4. ASSUME NEW p \in S
      PROVE  p = 0 \/ \E q, k, v : Rec(f, b, q, k, v) /\ q + Len(Image(k, v)) = p
  <2>1. CASE \E q \in S : EndOf(f, n, b, q) = p
    <3>1. PICK q \in S : EndOf(f, n, b, q) = p
      BY <2>1
    <3>2. PICK k, v : At(f, b, q, k, v) /\ EndOf(f, n, b, q) = q + Len(Image(k, v))
      BY <1>3
    <3> QED
      BY <3>1, <3>2 DEF Rec
  <2> QED
    BY <1>2, <2>1
<1>5. Readable(f, b, 0) => 0 \in S
  BY <1>2, ReadableIs
<1>6. ASSUME NEW p, NEW k, NEW v, Rec(f, b, p, k, v),
             Readable(f, b, p + Len(Image(k, v)))
      PROVE  p + Len(Image(k, v)) \in S
  <2>1. p \in S /\ At(f, b, p, k, v)
    BY <1>6 DEF Rec
  <2>2. p \in Nat
    BY <1>3, <2>1
  <2>3. EndOf(f, n, b, p) = p + Len(Image(k, v)) /\ p + Len(Image(k, v)) \in Nat
    BY <2>1, <2>2, AtFacts
  <2>4. ReadAt(f, n, b, p + Len(Image(k, v))) # {}
    BY <1>6, <2>3, ReadableIs
  <2> QED
    BY <1>2, <2>1, <2>3, <2>4
<1> QED
  BY <1>3, <1>4, <1>5, <1>6

LEMMA RecFacts ==
    ASSUME NEW f \in Seq(Cell), NEW b, NEW o, NEW k, NEW v, Rec(f, b, o, k, v)
    PROVE  /\ o \in Nat /\ k \in Keys /\ v \in Values
           /\ Len(Image(k, v)) \in Nat /\ Len(Image(k, v)) >= 2
           /\ o + Len(Image(k, v)) <= Len(f) /\ o + Len(Image(k, v)) \in Nat
           /\ \A j, w : At(f, b, o, j, w) => j = k /\ w = v
<1>1. o \in Nat /\ At(f, b, o, k, v)
  BY StartsChain DEF Rec
<1>2. ASSUME NEW j, NEW w, At(f, b, o, j, w) PROVE j = k /\ w = v
  <2> DEFINE reads == ReadAt(f, Len(f), b, o)
  <2>3. reads = {<<j, w>>}
    BY <1>1, <1>2, AtFacts
  <2>4. reads = {<<k, v>>}
    BY <1>1, AtFacts
  <2>1. {<<j, w>>} = {<<k, v>>}
    BY <2>3, <2>4
  <2>2. <<j, w>> = <<k, v>>
    BY <2>1
  <2> QED
    BY <2>2
<1>3. /\ k \in Keys /\ v \in Values /\ Len(Image(k, v)) \in Nat
      /\ Len(Image(k, v)) >= 2 /\ o + Len(Image(k, v)) <= Len(f)
  BY <1>1, AtFacts
<1> QED
  BY <1>1, <1>2, <1>3

\* Records of the chain do not overlap.
LEMMA Disjoint ==
    ASSUME NEW f \in Seq(Cell), NEW b, NEW o, NEW k, NEW v, Rec(f, b, o, k, v),
           NEW p \in Starts(f, b), o < p
    PROVE  o + Len(Image(k, v)) <= p
<1> DEFINE Apart(e) == \A oo, kk, vv :
               Rec(f, b, oo, kk, vv) /\ oo < e => oo + Len(Image(kk, vv)) <= e
           T == {e \in Starts(f, b) : ~Apart(e)}
<1>1. SUFFICES ASSUME T # {} PROVE FALSE
  OBVIOUS
<1>2. PICK e \in T : \A j \in T : e <= j
  <2>1. T \in SUBSET Nat
    BY StartsChain
  <2> HIDE DEF T
  <2> QED
    BY <1>1, <2>1, LeastNat
<1>3. e \in Starts(f, b) /\ e \in Nat
  BY <1>2, StartsChain
<1>4. PICK x, kx, vx : Rec(f, b, x, kx, vx) /\ x < e /\ ~(x + Len(Image(kx, vx)) <= e)
  BY <1>2
<1>5. x \in Nat /\ x \in Starts(f, b) /\ x + Len(Image(kx, vx)) \in Nat
  BY <1>4, RecFacts DEF Rec
<1>6. PICK q, kq, vq : Rec(f, b, q, kq, vq) /\ q + Len(Image(kq, vq)) = e
  BY <1>3, <1>4, <1>5, StartsChain
<1>7. /\ q \in Nat /\ q \in Starts(f, b) /\ q < e /\ At(f, b, q, kq, vq)
      /\ \A j, w : At(f, b, q, j, w) => j = kq /\ w = vq
  BY <1>6, RecFacts DEF Rec
<1>8. CASE x = q
  <2>1. kx = kq /\ vx = vq
    BY <1>4, <1>7, <1>8 DEF Rec
  <2> QED
    BY <1>3, <1>4, <1>6, <1>8, <2>1
<1>9. CASE x < q
  <2>1. Apart(q)
    BY <1>2, <1>3, <1>7
  <2>2. x + Len(Image(kx, vx)) <= q
    BY <1>4, <1>9, <2>1
  <2> QED
    BY <1>3, <1>4, <1>5, <1>7, <2>2
<1>10. CASE q < x
  <2>1. Apart(x)
    BY <1>2, <1>3, <1>4, <1>5
  <2>2. q + Len(Image(kq, vq)) <= x
    BY <1>6, <1>10, <2>1
  <2> QED
    BY <1>3, <1>4, <1>5, <1>6, <2>2
<1> QED
  BY <1>5, <1>7, <1>8, <1>9, <1>10

-----------------------------------------------------------------------------
(* Two files that agree on their first m cells.                              *)

Agree(f, h, m) ==
    /\ m \in Nat /\ m <= Len(f) /\ m <= Len(h)
    /\ \A i \in 1 .. m : h[i] = f[i]

\* Offset m is where the log's records up to m end.
Closed(f, b, m) ==
    m = 0 \/ \E o, k, v : Rec(f, b, o, k, v) /\ o + Len(Image(k, v)) = m

LEMMA AtStays ==
    ASSUME NEW f \in Seq(Cell), NEW h \in Seq(Cell), NEW b, NEW m, Agree(f, h, m),
           NEW o \in Nat, NEW k, NEW v, At(f, b, o, k, v), o + Len(Image(k, v)) <= m
    PROVE  At(h, b, o, k, v)
<1> DEFINE l == Len(Image(k, v))
<1>1. /\ k \in Keys /\ v \in Values /\ l \in Nat /\ Len(Bytes(v)) <= b
      /\ \A i \in 1 .. l : f[o + i] = Image(k, v)[i]
  BY AtFacts DEF At, Spells
<1>2. o + l <= Len(h) /\ o + l <= m
  BY <1>1 DEF Agree
<1> HIDE DEF l
<1>3. ASSUME NEW i \in 1 .. l PROVE h[o + i] = f[o + i]
  <2>1. o + i \in 1 .. m
    BY <1>1, <1>2 DEF Agree
  <2> QED
    BY <2>1 DEF Agree
<1>4. \A i \in 1 .. l : h[o + i] = Image(k, v)[i]
  BY <1>1, <1>3
<1> QED
  BY <1>1, <1>2, <1>4 DEF At, Spells, l

\* A record among the cells two files share is a record of both.
LEMMA RecStays ==
    ASSUME NEW f \in Seq(Cell), NEW h \in Seq(Cell), NEW b, NEW m, Agree(f, h, m),
           NEW o, NEW k, NEW v, Rec(f, b, o, k, v), o + Len(Image(k, v)) <= m
    PROVE  Rec(h, b, o, k, v)
<1> DEFINE Lost(p) == \E kk, vv : /\ Rec(f, b, p, kk, vv) /\ p + Len(Image(kk, vv)) <= m
                                  /\ p \notin Starts(h, b)
           T == {p \in Nat : Lost(p)}
<1>1. o \in Nat /\ At(f, b, o, k, v)
  BY RecFacts DEF Rec
<1>2. At(h, b, o, k, v)
  BY <1>1, AtStays
<1>3. SUFFICES ASSUME T # {} PROVE FALSE
  <2>1. o \notin Starts(h, b) => o \in T
    BY <1>1
  <2> QED
    BY <1>2, <1>3, <2>1 DEF Rec
<1>4. PICK p \in T : \A j \in T : p <= j
  <2>1. T \in SUBSET Nat
    OBVIOUS
  <2> HIDE DEF T
  <2> QED
    BY <1>3, <2>1, LeastNat
<1>5. PICK kp, vp : /\ Rec(f, b, p, kp, vp) /\ p + Len(Image(kp, vp)) <= m
                    /\ p \notin Starts(h, b)
  BY <1>4
<1>6. /\ p \in Nat /\ p \in Starts(f, b) /\ At(f, b, p, kp, vp)
      /\ Len(Image(kp, vp)) \in Nat
  BY <1>5, RecFacts DEF Rec
<1>7. At(h, b, p, kp, vp)
  BY <1>5, <1>6, AtStays
<1>8. Readable(h, b, p)
  BY <1>7 DEF Readable
<1>9. p # 0
  BY <1>5, <1>8, StartsChain
<1>10. PICK q, kq, vq : Rec(f, b, q, kq, vq) /\ q + Len(Image(kq, vq)) = p
  BY <1>6, <1>9, StartsChain
<1>11. /\ q \in Nat /\ At(f, b, q, kq, vq) /\ Len(Image(kq, vq)) \in Nat
       /\ Len(Image(kq, vq)) >= 2
  BY <1>10, RecFacts DEF Rec
<1>12. q < p /\ q + Len(Image(kq, vq)) <= m
  BY <1>5, <1>6, <1>10, <1>11 DEF Agree
<1>13. q \notin T
  BY <1>4, <1>6, <1>11, <1>12
<1>14. q \in Starts(h, b)
  BY <1>10, <1>11, <1>12, <1>13
<1>15. Rec(h, b, q, kq, vq)
  BY <1>11, <1>12, <1>14, AtStays DEF Rec
<1>16. p \in Starts(h, b)
  BY <1>8, <1>10, <1>15, StartsChain
<1> QED
  BY <1>5, <1>16

\* A record that starts before m, where records end, ends by m.
LEMMA BelowEnd ==
    ASSUME NEW f \in Seq(Cell), NEW b, NEW m \in Nat, Closed(f, b, m),
           NEW o, NEW k, NEW v, Rec(f, b, o, k, v), o < m
    PROVE  o + Len(Image(k, v)) <= m
<1>1. o \in Nat /\ o \in Starts(f, b) /\ At(f, b, o, k, v) /\ o + Len(Image(k, v)) \in Nat
  BY RecFacts DEF Rec
<1>2. PICK q, kq, vq : Rec(f, b, q, kq, vq) /\ q + Len(Image(kq, vq)) = m
  BY <1>1 DEF Closed
<1>3. /\ q \in Nat /\ q \in Starts(f, b) /\ Len(Image(kq, vq)) \in Nat
      /\ \A j, w : At(f, b, q, j, w) => j = kq /\ w = vq
  BY <1>2, RecFacts DEF Rec
<1>4. CASE o = q
  <2>1. k = kq /\ v = vq
    BY <1>1, <1>3, <1>4
  <2> QED
    BY <1>2, <1>4, <2>1
<1>5. CASE o < q
  <2>1. o + Len(Image(k, v)) <= q
    BY <1>3, <1>5, Disjoint
  <2> QED
    BY <1>1, <1>2, <1>3, <2>1
<1>6. CASE q < o
  <2>1. q + Len(Image(kq, vq)) <= o
    BY <1>1, <1>2, <1>6, Disjoint
  <2> QED
    BY <1>1, <1>2, <2>1
<1> QED
  BY <1>1, <1>3, <1>4, <1>5, <1>6

\* Up to m, where records of f end, a file that agrees with f holds f's records.
LEMMA SameBelow ==
    ASSUME NEW f \in Seq(Cell), NEW h \in Seq(Cell), NEW b, NEW m, Agree(f, h, m),
           Closed(f, b, m)
    PROVE  /\ Closed(h, b, m)
           /\ \A o, k, v : o < m => (Rec(h, b, o, k, v) <=> Rec(f, b, o, k, v))
<1>1. m \in Nat /\ Agree(h, f, m)
  BY DEF Agree
<1>2. Closed(h, b, m)
  <2>1. CASE m = 0
    BY <2>1 DEF Closed
  <2>2. CASE m # 0
    <3>1. PICK o, k, v : Rec(f, b, o, k, v) /\ o + Len(Image(k, v)) = m
      BY <2>2 DEF Closed
    <3>2. Rec(h, b, o, k, v)
      BY <1>1, <3>1, RecStays, SMTT(20)
    <3> QED
      BY <3>1, <3>2 DEF Closed
  <2> QED
    BY <2>1, <2>2
<1>3. ASSUME NEW o, NEW k, NEW v, o < m, Rec(f, b, o, k, v) PROVE Rec(h, b, o, k, v)
  <2>1. o + Len(Image(k, v)) <= m
    BY <1>1, <1>3, BelowEnd
  <2> QED
    BY <1>3, <2>1, RecStays
<1>4. ASSUME NEW o, NEW k, NEW v, o < m, Rec(h, b, o, k, v) PROVE Rec(f, b, o, k, v)
  <2>1. o + Len(Image(k, v)) <= m
    BY <1>1, <1>2, <1>4, BelowEnd
  <2> QED
    BY <1>1, <1>4, <2>1, RecStays
<1> QED
  BY <1>2, <1>3, <1>4

\* Where the records a load reaches end.
LEMMA PrefixIs ==
    ASSUME NEW f \in Seq(Cell), NEW b
    PROVE  /\ Prefix(f, b) \in Nat /\ Prefix(f, b) <= Len(f)
           /\ Closed(f, b, Prefix(f, b))
           /\ \A o, k, v : Rec(f, b, o, k, v) => o < Prefix(f, b)
<1> DEFINE S == Starts(f, b)
           P == Prefix(f, b)
<1>1. \A p \in S : p \in Nat /\ p < Len(f) /\ Readable(f, b, p)
  BY StartsChain
<1>2. CASE S = {}
  <2>1. P = 0 /\ \A o, k, v : ~Rec(f, b, o, k, v)
    BY <1>2 DEF Prefix, Rec
  <2> QED
    BY <2>1 DEF Closed
<1>3. CASE S # {}
  <2> DEFINE T == {Len(f) - p : p \in S}
  <2>1. PICK x \in T : \A y \in T : x <= y
    <3>1. T \in SUBSET Nat /\ T # {}
      BY <1>1, <1>3
    <3> HIDE DEF T
    <3> QED
      BY <3>1, LeastNat
  <2>2. PICK p \in S : x = Len(f) - p
    BY <2>1
  <2>3. ASSUME NEW q \in S PROVE p >= q
    <3>1. Len(f) - q \in T
      OBVIOUS
    <3>2. Len(f) - p <= Len(f) - q
      BY <2>1, <2>2, <3>1
    <3> QED
      BY <1>1, <2>2, <3>2
  <2> DEFINE e == Max(S)
  <2>4. e \in S /\ \A q \in S : e >= q
    BY <2>3 DEF Max
  <2>5. P = EndOf(f, Len(f), b, e)
    BY <1>3 DEF Prefix
  <2> HIDE DEF e, S
  <2>6. PICK k, v : At(f, b, e, k, v)
    BY <1>1, <2>4 DEF Readable
  <2>7. /\ P = e + Len(Image(k, v)) /\ Rec(f, b, e, k, v) /\ e \in Nat
        /\ Len(Image(k, v)) \in Nat /\ Len(Image(k, v)) >= 2 /\ e + Len(Image(k, v)) <= Len(f)
    BY <1>1, <2>4, <2>5, <2>6, AtFacts DEF Rec, S
  <2>8. ASSUME NEW o, NEW j, NEW w, Rec(f, b, o, j, w) PROVE o < P
    <3>1. o \in S
      BY <2>8 DEF Rec, S
    <3>2. o \in Nat
      BY <2>8, RecFacts
    <3>3. e >= o
      BY <2>4, <3>1
    <3> HIDE DEF P
    <3> DEFINE l == Len(Image(k, v))
    <3>4. P = e + l /\ e \in Nat /\ l \in Nat /\ l >= 2
      BY <2>7
    <3> HIDE DEF l
    <3> QED
      BY <3>2, <3>3, <3>4
  <2> HIDE DEF P
  <2>9. Closed(f, b, P)
    BY <2>7 DEF Closed
  <2>10. P \in Nat /\ P <= Len(f)
    BY <2>7
  <2> QED
    BY <2>8, <2>9, <2>10 DEF P
<1> QED
  BY <1>2, <1>3

\* Cutting the file behind its last record changes no record.
LEMMA CutIs ==
    ASSUME NEW f \in Seq(Cell), NEW b
    PROVE  LET h == SubSeq(f, 1, Prefix(f, b))
           IN  /\ h \in Seq(Cell) /\ Len(h) = Prefix(f, b) /\ Agree(f, h, Prefix(f, b))
               /\ \A o, k, v : Rec(h, b, o, k, v) <=> Rec(f, b, o, k, v)
<1> DEFINE h == SubSeq(f, 1, Prefix(f, b))
           P == Prefix(f, b)
<1>1. /\ P \in Nat /\ P <= Len(f) /\ Closed(f, b, P)
      /\ \A o, k, v : Rec(f, b, o, k, v) => o < P
  BY PrefixIs
<1>2. h \in Seq(Cell) /\ Len(h) = P /\ \A i \in 1 .. P : h[i] = f[i]
  <2> HIDE DEF P
  <2>1. 1 \in 1 .. Len(f) + 1 /\ P \in 0 .. Len(f)
    BY <1>1
  <2> USE DEF P
  <2> DEFINE n == P
  <2>2. h = SubSeq(f, 1, n) /\ n \in 0 .. Len(f)
    BY <2>1
  <2> HIDE DEF n, h, P
  <2>3. h \in Seq(Cell) /\ Len(h) = n /\ \A i \in 1 .. n : h[i] = f[i]
    BY <2>1, <2>2
  <2> QED
    BY <2>3 DEF n
<1>3. Agree(f, h, P)
  BY <1>1, <1>2 DEF Agree
<1> HIDE DEF h, P
<1>4. \A o, k, v : o < P => (Rec(h, b, o, k, v) <=> Rec(f, b, o, k, v))
  BY <1>1, <1>2, <1>3, SameBelow
<1>5. \A o, k, v : Rec(h, b, o, k, v) => o < P
  <2> SUFFICES ASSUME NEW o, NEW k, NEW v, Rec(h, b, o, k, v) PROVE o < P
    OBVIOUS
  <2>1. o \in Nat /\ Len(Image(k, v)) \in Nat /\ Len(Image(k, v)) >= 2
        /\ o + Len(Image(k, v)) <= Len(h)
    BY <1>2, RecFacts
  <2> QED
    BY <1>1, <1>2, <2>1
<1>6. \A o, k, v : Rec(h, b, o, k, v) <=> Rec(f, b, o, k, v)
  BY <1>1, <1>4, <1>5
<1> QED
  BY <1>2, <1>3, <1>6 DEF h, P


-----------------------------------------------------------------------------
(* Writing a record, whole or in part.                                       *)

LEMMA WrittenIs ==
    ASSUME NEW f \in Seq(Cell), NEW o \in Nat, o <= Len(f), NEW c \in Seq(Cell)
    PROVE  /\ Written(f, o, c) \in Seq(Cell)
           /\ Len(Written(f, o, c)) \in Nat
           /\ Len(f) <= Len(Written(f, o, c)) /\ o + Len(c) <= Len(Written(f, o, c))
           /\ Agree(f, Written(f, o, c), o)
           /\ \A i \in 1 .. Len(c) : Written(f, o, c)[o + i] = c[i]
           /\ \A i \in 1 .. Len(Written(f, o, c)) :
                 \/ \E j \in 1 .. Len(c) : i = o + j /\ Written(f, o, c)[i] = c[j]
                 \/ i \in 1 .. Len(f) /\ Written(f, o, c)[i] = f[i]
<1> DEFINE n == IF o + Len(c) > Len(f) THEN o + Len(c) ELSE Len(f)
           g == Written(f, o, c)
<1>1. Len(f) \in Nat /\ Len(c) \in Nat
  OBVIOUS
<1>2. n \in Nat /\ Len(f) <= n /\ o + Len(c) <= n /\ (n = Len(f) \/ n = o + Len(c))
  BY <1>1
<1>3. g = [i \in 1 .. n |-> IF i \in o + 1 .. o + Len(c) THEN c[i - o] ELSE f[i]]
  BY DEF Written
<1> HIDE DEF n, g
<1>4. ASSUME NEW i \in 1 .. n
      PROVE  /\ \/ i - o \in 1 .. Len(c) /\ i = o + (i - o) /\ g[i] = c[i - o]
                \/ i \in 1 .. Len(f) /\ g[i] = f[i]
             /\ g[i] \in Cell
  <2>1. CASE i \in o + 1 .. o + Len(c)
    <3>1. g[i] = c[i - o]
      BY <1>3, <2>1
    <3>2. i - o \in 1 .. Len(c) /\ i = o + (i - o)
      BY <1>1, <2>1
    <3>3. c[i - o] \in Cell
      BY <3>2
    <3> QED
      BY <3>1, <3>2, <3>3
  <2>2. CASE i \notin o + 1 .. o + Len(c)
    <3>1. g[i] = f[i]
      BY <1>3, <2>2
    <3>2. i \in 1 .. Len(f)
      BY <1>1, <1>2, <2>2
    <3>3. f[i] \in Cell
      BY <3>2
    <3> QED
      BY <3>1, <3>2, <3>3
  <2> QED
    BY <2>1, <2>2
<1>5. g \in Seq(Cell) /\ Len(g) = n
  <2>1. g \in [1 .. n -> Cell]
    <3>1. DOMAIN g = 1 .. n /\ g = [i \in 1 .. n |-> g[i]]
      BY <1>3
    <3> QED
      BY <1>4, <3>1
  <2> QED
    BY <1>2, <2>1
<1>6. ASSUME NEW i \in 1 .. o PROVE g[i] = f[i]
  <2>1. i \in 1 .. n /\ i \notin o + 1 .. o + Len(c)
    BY <1>1, <1>2
  <2> QED
    BY <1>3, <2>1
<1>7. ASSUME NEW i \in 1 .. Len(c) PROVE g[o + i] = c[i]
  <2>1. o + i \in 1 .. n /\ o + i \in o + 1 .. o + Len(c) /\ (o + i) - o = i
    BY <1>1, <1>2
  <2> QED
    BY <1>3, <2>1
<1>8. Agree(f, g, o)
  <2>1. o <= Len(g)
    BY <1>1, <1>2, <1>5
  <2> QED
    BY <1>6, <2>1 DEF Agree
<1>9. \A i \in 1 .. Len(g) :
         \/ \E j \in 1 .. Len(c) : i = o + j /\ g[i] = c[j]
         \/ i \in 1 .. Len(f) /\ g[i] = f[i]
  BY <1>4, <1>5
<1> QED
  BY <1>2, <1>5, <1>7, <1>8, <1>9 DEF g

\* The first n cells of a record.
LEMMA PartIs ==
    ASSUME NEW k \in Keys, NEW v \in Values, NEW n \in 0 .. Len(Image(k, v))
    PROVE  /\ SubSeq(Image(k, v), 1, n) \in Seq(Cell)
           /\ Len(SubSeq(Image(k, v), 1, n)) = n
           /\ \A i \in 1 .. n : SubSeq(Image(k, v), 1, n)[i] = Image(k, v)[i]
<1> DEFINE m == Image(k, v)
<1>1. m \in Seq(Cell)
  BY ImageFacts
<1>2. n \in 0 .. Len(m)
  OBVIOUS
<1> HIDE DEF m
<1>3. /\ SubSeq(m, 1, n) \in Seq(Cell) /\ Len(SubSeq(m, 1, n)) = n
      /\ \A i \in 1 .. n : SubSeq(m, 1, n)[i] = m[i]
  BY <1>1, <1>2
<1> QED
  BY <1>3 DEF m

\* A record's cells: its head, its checksum and, between them, its value's.
LEMMA ImageCells ==
    ASSUME NEW k \in Keys, NEW v \in Values, NEW i \in 1 .. Len(Image(k, v))
    PROVE  \/ i = 1 /\ Image(k, v)[i] = Header(k, v)
           \/ i = Len(Image(k, v)) /\ Image(k, v)[i] = Checksum(k, v)
           \/ Image(k, v)[i] \in CellsOf(v)
<1> DEFINE h == Header(k, v)
           c == Checksum(k, v)
           s == Bytes(v)
           p == <<h>> \o s
           q == p \o <<c>>
<1>1. s \in Seq(CellsOf(v)) /\ Len(s) \in Nat
  BY FileMemoAssumption
<1>2. q = Image(k, v)
  BY DEF Image
<1>3. p \in Seq(CellsOf(v) \cup {h}) /\ Len(p) = Len(s) + 1 /\ p[1] = h
      /\ \A j \in 2 .. Len(s) + 1 : p[j] = s[j - 1]
  <2> HIDE DEF h, s
  <2> QED
    BY <1>1
<1> HIDE DEF p
<1>4. /\ Len(q) = Len(s) + 2 /\ q[Len(s) + 2] = c
      /\ \A j \in 1 .. Len(s) + 1 : q[j] = p[j]
  <2> HIDE DEF h, c, s
  <2> QED
    BY <1>1, <1>3
<1> HIDE DEF q
<1>5. i \in 1 .. Len(q)
  BY <1>2
<1>6. CASE i = 1
  <2>1. q[i] = h
    BY <1>1, <1>3, <1>4, <1>6
  <2> QED
    BY <1>2, <1>6, <2>1
<1>7. CASE i \in 2 .. Len(s) + 1
  <2>1. q[i] = s[i - 1] /\ i - 1 \in 1 .. Len(s)
    BY <1>1, <1>3, <1>4, <1>7
  <2>2. s[i - 1] \in CellsOf(v)
    BY <1>1, <2>1
  <2> QED
    BY <1>2, <2>1, <2>2
<1>8. CASE i = Len(s) + 2
  BY <1>2, <1>4, <1>8
<1> QED
  BY <1>1, <1>4, <1>5, <1>6, <1>7, <1>8

LEMMA LastCell ==
    ASSUME NEW k \in Keys, NEW v \in Values
    PROVE  Image(k, v)[Len(Image(k, v))] = Checksum(k, v)
<1> DEFINE h == Header(k, v)
           c == Checksum(k, v)
           s == Bytes(v)
           p == <<h>> \o s
<1>1. s \in Seq(CellsOf(v)) /\ Len(s) \in Nat
  BY FileMemoAssumption
<1>2. p \in Seq(CellsOf(v) \cup {h}) /\ Len(p) = Len(s) + 1
  <2> HIDE DEF h, s
  <2> QED
    BY <1>1
<1>3. Image(k, v) = p \o <<c>>
  BY DEF Image
<1> HIDE DEF p, c
<1>4. Len(p \o <<c>>) = Len(s) + 2 /\ (p \o <<c>>)[Len(s) + 2] = c
  BY <1>1, <1>2
<1> QED
  BY <1>3, <1>4 DEF c


-----------------------------------------------------------------------------
(* The state's shape.                                                        *)

Prints == {Fp(k) : k \in Keys}

TypeOK ==
    /\ file \in Seq(Cell) /\ rotten \in SUBSET Nat
    /\ up \in BOOLEAN
    /\ good \in Nat /\ fsize \in Nat
    /\ index \in [Prints -> SUBSET Nat]
    /\ acked \subseteq [key : Keys, value : Values, start : Nat]
    /\ up => /\ bound \in Bounds
             /\ good <= fsize /\ fsize <= Len(file)
             /\ \A p \in Prints : \A o \in index[p] : o < good

\* What a load builds its index from.
LEMMA IndexIs ==
    ASSUME NEW f \in Seq(Cell), NEW b
    PROVE  /\ IndexOf(f, b) \in [Prints -> SUBSET Nat]
           /\ \A p \in Prints : IndexOf(f, b)[p] \subseteq Starts(f, b)
<1> DEFINE all(k) == Holding(f, Len(f), b, k, Starts(f, b))
           firsts(k) == {o \in all(k) : \A q \in all(k) : o <= q}
           at(p) == UNION {firsts(k) : k \in {j \in Keys : Fp(j) = p}}
<1>1. IndexOf(f, b) = [p \in Prints |-> at(p)]
  BY DEF IndexOf, Prints
<1>2. \A k : firsts(k) \subseteq Starts(f, b)
  BY DEF Holding
<1>3. Starts(f, b) \subseteq Nat
  BY StartsChain
<1> HIDE DEF firsts
<1>4. \A p \in Prints : at(p) \subseteq Starts(f, b)
  BY <1>2
<1> HIDE DEF at
<1>5. \A p \in Prints : at(p) \in SUBSET Nat
  BY <1>3, <1>4
<1>6. IndexOf(f, b) \in [Prints -> SUBSET Nat]
  BY <1>1, <1>5
<1> QED
  BY <1>1, <1>4, <1>6

\* An offset a record starts at lies before the end of the readable prefix.
LEMMA StartsBelow ==
    ASSUME NEW f \in Seq(Cell), NEW b, NEW o \in Starts(f, b)
    PROVE  o \in Nat /\ o < Prefix(f, b)
<1>1. PICK k, v : At(f, b, o, k, v)
  BY StartsChain DEF Readable
<1> QED
  BY <1>1, PrefixIs, StartsChain DEF Rec

LEMMA TypeInit ==
    Init => TypeOK
<1> SUFFICES ASSUME Init PROVE TypeOK
  OBVIOUS
<1>1. file = <<>> /\ rotten = {} /\ up = FALSE /\ good = 0 /\ fsize = 0 /\ acked = {}
  BY DEF Init
<1>2. index = [p \in Prints |-> {}]
  BY DEF Init, NoIndex, Prints
<1>3. index \in [Prints -> SUBSET Nat]
  BY <1>2
<1>4. file \in Seq(Cell)
  BY <1>1
<1> QED
  BY <1>1, <1>3, <1>4 DEF TypeOK

LEMMA NoIndexType == NoIndex \in [Prints -> SUBSET Nat]
BY DEF NoIndex, Prints

\* What a publish writes, as seen from the cursor: at most the record, a part of it.
LEMMA AppendIs ==
    ASSUME TypeOK, up, NEW k \in Keys, NEW v \in Values, NEW n \in 0 .. Len(Image(k, v)),
           file' = Written(file, good, SubSeq(Image(k, v), 1, n))
    PROVE  /\ file' \in Seq(Cell) /\ Len(file') \in Nat /\ Len(file) <= Len(file')
           /\ good + n <= Len(file') /\ Agree(file, file', good)
           /\ \A i \in 1 .. n : file'[good + i] = Image(k, v)[i]
           /\ \A i \in 1 .. Len(file') :
                 \/ \E j \in 1 .. n : i = good + j /\ file'[i] = Image(k, v)[j]
                 \/ i \in 1 .. Len(file) /\ file'[i] = file[i]
<1>1. file \in Seq(Cell) /\ good \in Nat /\ good <= Len(file)
  BY DEF TypeOK
<1> DEFINE c == SubSeq(Image(k, v), 1, n)
           m == Image(k, v)
<1>2. c \in Seq(Cell) /\ Len(c) = n /\ \A i \in 1 .. n : c[i] = m[i]
  BY PartIs
<1>3. file' = Written(file, good, c)
  OBVIOUS
<1> HIDE DEF c, m
<1> DEFINE w == Written(file, good, c)
<1>4. /\ w \in Seq(Cell) /\ Len(w) \in Nat
      /\ Len(file) <= Len(w) /\ good + Len(c) <= Len(w)
      /\ Agree(file, w, good)
      /\ \A i \in 1 .. Len(c) : w[good + i] = c[i]
      /\ \A i \in 1 .. Len(w) :
            \/ \E j \in 1 .. Len(c) : i = good + j /\ w[i] = c[j]
            \/ i \in 1 .. Len(file) /\ w[i] = file[i]
  BY <1>1, <1>2, WrittenIs
<1> HIDE DEF w
<1>5. \A i \in 1 .. n : w[good + i] = m[i]
  BY <1>2, <1>4
<1>6. \A i \in 1 .. Len(w) :
         \/ \E j \in 1 .. n : i = good + j /\ w[i] = m[j]
         \/ i \in 1 .. Len(file) /\ w[i] = file[i]
  BY <1>2, <1>4
<1>7. file' = w
  BY <1>3 DEF w
<1> QED
  BY <1>2, <1>4, <1>5, <1>6, <1>7 DEF m

\* A landed publish writes the whole record.
LEMMA WholeIs ==
    ASSUME NEW k \in Keys, NEW v \in Values
    PROVE  /\ Len(Image(k, v)) \in 0 .. Len(Image(k, v))
           /\ SubSeq(Image(k, v), 1, Len(Image(k, v))) = Image(k, v)
<1> DEFINE m == Image(k, v)
           c == SubSeq(m, 1, Len(m))
<1>1. m \in Seq(Cell) /\ Len(m) \in Nat
  BY ImageFacts
<1>2. Len(m) \in 0 .. Len(m)
  BY <1>1
<1>3. c \in Seq(Cell) /\ Len(c) = Len(m) /\ \A i \in 1 .. Len(m) : c[i] = m[i]
  BY <1>2, PartIs
<1> HIDE DEF c, m
<1>4. c = m
  BY <1>1, <1>3
<1> QED
  BY <1>2, <1>4 DEF c, m

LEMMA TypeNext ==
    ASSUME TypeOK, Step
    PROVE  TypeOK'
<1>1. /\ file \in Seq(Cell) /\ rotten \in SUBSET Nat /\ up \in BOOLEAN
      /\ good \in Nat /\ fsize \in Nat /\ index \in [Prints -> SUBSET Nat]
      /\ acked \subseteq [key : Keys, value : Values, start : Nat]
      /\ Len(file) \in Nat
  BY DEF TypeOK
<1>2. up => /\ bound \in Bounds /\ good <= fsize /\ fsize <= Len(file)
            /\ \A p \in Prints : \A o \in index[p] : o < good
  BY DEF TypeOK
<1>3. ASSUME NEW b \in Bounds, Open(b) PROVE TypeOK'
  <2> DEFINE P == Prefix(file, b)
             h == SubSeq(file, 1, P)
             ix == IndexOf(file, b)
  <2>1. P \in Nat /\ P <= Len(file)
    BY <1>1, PrefixIs
  <2>2. h \in Seq(Cell) /\ Len(h) = P
    BY <1>1, CutIs
  <2>3. ix \in [Prints -> SUBSET Nat] /\ \A p \in Prints : \A o \in ix[p] : o < P
    BY <1>1, IndexIs, StartsBelow
  <2>4. /\ file' = h /\ rotten' = rotten /\ up' = TRUE /\ good' = P /\ fsize' = P
        /\ index' = ix /\ acked' = acked /\ bound' = b
    BY <1>3 DEF Open
  <2> HIDE DEF P, h, ix
  <2> QED
    BY <1>1, <2>1, <2>2, <2>3, <2>4 DEF TypeOK
<1>4. ASSUME NEW b \in Bounds, OpenCutOnly(b) PROVE TypeOK'
  <2> DEFINE h == SubSeq(file, 1, Prefix(file, b))
  <2>1. h \in Seq(Cell)
    BY <1>1, CutIs
  <2>2. /\ file' = h /\ rotten' = rotten /\ up' = up /\ ~up /\ good' = good /\ fsize' = fsize
        /\ index' = index /\ acked' = acked
    BY <1>4 DEF OpenCutOnly, object
  <2> HIDE DEF h
  <2> QED
    BY <1>1, <2>1, <2>2 DEF TypeOK
<1>5. ASSUME UNCHANGED <<disk, object, acked>> PROVE TypeOK'
  BY <1>5 DEF disk, object, TypeOK
<1>6. ASSUME NEW k \in Keys, NEW v \in Values, PublishLanded(k, v) PROVE TypeOK'
  <2> DEFINE l == Len(Image(k, v))
  <2>1. l \in Nat /\ l \in 0 .. l /\ SubSeq(Image(k, v), 1, l) = Image(k, v)
    BY WholeIs, ImageFacts
  <2>2. /\ file' = Written(file, good, Image(k, v)) /\ good' = good + l
        /\ fsize' = Larger(fsize, good + l) /\ up /\ up' = up /\ bound' = bound
        /\ index' = [index EXCEPT ![Fp(k)] = @ \cup {good}] /\ rotten' = rotten
        /\ acked' = acked \cup {[key |-> k, value |-> v, start |-> good]}
    BY <1>6 DEF PublishLanded
  <2>3. /\ file' \in Seq(Cell) /\ Len(file') \in Nat /\ Len(file) <= Len(file')
        /\ good + l <= Len(file')
    BY <2>1, <2>2, AppendIs
  <2>4. Fp(k) \in Prints
    BY DEF Prints
  <2>5. index' \in [Prints -> SUBSET Nat]
    BY <1>1, <2>2, <2>4
  <2>6. l >= 2
    BY ImageFacts
  <2> HIDE DEF l
  <2>7. good' \in Nat /\ good < good'
    BY <1>1, <2>1, <2>2, <2>6
  <2>8. ASSUME NEW p \in Prints, NEW o \in index'[p] PROVE o < good'
    <3>1. o \in index[p] \/ o = good
      BY <1>1, <2>2, <2>4
    <3> QED
      BY <1>1, <1>2, <2>2, <2>7, <3>1
  <2>9. fsize' \in Nat /\ good' <= fsize' /\ fsize' <= Len(file')
    BY <1>1, <1>2, <2>1, <2>2, <2>3 DEF Larger
  <2>10. acked' \subseteq [key : Keys, value : Values, start : Nat]
    BY <1>1, <2>2
  <2> QED
    BY <1>1, <1>2, <2>2, <2>3, <2>5, <2>7, <2>8, <2>9, <2>10 DEF TypeOK
<1>7. ASSUME NEW k \in Keys, NEW v \in Values, PublishFailed(k, v) PROVE TypeOK'
  <2>1. /\ up /\ up' = up /\ rotten' = rotten /\ good' = good /\ index' = index
        /\ acked' = acked /\ bound' = bound
        /\ fsize' \in {fsize, Larger(fsize, Len(file'))}
    BY <1>7 DEF PublishFailed
  <2>2. file' \in Seq(Cell) /\ Len(file') \in Nat /\ Len(file) <= Len(file')
    BY <1>7, AppendIs DEF PublishFailed
  <2>3. fsize' \in Nat /\ good' <= fsize' /\ fsize' <= Len(file')
    BY <1>1, <1>2, <2>1, <2>2 DEF Larger
  <2> QED
    BY <1>1, <1>2, <2>1, <2>2, <2>3 DEF TypeOK
<1>8. ASSUME NEW k \in Keys, NEW v \in Values, PublishCut(k, v) PROVE TypeOK'
  <2>1. /\ up' = FALSE /\ rotten' = rotten /\ good' = 0 /\ index' = NoIndex
        /\ acked' = acked /\ fsize' = 0
    BY <1>8 DEF PublishCut
  <2>2. file' \in Seq(Cell)
    BY <1>8, AppendIs DEF PublishCut
  <2> QED
    BY <1>1, <2>1, <2>2, NoIndexType DEF TypeOK
<1>9. ASSUME Exit PROVE TypeOK'
  <2>1. /\ up' = FALSE /\ rotten' = rotten /\ good' = 0 /\ index' = NoIndex
        /\ acked' = acked /\ fsize' = 0 /\ file' = file
    BY <1>9 DEF Exit, disk
  <2> QED
    BY <1>1, <2>1, NoIndexType DEF TypeOK
<1>10. ASSUME NEW o \in 0 .. Len(file), Rot(o) PROVE TypeOK'
  <2>1. /\ o < Len(file) /\ file' = [file EXCEPT ![o + 1] = Rotten]
        /\ rotten' = rotten \cup {o} /\ UNCHANGED <<object, acked>>
    BY <1>10 DEF Rot
  <2>2. Rotten \in Cell /\ o + 1 \in 1 .. Len(file) /\ o \in Nat
    BY <1>1, <2>1 DEF Cell
  <2>3. file' \in Seq(Cell) /\ Len(file') = Len(file)
    BY <1>1, <2>1, <2>2
  <2> QED
    BY <1>1, <1>2, <2>1, <2>2, <2>3 DEF TypeOK, object
<1>11. ASSUME NEW k \in Keys, Lookup(k) PROVE TypeOK'
  BY <1>5, <1>11 DEF Lookup
<1>12. ASSUME NEW k \in Keys, NEW v \in Values, PublishDeclined(k, v) PROVE TypeOK'
  BY <1>5, <1>12 DEF PublishDeclined
<1>13. ASSUME AtRest PROVE TypeOK'
  BY <1>5, <1>13 DEF AtRest
<1> QED
  BY <1>3, <1>4, <1>6, <1>7, <1>8, <1>9, <1>10, <1>11, <1>12, <1>13 DEF Step


\* Steps that write: part of a record lands at the cursor.
Appends(k, v, n) ==
    /\ up /\ k \in Keys /\ v \in Values /\ n \in 0 .. Len(Image(k, v))
    /\ file' = Written(file, good, SubSeq(Image(k, v), 1, n))
    /\ rotten' = rotten
    /\ offered' = offered \cup {<<k, v>>}

LEMMA PublishAppends ==
    ASSUME NEW k \in Keys, NEW v \in Values
    PROVE  /\ PublishLanded(k, v) => Appends(k, v, Len(Image(k, v)))
           /\ PublishFailed(k, v) => \E n \in 0 .. Len(Image(k, v)) : Appends(k, v, n)
           /\ PublishCut(k, v) => \E n \in 0 .. Len(Image(k, v)) : Appends(k, v, n)
<1>1. PublishLanded(k, v) => Appends(k, v, Len(Image(k, v)))
  BY WholeIs DEF PublishLanded, Appends
<1>2. PublishFailed(k, v) => \E n \in 0 .. Len(Image(k, v)) : Appends(k, v, n)
  BY DEF PublishFailed, Appends
<1>3. PublishCut(k, v) => \E n \in 0 .. Len(Image(k, v)) : Appends(k, v, n)
  BY DEF PublishCut, Appends
<1> QED
  BY <1>1, <1>2, <1>3

\* Which of some offsets hold a key.
LEMMA HoldingIs ==
    ASSUME NEW f \in Seq(Cell), NEW n \in Nat, n <= Len(f), NEW b, NEW k,
           NEW offsets \in SUBSET Nat, NEW o
    PROVE  o \in Holding(f, n, b, k, offsets)
              <=> o \in offsets /\ \E v : Spells(f, n, b, o, k, v)
<1>1. ASSUME o \in Holding(f, n, b, k, offsets)
      PROVE  o \in offsets /\ \E v : Spells(f, n, b, o, k, v)
  <2>1. o \in offsets /\ o \in Nat
    BY <1>1 DEF Holding
  <2>2. PICK r \in ReadAt(f, n, b, o) : r[1] = k
    BY <1>1 DEF Holding
  <2>3. PICK kk, vv : Spells(f, n, b, o, kk, vv)
    BY <2>1, <2>2, ReadWhat
  <2> DEFINE reads == ReadAt(f, n, b, o)
  <2>4. reads = {<<kk, vv>>}
    BY <2>1, <2>3, ReadIs
  <2>5. r \in reads
    BY <2>2
  <2> HIDE DEF reads
  <2>6. r = <<kk, vv>>
    BY <2>4, <2>5
  <2>7. kk = k
    BY <2>2, <2>6
  <2> QED
    BY <2>1, <2>3, <2>7
<1>2. ASSUME o \in offsets, NEW v, Spells(f, n, b, o, k, v)
      PROVE  o \in Holding(f, n, b, k, offsets)
  <2> DEFINE reads == ReadAt(f, n, b, o)
  <2>1. reads = {<<k, v>>}
    BY <1>2, ReadIs
  <2> HIDE DEF reads
  <2>2. <<k, v>> \in reads /\ <<k, v>>[1] = k
    BY <2>1
  <2>3. \E r \in reads : r[1] = k
    BY <2>2
  <2> QED
    BY <1>2, <2>3 DEF Holding, reads
<1> QED
  BY <1>1, <1>2

-----------------------------------------------------------------------------
(* What is served was offered.                                               *)

\* Cells that occur in values.
Copied == UNION {CellsOf(v) : v \in Values}

\* No record's head and checksum both occur inside values: what verifies was
\* written as a record.
NoCopies ==
    \A k \in Keys, v \in Values : ~(Header(k, v) \in Copied /\ Checksum(k, v) \in Copied)

\* A head or checksum in the file is that of a record offered, or part of a value.
Traced ==
    \A k \in Keys, v \in Values : \A i \in 1 .. Len(file) :
        file[i] = Header(k, v) \/ file[i] = Checksum(k, v)
            => <<k, v>> \in offered \/ file[i] \in Copied

LEMMA TracedNext ==
    ASSUME TypeOK, Traced, Step
    PROVE  Traced'
<1>1. file \in Seq(Cell) /\ Len(file) \in Nat
  BY DEF TypeOK
<1>2. ASSUME NEW n \in Nat, n <= Len(file), NEW h \in Seq(Cell), Len(h) = n,
             \A i \in 1 .. n : h[i] = file[i], file' = h, offered' = offered
      PROVE  Traced'
  BY <1>1, <1>2 DEF Traced
<1>3. ASSUME NEW k \in Keys, NEW v \in Values, NEW n \in 0 .. Len(Image(k, v)),
             Appends(k, v, n)
      PROVE  Traced'
  <2>1. offered \subseteq offered' /\ <<k, v>> \in offered'
    BY <1>3 DEF Appends
  <2>2. \A i \in 1 .. Len(file') :
           \/ \E j \in 1 .. n : i = good + j /\ file'[i] = Image(k, v)[j]
           \/ i \in 1 .. Len(file) /\ file'[i] = file[i]
    BY <1>3, AppendIs DEF Appends
  <2>3. SUFFICES ASSUME NEW kk \in Keys, NEW vv \in Values, NEW i \in 1 .. Len(file'),
                        file'[i] = Header(kk, vv) \/ file'[i] = Checksum(kk, vv)
                 PROVE  <<kk, vv>> \in offered' \/ file'[i] \in Copied
    BY DEF Traced
  <2>4. CASE i \in 1 .. Len(file) /\ file'[i] = file[i]
    BY <2>1, <2>3, <2>4 DEF Traced
  <2>5. ASSUME NEW j \in 1 .. n, file'[i] = Image(k, v)[j]
        PROVE  <<kk, vv>> \in offered' \/ file'[i] \in Copied
    <3> DEFINE c == Image(k, v)[j]
    <3>1. j \in 1 .. Len(Image(k, v))
      BY ImageFacts
    <3>2. c = Header(k, v) \/ c = Checksum(k, v) \/ c \in CellsOf(v)
      BY <3>1, ImageCells
    <3> HIDE DEF c
    <3>3. c = Header(k, v) \/ c = Checksum(k, v) => kk = k /\ vv = v
      <4>1. c = Header(kk, vv) \/ c = Checksum(kk, vv)
        BY <2>3, <2>5 DEF c
      <4> QED
        BY <4>1 DEF Header, Checksum
    <3>4. c \in CellsOf(v) => c \in Copied
      BY DEF Copied
    <3> QED
      BY <2>1, <2>5, <3>2, <3>3, <3>4 DEF c
  <2> QED
    BY <2>2, <2>4, <2>5
<1>4. ASSUME NEW b \in Bounds, file' = SubSeq(file, 1, Prefix(file, b)), offered' = offered
      PROVE  Traced'
  <2> DEFINE P == Prefix(file, b)
             h == SubSeq(file, 1, P)
  <2>1. P \in Nat /\ P <= Len(file)
    BY <1>1, PrefixIs
  <2>2. h \in Seq(Cell) /\ Len(h) = P /\ \A i \in 1 .. P : h[i] = file[i]
    BY <1>1, CutIs DEF Agree
  <2>3. file' = h
    BY <1>4
  <2> HIDE DEF P, h
  <2> QED
    BY <1>2, <1>4, <2>1, <2>2, <2>3
<1>5. ASSUME file' = file, offered \subseteq offered' PROVE Traced'
  BY <1>5 DEF Traced
<1>6. ASSUME NEW b \in Bounds, Open(b) \/ OpenCutOnly(b) PROVE Traced'
  BY <1>4, <1>6 DEF Open, OpenCutOnly
<1>7. ASSUME NEW k \in Keys, Lookup(k) PROVE Traced'
  BY <1>5, <1>7 DEF Lookup, disk
<1>8. ASSUME NEW k \in Keys, NEW v \in Values, PublishDeclined(k, v) PROVE Traced'
  BY <1>5, <1>8 DEF PublishDeclined, disk
<1>9. ASSUME NEW k \in Keys, NEW v \in Values,
             PublishLanded(k, v) \/ PublishFailed(k, v) \/ PublishCut(k, v)
      PROVE  Traced'
  <2>1. Len(Image(k, v)) \in 0 .. Len(Image(k, v))
    BY WholeIs
  <2> QED
    BY <1>3, <1>9, <2>1, PublishAppends
<1>10. ASSUME Exit \/ AtRest PROVE Traced'
  BY <1>5, <1>10 DEF Exit, AtRest, disk
<1>11. ASSUME NEW o \in 0 .. Len(file), Rot(o) PROVE Traced'
  <2>1. o < Len(file) /\ file' = [file EXCEPT ![o + 1] = Rotten] /\ offered' = offered
    BY <1>11 DEF Rot
  <2>2. o + 1 \in 1 .. Len(file) /\ Rotten \in Cell
    BY <1>1, <2>1 DEF Cell
  <2>3. Len(file') = Len(file) /\ \A i \in 1 .. Len(file) : file'[i] = Rotten \/ file'[i] = file[i]
    BY <1>1, <2>1, <2>2
  <2>4. \A k, v : Rotten # Header(k, v) /\ Rotten # Checksum(k, v)
    BY DEF Rotten, Header, Checksum
  <2> QED
    BY <1>1, <2>1, <2>3, <2>4 DEF Traced
<1> QED
  BY <1>6, <1>7, <1>8, <1>9, <1>10, <1>11 DEF Step

\* A record that verifies was offered.
LEMMA ReadWasOffered ==
    ASSUME TypeOK, Traced, NoCopies, NEW n \in Nat, n <= Len(file), NEW b, NEW o \in Nat,
           NEW k, NEW v, Spells(file, n, b, o, k, v)
    PROVE  <<k, v>> \in offered
<1> DEFINE l == Len(Image(k, v))
<1>1. /\ k \in Keys /\ v \in Values /\ o + l <= n
      /\ \A i \in 1 .. l : file[o + i] = Image(k, v)[i]
  BY DEF Spells
<1>2. /\ l \in Nat /\ l >= 2 /\ Image(k, v)[1] = Header(k, v)
      /\ Image(k, v)[l] = Checksum(k, v)
  BY <1>1, ImageFacts, LastCell
<1> HIDE DEF l
<1>3. file[o + 1] = Header(k, v) /\ file[o + l] = Checksum(k, v)
  BY <1>1, <1>2
<1>4. o + 1 \in 1 .. Len(file) /\ o + l \in 1 .. Len(file)
  BY <1>1, <1>2 DEF TypeOK
<1> QED
  BY <1>1, <1>3, <1>4 DEF Traced, NoCopies

ServeInv == TypeOK /\ Traced /\ ServesOnlyOffered

LEMMA ServeNext ==
    ASSUME NoCopies, ServeInv, Step
    PROVE  ServeInv'
<1>1. TypeOK /\ Traced /\ TypeOK' /\ Traced'
  BY TypeNext, TracedNext DEF ServeInv
<1>2. ASSUME NEW k \in Keys, Lookup(k) PROVE ServesOnlyOffered'
  <2> DEFINE ms == Matching(k)
             rec == RecordAt(file, fsize, bound, Min(ms))
  <2>1. up /\ offered' = offered
        /\ answer' = IF ms = {} THEN {} ELSE {<<k, rec[2]>>}
    BY <1>2 DEF Lookup
  <2>2. CASE ms = {}
    BY <2>1, <2>2 DEF ServesOnlyOffered
  <2>3. CASE ms # {}
    <3> DEFINE ix == index[Fp(k)]
               o == Min(ms)
    <3>1. file \in Seq(Cell) /\ fsize \in Nat /\ fsize <= Len(file)
      BY <1>1, <2>1 DEF TypeOK
    <3>2. ix \in SUBSET Nat
      BY <1>1 DEF TypeOK, Prints
    <3>3. ms = Holding(file, fsize, bound, k, ix)
      BY DEF Matching
    <3> HIDE DEF ix, ms
    <3>4. ms \in SUBSET Nat
      BY <3>2, <3>3 DEF Holding
    <3>5. o \in ms
      BY <2>3, <3>4, MinIs
    <3>6. o \in Nat
      BY <3>4, <3>5
    <3> HIDE DEF o
    <3>7. PICK v : Spells(file, fsize, bound, o, k, v)
      BY <3>1, <3>2, <3>3, <3>5, HoldingIs
    <3>8. RecordAt(file, fsize, bound, o) = <<k, v>>
      BY <3>1, <3>6, <3>7, ReadIs
    <3>9. <<k, v>> \in offered
      BY <1>1, <3>1, <3>6, <3>7, ReadWasOffered
    <3>10. rec = <<k, v>>
      BY <3>8 DEF o
    <3> HIDE DEF rec
    <3>11. answer' = {<<k, v>>}
      BY <2>1, <2>3, <3>10
    <3> QED
      BY <2>1, <3>9, <3>11 DEF ServesOnlyOffered
  <2> QED
    BY <2>2, <2>3
<1>3. ASSUME answer' = answer, offered \subseteq offered' PROVE ServesOnlyOffered'
  BY <1>3 DEF ServeInv, ServesOnlyOffered
<1>4. ASSUME NEW b \in Bounds, Open(b) \/ OpenCutOnly(b) PROVE ServesOnlyOffered'
  BY <1>3, <1>4 DEF Open, OpenCutOnly
<1>5. ASSUME NEW k \in Keys, NEW v \in Values,
             \/ PublishDeclined(k, v) \/ PublishLanded(k, v)
             \/ PublishFailed(k, v) \/ PublishCut(k, v)
      PROVE  ServesOnlyOffered'
  BY <1>3, <1>5 DEF PublishDeclined, PublishLanded, PublishFailed, PublishCut
<1>6. ASSUME NEW o \in 0 .. Len(file), Rot(o) PROVE ServesOnlyOffered'
  BY <1>3, <1>6 DEF Rot
<1>7. ASSUME Exit \/ AtRest PROVE ServesOnlyOffered'
  BY <1>3, <1>7 DEF Exit, AtRest
<1> QED
  BY <1>1, <1>2, <1>4, <1>5, <1>6, <1>7 DEF Step, ServeInv

\* Next is a step of the log and the bookkeeping of held.
LEMMA NextIs ==
    ASSUME [Next]_vars
    PROVE  Step \/ UNCHANGED vars
BY DEF Next

\* Whatever is served for a key was handed to publish for that very key,
\* through every crash, torn write, reopen and damaged cell, under any bounds:
\* provided no values between them embed both the head and the checksum of one
\* record.  What a torn write leaves behind is decoded like anything else, and
\* publish does not keep record bytes out of a value.
THEOREM ServesOnlyOfferedAlways ==
    ASSUME NoCopies
    PROVE  Spec => []ServesOnlyOffered
<1>1. Init => ServeInv
  <2> SUFFICES ASSUME Init PROVE ServeInv
    OBVIOUS
  <2>1. file = <<>> /\ answer = {}
    BY DEF Init
  <2>2. Traced
    BY <2>1 DEF Traced
  <2> QED
    BY <2>1, <2>2, TypeInit DEF ServeInv, ServesOnlyOffered
<1>2. ServeInv /\ [Next]_vars => ServeInv'
  <2> SUFFICES ASSUME ServeInv, [Next]_vars PROVE ServeInv'
    OBVIOUS
  <2>1. CASE UNCHANGED vars
    BY <2>1 DEF ServeInv, TypeOK, Traced, ServesOnlyOffered, vars, disk, object
  <2> QED
    BY <2>1, ServeNext, NextIs
<1>3. ServeInv => ServesOnlyOffered
  BY DEF ServeInv
<1> QED
  BY <1>1, <1>2, <1>3, PTL DEF Spec

\* The log's bookkeeping is well formed: the cursor never passes the end of the
\* file and no index entry reaches it.
THEOREM TypeOKAlways == Spec => []TypeOK
<1>1. TypeOK /\ [Next]_vars => TypeOK'
  <2> SUFFICES ASSUME TypeOK, [Next]_vars PROVE TypeOK'
    OBVIOUS
  <2>1. CASE UNCHANGED vars
    BY <2>1 DEF TypeOK, vars, disk, object
  <2> QED
    BY <2>1, TypeNext, NextIs
<1> QED
  BY <1>1, TypeInit, PTL DEF Spec


-----------------------------------------------------------------------------
(* What was acknowledged stays, in front of the damage.                      *)

B == Max(Bounds)

\* Every process that opens the log gives the same max_value_bytes.
OneBound == \A b, c \in Bounds : b = c

LEMMA OneBoundIs ==
    ASSUME OneBound
    PROVE  B \in Bounds /\ \A b \in Bounds : b = B
<1>1. PICK b \in Bounds : b \in Nat
  BY FileMemoAssumption
<1>2. \A c \in Bounds : c = b
  BY DEF OneBound
<1>3. \A c \in Bounds : b >= c
  BY <1>1, <1>2
<1>4. B \in Bounds
  BY <1>3 DEF B, Max
<1> QED
  BY <1>2, <1>4

End(a) == a.start + Len(Image(a.key, a.value))

\* No damaged cell lies before offset m.
Clean(m) == \A r \in rotten : r >= m

\* The record at o is the first one of its key.
FirstRec(f, o, k, v) ==
    Rec(f, B, o, k, v) /\ \A q, w : Rec(f, B, q, k, w) => o <= q

LEMMA FirstStays ==
    ASSUME NEW f \in Seq(Cell), NEW h \in Seq(Cell), NEW m, Agree(f, h, m),
           NEW o, NEW k, NEW v, FirstRec(f, o, k, v), o + Len(Image(k, v)) <= m
    PROVE  FirstRec(h, o, k, v)
<1>1. Rec(f, B, o, k, v) /\ \A q, w : Rec(f, B, q, k, w) => o <= q
  BY DEF FirstRec
<1>2. Rec(h, B, o, k, v)
  BY <1>1, RecStays
<1>3. /\ o \in Nat /\ Len(Image(k, v)) \in Nat /\ m \in Nat /\ Agree(h, f, m)
      /\ o \in Starts(h, B)
  BY <1>1, <1>2, RecFacts DEF Agree, Rec
<1>4. ASSUME NEW q, NEW w, Rec(h, B, q, k, w) PROVE o <= q
  <2>1. q \in Nat /\ Len(Image(k, w)) \in Nat
    BY <1>4, RecFacts
  <2> SUFFICES ASSUME q < o PROVE FALSE
    BY <1>3, <2>1
  <2>2. q + Len(Image(k, w)) <= o
    BY <1>3, <1>4, Disjoint
  <2>3. q + Len(Image(k, w)) <= m
    BY <1>3, <2>1, <2>2
  <2>4. Rec(f, B, q, k, w)
    BY <1>3, <1>4, <2>3, RecStays
  <2>5. o <= q
    BY <1>1, <2>4
  <2> QED
    BY <1>3, <2>1, <2>5
<1> QED
  BY <1>2, <1>4 DEF FirstRec

LEMMA StartStays ==
    ASSUME NEW f \in Seq(Cell), NEW h \in Seq(Cell), NEW b, NEW m, Agree(f, h, m),
           NEW o \in Starts(f, b), o <= m, NEW q \in Starts(f, b), q < o
    PROVE  q \in Starts(h, b)
<1>1. PICK k, v : At(f, b, q, k, v)
  BY StartsChain DEF Readable
<1>2. Rec(f, b, q, k, v)
  BY <1>1 DEF Rec
<1>3. q + Len(Image(k, v)) <= o /\ o \in Nat /\ q + Len(Image(k, v)) \in Nat
  BY <1>2, Disjoint, RecFacts, StartsChain
<1>4. q + Len(Image(k, v)) <= m
  BY <1>3 DEF Agree
<1> QED
  BY <1>2, <1>4, RecStays DEF Rec

\* Where records end, a readable one is the next.
LEMMA NextStarts ==
    ASSUME NEW f \in Seq(Cell), NEW b, NEW m, Closed(f, b, m), Readable(f, b, m)
    PROVE  m \in Starts(f, b)
BY StartsChain DEF Closed

\* The record of an acknowledged publish is its key's first, while no cell
\* before its end is damaged.
AckedInv == \A a \in acked : Clean(End(a)) => FirstRec(file, a.start, a.key, a.value)

\* An open object then has it in its index, with records only before it.
FoundInv ==
    up => \A a \in acked : Clean(End(a)) =>
             /\ End(a) <= good /\ a.start \in index[Fp(a.key)]
             /\ \A q \in index[Fp(a.key)] : q < a.start => q \in Starts(file, B)

\* While nothing before the cursor is damaged, records end at the cursor, the
\* index lists records only, and the first record of each key before the cursor.
IndexInv ==
    up /\ Clean(good) =>
       /\ Closed(file, B, good)
       /\ \A p \in Prints : index[p] \subseteq Starts(file, B)
       /\ \A o, k, v : Rec(file, B, o, k, v) /\ o < good =>
             \E q \in index[Fp(k)] : \E w : q <= o /\ Rec(file, B, q, k, w)

LEMMA AckedIs ==
    ASSUME TypeOK, NEW a \in acked
    PROVE  a.key \in Keys /\ a.value \in Values /\ a.start \in Nat /\ End(a) \in Nat
           /\ Fp(a.key) \in Prints /\ a.start < End(a)
<1>1. a.key \in Keys /\ a.value \in Values /\ a.start \in Nat
  BY DEF TypeOK
<1>2. Len(Image(a.key, a.value)) \in Nat /\ Len(Image(a.key, a.value)) >= 2
  BY <1>1, ImageFacts
<1> QED
  BY <1>1, <1>2 DEF End, Prints

\* An indexed record that ends by the cursor is found.
LEMMA FoundIs ==
    ASSUME TypeOK, OneBound, up, NEW k \in Keys, NEW q \in index[Fp(k)], NEW w,
           Rec(file, B, q, k, w), q + Len(Image(k, w)) <= good
    PROVE  q \in Matching(k)
<1>1. /\ file \in Seq(Cell) /\ fsize \in Nat /\ fsize <= Len(file) /\ bound = B
      /\ good \in Nat /\ good <= fsize
  BY OneBoundIs DEF TypeOK
<1>2. index[Fp(k)] \in SUBSET Nat
  BY DEF TypeOK, Prints
<1>3. At(file, B, q, k, w) /\ q + Len(Image(k, w)) \in Nat
  BY <1>1, RecFacts DEF Rec
<1>4. q + Len(Image(k, w)) <= fsize
  BY <1>1, <1>3
<1>5. Spells(file, fsize, bound, q, k, w)
  BY <1>1, <1>3, <1>4 DEF At, Spells
<1> DEFINE ix == index[Fp(k)]
<1> HIDE DEF ix
<1>6. q \in Holding(file, fsize, bound, k, ix)
  BY <1>1, <1>2, <1>5, HoldingIs DEF ix
<1> QED
  BY <1>6 DEF Matching, ix

\* What is found is a record of the key.
LEMMA MatchingIs ==
    ASSUME TypeOK, OneBound, up, NEW k \in Keys, NEW q \in Matching(k)
    PROVE  q \in index[Fp(k)] /\ q \in Nat /\ \E w : At(file, B, q, k, w)
              /\ RecordAt(file, fsize, bound, q) = <<k, w>>
<1>1. file \in Seq(Cell) /\ fsize \in Nat /\ fsize <= Len(file) /\ bound = B
  BY OneBoundIs DEF TypeOK
<1> DEFINE ix == index[Fp(k)]
<1>2. ix \in SUBSET Nat
  BY DEF TypeOK, Prints
<1>3. q \in Holding(file, fsize, bound, k, ix)
  BY DEF Matching
<1> HIDE DEF ix
<1>4. q \in ix /\ \E w : Spells(file, fsize, bound, q, k, w)
  BY <1>1, <1>2, <1>3, HoldingIs
<1>5. PICK w : Spells(file, fsize, bound, q, k, w)
  BY <1>4
<1>6. q \in Nat
  BY <1>2, <1>4
<1>7. RecordAt(file, fsize, bound, q) = <<k, w>>
  BY <1>1, <1>5, <1>6, ReadIs
<1>8. At(file, B, q, k, w)
  <2>1. q + Len(Image(k, w)) <= Len(file)
    BY <1>1, <1>5, <1>6, ImageFacts DEF Spells
  <2> QED
    BY <1>1, <1>5, <2>1 DEF At, Spells
<1> QED
  BY <1>4, <1>6, <1>7, <1>8 DEF ix

\* A key that is not found has no record before an undamaged cursor.
LEMMA NotFoundIs ==
    ASSUME TypeOK, OneBound, IndexInv, up, Clean(good), NEW k \in Keys, Matching(k) = {},
           NEW q, NEW w, Rec(file, B, q, k, w)
    PROVE  good <= q
<1>1. file \in Seq(Cell) /\ good \in Nat
  BY DEF TypeOK
<1>2. q \in Nat
  BY <1>1, RecFacts
<1> SUFFICES ASSUME q < good PROVE FALSE
  BY <1>1, <1>2
<1>3. Closed(file, B, good)
  BY DEF IndexInv
<1>4. PICK p, u : p \in index[Fp(k)] /\ p <= q /\ Rec(file, B, p, k, u)
  BY DEF IndexInv
<1>5. p \in Nat
  BY <1>1, <1>4, RecFacts
<1>6. p < good
  BY <1>1, <1>2, <1>4, <1>5
<1>7. p + Len(Image(k, u)) <= good
  BY <1>1, <1>3, <1>4, <1>6, BelowEnd
<1> QED
  BY <1>4, <1>7, FoundIs

\* The record a landed publish leaves, behind an undamaged cursor.
LEMMA LandedIs ==
    ASSUME TypeOK, OneBound, IndexInv, Clean(good), NEW k \in Keys, NEW v \in Values,
           PublishLanded(k, v)
    PROVE  FirstRec(file', good, k, v) /\ Closed(file', B, good)
<1> DEFINE l == Len(Image(k, v))
<1>1. l \in Nat /\ l \in 0 .. l /\ Appends(k, v, l)
  BY PublishAppends, ImageFacts, WholeIs
<1>2. /\ file' \in Seq(Cell) /\ Len(file') \in Nat /\ good + l <= Len(file')
      /\ Agree(file, file', good) /\ \A i \in 1 .. l : file'[good + i] = Image(k, v)[i]
  BY <1>1, AppendIs DEF Appends
<1>3. /\ up /\ Len(Bytes(v)) <= bound /\ Matching(k) = {} /\ bound = B
      /\ file \in Seq(Cell) /\ good \in Nat
  <2>1. up /\ ~Declines(k, v)
    BY DEF PublishLanded
  <2>2. bound \in Bounds /\ file \in Seq(Cell) /\ good \in Nat
    BY <2>1 DEF TypeOK
  <2>3. bound \in Nat /\ Len(Bytes(v)) \in Nat
    BY <2>2, FileMemoAssumption, ImageFacts
  <2> QED
    BY <2>1, <2>2, <2>3, OneBoundIs DEF Declines
<1>4. At(file', B, good, k, v)
  BY <1>2, <1>3 DEF At, Spells
<1>5. Closed(file, B, good)
  BY <1>3 DEF IndexInv
<1> DEFINE h == file'
<1>6. Closed(h, B, good)
      /\ \A o, kk, vv : o < good => (Rec(h, B, o, kk, vv) <=> Rec(file, B, o, kk, vv))
  <2>1. h \in Seq(Cell) /\ Agree(file, h, good)
    BY <1>2
  <2> HIDE DEF h
  <2> QED
    BY <1>3, <1>5, <2>1, SameBelow
<1>7. Rec(file', B, good, k, v)
  BY <1>2, <1>4, <1>6, NextStarts DEF Rec, Readable
<1>8. ASSUME NEW q, NEW w, Rec(file', B, q, k, w) PROVE good <= q
  <2>1. q \in Nat
    BY <1>2, <1>8, RecFacts
  <2> SUFFICES ASSUME q < good PROVE FALSE
    BY <1>3, <2>1
  <2>2. Rec(file, B, q, k, w)
    BY <1>6, <1>8
  <2>3. good <= q
    BY <1>3, <2>2, NotFoundIs
  <2> QED
    BY <1>3, <2>1, <2>3
<1> QED
  BY <1>6, <1>7, <1>8 DEF FirstRec


LEMMA FirstExists ==
    ASSUME NEW f \in Seq(Cell), NEW o, NEW k, NEW v, Rec(f, B, o, k, v)
    PROVE  \E q, w : q <= o /\ q \in Nat /\ FirstRec(f, q, k, w)
<1> DEFINE T == {q \in Nat : \E w : Rec(f, B, q, k, w)}
<1>1. o \in T
  BY RecFacts
<1>2. PICK q \in T : \A p \in T : q <= p
  <2>1. T \in SUBSET Nat /\ T # {}
    BY <1>1
  <2> HIDE DEF T
  <2> QED
    BY <2>1, LeastNat
<1>3. PICK w : Rec(f, B, q, k, w)
  BY <1>2
<1>4. \A p, u : Rec(f, B, p, k, u) => q <= p
  <2> SUFFICES ASSUME NEW p, NEW u, Rec(f, B, p, k, u) PROVE q <= p
    OBVIOUS
  <2>1. p \in T
    BY RecFacts
  <2> QED
    BY <1>2, <2>1
<1> QED
  BY <1>1, <1>2, <1>3, <1>4 DEF FirstRec

\* A load indexes the first record of each key.
LEMMA FirstIndexed ==
    ASSUME NEW f \in Seq(Cell), NEW o, NEW k, NEW v, FirstRec(f, o, k, v)
    PROVE  o \in IndexOf(f, B)[Fp(k)]
<1> DEFINE S == Starts(f, B)
           all(j) == Holding(f, Len(f), B, j, S)
           firsts(j) == {x \in all(j) : \A q \in all(j) : x <= q}
           at(p) == UNION {firsts(j) : j \in {i \in Keys : Fp(i) = p}}
<1>1. /\ Rec(f, B, o, k, v) /\ k \in Keys /\ Len(f) \in Nat /\ Len(f) <= Len(f)
      /\ S \in SUBSET Nat
  BY RecFacts, StartsChain DEF FirstRec
<1>2. IndexOf(f, B)[Fp(k)] = at(Fp(k))
  BY <1>1 DEF IndexOf
<1>3. \A x : x \in all(k) <=> x \in S /\ \E w : At(f, B, x, k, w)
  <2> SUFFICES ASSUME NEW x PROVE x \in all(k) <=> x \in S /\ \E w : At(f, B, x, k, w)
    OBVIOUS
  <2> HIDE DEF S
  <2> QED
    BY <1>1, HoldingIs DEF At
<1>4. o \in all(k)
  BY <1>1, <1>3 DEF Rec
<1>5. \A q \in all(k) : o <= q
  <2> SUFFICES ASSUME NEW q \in all(k) PROVE o <= q
    OBVIOUS
  <2>1. \E w : Rec(f, B, q, k, w)
    BY <1>3 DEF Rec
  <2> QED
    BY <2>1 DEF FirstRec
<1> HIDE DEF all
<1>6. o \in firsts(k)
  BY <1>4, <1>5
<1> HIDE DEF firsts
<1>7. o \in at(Fp(k))
  BY <1>1, <1>6
<1> QED
  BY <1>2, <1>7

IntactInv == TypeOK /\ AckedInv /\ FoundInv /\ IndexInv

LEMMA IntactOpen ==
    ASSUME OneBound, IntactInv, NEW b \in Bounds, Open(b)
    PROVE  AckedInv' /\ FoundInv' /\ IndexInv'
<1> DEFINE P == Prefix(file, B)
           h == SubSeq(file, 1, P)
           ix == IndexOf(file, B)
<1>1. /\ file' = h /\ rotten' = rotten /\ up' = TRUE /\ good' = P /\ index' = ix
      /\ acked' = acked
  BY OneBoundIs DEF Open
<1>2. file \in Seq(Cell) /\ TypeOK /\ AckedInv
  BY DEF IntactInv, TypeOK
<1>3. /\ h \in Seq(Cell) /\ Agree(file, h, P)
      /\ \A o, k, v : Rec(h, B, o, k, v) <=> Rec(file, B, o, k, v)
  BY <1>2, CutIs
<1>4. /\ P \in Nat /\ Closed(file, B, P)
      /\ \A o, k, v : Rec(file, B, o, k, v) => o < P
  BY <1>2, PrefixIs
<1> HIDE DEF h, P, ix
<1>5. Closed(h, B, P)
  BY <1>2, <1>3, <1>4, SameBelow
<1>6. Starts(file, B) \subseteq Starts(h, B)
  <2> SUFFICES ASSUME NEW q \in Starts(file, B) PROVE q \in Starts(h, B)
    OBVIOUS
  <2>1. PICK k, v : At(file, B, q, k, v)
    BY <1>2, StartsChain DEF Readable
  <2>2. Rec(h, B, q, k, v)
    BY <1>3, <2>1 DEF Rec
  <2> QED
    BY <2>2 DEF Rec
<1>7. \A p \in Prints : ix[p] \subseteq Starts(h, B)
  BY <1>2, <1>6, IndexIs DEF ix
<1>8. \A o, k, v : FirstRec(file, o, k, v) => FirstRec(h, o, k, v) /\ o \in ix[Fp(k)]
  BY <1>2, <1>3, FirstIndexed DEF FirstRec, ix
<1>9. ASSUME NEW a \in acked, Clean(End(a))
      PROVE  /\ FirstRec(h, a.start, a.key, a.value)
             /\ End(a) <= P /\ a.start \in ix[Fp(a.key)]
             /\ \A q \in ix[Fp(a.key)] : q \in Starts(h, B)
  <2>1. FirstRec(file, a.start, a.key, a.value)
    BY <1>2, <1>9 DEF AckedInv
  <2>2. End(a) <= P
    BY <1>2, <1>4, <2>1, BelowEnd DEF FirstRec, End
  <2>3. Fp(a.key) \in Prints
    BY <1>2, AckedIs
  <2> QED
    BY <1>7, <1>8, <2>1, <2>2, <2>3
<1>10. AckedInv'
  BY <1>1, <1>9 DEF AckedInv, Clean, End
<1>11. FoundInv'
  BY <1>1, <1>9 DEF FoundInv, Clean, End
<1>12. ASSUME NEW o, NEW k, NEW v, Rec(h, B, o, k, v)
       PROVE  \E q \in ix[Fp(k)] : \E w : q <= o /\ Rec(h, B, q, k, w)
  <2>1. Rec(file, B, o, k, v)
    BY <1>3, <1>12
  <2>2. PICK q, w : q <= o /\ FirstRec(file, q, k, w)
    BY <1>2, <2>1, FirstExists
  <2> QED
    BY <1>8, <2>2 DEF FirstRec
<1>13. IndexInv'
  BY <1>1, <1>5, <1>7, <1>12 DEF IndexInv
<1> QED
  BY <1>10, <1>11, <1>13

LEMMA IntactCutOnly ==
    ASSUME OneBound, IntactInv, NEW b \in Bounds, OpenCutOnly(b)
    PROVE  AckedInv' /\ FoundInv' /\ IndexInv'
<1> DEFINE h == SubSeq(file, 1, Prefix(file, B))
<1>1. file' = h /\ rotten' = rotten /\ up' = up /\ ~up /\ acked' = acked
  BY OneBoundIs DEF OpenCutOnly, object
<1>2. file \in Seq(Cell) /\ AckedInv
  BY DEF IntactInv, TypeOK
<1>3. \A o, k, v : Rec(h, B, o, k, v) <=> Rec(file, B, o, k, v)
  BY <1>2, CutIs
<1> HIDE DEF h
<1>4. AckedInv'
  BY <1>1, <1>2, <1>3 DEF AckedInv, Clean, End, FirstRec
<1> QED
  BY <1>1, <1>4 DEF FoundInv, IndexInv


\* A step that leaves the cells before m alone, when every acknowledged record
\* still undamaged ends by m.
Spares(m) ==
    /\ file' \in Seq(Cell) /\ Agree(file, file', m)
    /\ \A a \in acked : (\A r \in rotten' : r >= End(a)) => Clean(End(a)) /\ End(a) <= m

LEMMA AckedTail ==
    ASSUME IntactInv, NEW m, Spares(m), NEW a \in acked, \A r \in rotten' : r >= End(a)
    PROVE  FirstRec(file', a.start, a.key, a.value)
<1> DEFINE h == file'
<1>1. /\ file \in Seq(Cell) /\ h \in Seq(Cell) /\ Agree(file, h, m)
      /\ Clean(End(a)) /\ End(a) <= m
  BY DEF IntactInv, TypeOK, Spares
<1>2. FirstRec(file, a.start, a.key, a.value)
  BY <1>1 DEF IntactInv, AckedInv
<1> HIDE DEF h
<1>3. FirstRec(h, a.start, a.key, a.value)
  BY <1>1, <1>2, FirstStays DEF End
<1> QED
  BY <1>3 DEF h

LEMMA FoundTail ==
    ASSUME IntactInv, up, NEW m, Spares(m), NEW a \in acked, \A r \in rotten' : r >= End(a)
    PROVE  /\ End(a) <= good /\ a.start \in index[Fp(a.key)]
           /\ \A q \in index[Fp(a.key)] : q < a.start => q \in Starts(file', B)
<1> DEFINE h == file'
<1>1. /\ file \in Seq(Cell) /\ h \in Seq(Cell) /\ Agree(file, h, m)
      /\ Clean(End(a)) /\ End(a) <= m
  BY DEF IntactInv, TypeOK, Spares
<1>2. /\ End(a) <= good /\ a.start \in index[Fp(a.key)]
      /\ \A q \in index[Fp(a.key)] : q < a.start => q \in Starts(file, B)
  BY <1>1 DEF IntactInv, FoundInv
<1>3. a.start \in Starts(file, B)
  BY <1>1 DEF IntactInv, AckedInv, FirstRec, Rec
<1>4. a.start \in Nat /\ End(a) \in Nat /\ a.start < End(a) /\ m \in Nat
  BY <1>1, AckedIs DEF IntactInv, Agree
<1>5. a.start <= m
  BY <1>1, <1>4
<1> HIDE DEF h
<1>6. \A q \in index[Fp(a.key)] : q < a.start => q \in Starts(h, B)
  BY <1>1, <1>2, <1>3, <1>5, StartStays
<1> QED
  BY <1>2, <1>6 DEF h

\* The same for the index, when the cells before the cursor are left alone.
LEMMA IndexTail ==
    ASSUME IntactInv, up, Clean(good), file' \in Seq(Cell), Agree(file, file', good)
    PROVE  /\ Closed(file', B, good)
           /\ \A p \in Prints : index[p] \subseteq Starts(file', B)
           /\ \A o, k, v : Rec(file', B, o, k, v) /\ o < good =>
                 \E q \in index[Fp(k)] : \E w : q <= o /\ Rec(file', B, q, k, w)
<1> DEFINE h == file'
<1>1. /\ file \in Seq(Cell) /\ h \in Seq(Cell) /\ Agree(file, h, good) /\ good \in Nat
      /\ TypeOK /\ index \in [Prints -> SUBSET Nat]
      /\ \A p \in Prints : \A o \in index[p] : o < good
  BY DEF IntactInv, TypeOK
<1>2. /\ Closed(file, B, good)
      /\ \A p \in Prints : index[p] \subseteq Starts(file, B)
      /\ \A o, k, v : Rec(file, B, o, k, v) /\ o < good =>
             \E q \in index[Fp(k)] : \E w : q <= o /\ Rec(file, B, q, k, w)
  BY DEF IntactInv, IndexInv
<1> HIDE DEF h
<1>3. /\ Closed(h, B, good)
      /\ \A o, k, v : o < good => (Rec(h, B, o, k, v) <=> Rec(file, B, o, k, v))
  BY <1>1, <1>2, SameBelow
<1>4. ASSUME NEW p \in Prints, NEW q \in index[p] PROVE q \in Starts(h, B)
  <2>1. q \in Starts(file, B) /\ q < good
    BY <1>1, <1>2
  <2>2. PICK k, v : At(file, B, q, k, v)
    BY <1>1, <2>1, StartsChain DEF Readable
  <2>3. Rec(h, B, q, k, v)
    BY <1>3, <2>1, <2>2 DEF Rec
  <2> QED
    BY <2>3 DEF Rec
<1>5. ASSUME NEW o, NEW k, NEW v, Rec(h, B, o, k, v), o < good
      PROVE  \E q \in index[Fp(k)] : \E w : q <= o /\ Rec(h, B, q, k, w)
  <2>1. Rec(file, B, o, k, v)
    BY <1>3, <1>5
  <2>2. o \in Nat /\ k \in Keys
    BY <1>1, <2>1, RecFacts
  <2>3. PICK q, w : q \in index[Fp(k)] /\ q <= o /\ Rec(file, B, q, k, w)
    BY <1>2, <1>5, <2>1
  <2>4. q \in Nat
    BY <1>1, <2>3, RecFacts
  <2>5. q < good
    BY <1>1, <1>5, <2>2, <2>3, <2>4
  <2> QED
    BY <1>3, <2>3, <2>5
<1>6. \A p \in Prints : index[p] \subseteq Starts(h, B)
  BY <1>4
<1> QED
  BY <1>3, <1>5, <1>6 DEF h

LEMMA IntactLanded ==
    ASSUME OneBound, IntactInv, NEW k \in Keys, NEW v \in Values, PublishLanded(k, v)
    PROVE  AckedInv' /\ FoundInv' /\ IndexInv'
<1> DEFINE l == Len(Image(k, v))
           new == [key |-> k, value |-> v, start |-> good]
           ix == [index EXCEPT ![Fp(k)] = @ \cup {good}]
           h == file'
<1>1. /\ up /\ up' = up /\ rotten' = rotten /\ good' = good + l /\ index' = ix
      /\ acked' = acked \cup {new}
  BY DEF PublishLanded
<1>2. l \in Nat /\ l >= 2 /\ l \in 0 .. l /\ Appends(k, v, l)
  BY PublishAppends, ImageFacts, WholeIs
<1>3. TypeOK /\ IndexInv /\ AckedInv /\ FoundInv /\ file \in Seq(Cell) /\ good \in Nat
      /\ rotten \in SUBSET Nat
  BY DEF IntactInv, TypeOK
<1>4. h \in Seq(Cell) /\ Agree(file, h, good)
  BY <1>2, <1>3, AppendIs DEF Appends
<1>5. Spares(good)
  BY <1>1, <1>3, <1>4 DEF Spares, FoundInv, Clean
<1>6. Fp(k) \in Prints /\ index \in [Prints -> SUBSET Nat] /\ End(new) = good + l
  BY <1>3 DEF Prints, TypeOK, End
<1>7. \A p \in Prints : ix[p] = IF p = Fp(k) THEN index[p] \cup {good} ELSE index[p]
  BY <1>6
<1>8. ASSUME Clean(good + l)
      PROVE  /\ Clean(good) /\ FirstRec(h, good, k, v) /\ Closed(h, B, good)
             /\ Closed(h, B, good + l)
  <2>1. Clean(good)
    BY <1>2, <1>3, <1>8 DEF Clean
  <2>2. FirstRec(h, good, k, v) /\ Closed(h, B, good)
    BY <1>3, <2>1, LandedIs
  <2> HIDE DEF h
  <2>3. Closed(h, B, good + l)
    BY <2>2 DEF FirstRec, Closed
  <2> QED
    BY <2>1, <2>2, <2>3
<1>9. AckedInv'
  <2>1. SUFFICES ASSUME NEW a \in acked', \A r \in rotten' : r >= End(a)
                 PROVE  FirstRec(file', a.start, a.key, a.value)
    BY DEF AckedInv, Clean, End
  <2>2. CASE a \in acked
    BY <1>5, <2>1, <2>2, AckedTail
  <2>3. CASE a = new
    <3>1. Clean(good + l)
      BY <1>1, <1>6, <2>1, <2>3 DEF Clean
    <3>2. FirstRec(h, good, k, v)
      BY <1>8, <3>1
    <3> QED
      BY <2>3, <3>2
  <2> QED
    BY <1>1, <2>2, <2>3
<1>10. FoundInv'
  <2>1. SUFFICES ASSUME NEW a \in acked', \A r \in rotten' : r >= End(a)
                 PROVE  /\ End(a) <= good' /\ a.start \in index'[Fp(a.key)]
                        /\ \A q \in index'[Fp(a.key)] :
                              q < a.start => q \in Starts(file', B)
    BY DEF FoundInv, Clean, End
  <2>2. CASE a \in acked
    <3>1. /\ End(a) <= good /\ a.start \in index[Fp(a.key)]
          /\ \A q \in index[Fp(a.key)] : q < a.start => q \in Starts(file', B)
      BY <1>1, <1>5, <2>1, <2>2, FoundTail
    <3>2. a.start \in Nat /\ End(a) \in Nat /\ a.start < End(a) /\ Fp(a.key) \in Prints
      BY <1>3, <2>2, AckedIs
    <3>3. ASSUME NEW q \in ix[Fp(a.key)], q < a.start PROVE q \in index[Fp(a.key)]
      <4>1. q # good
        BY <1>3, <3>1, <3>2, <3>3
      <4> QED
        BY <1>7, <3>2, <3>3, <4>1
    <3>4. a.start \in ix[Fp(a.key)]
      BY <1>7, <3>1, <3>2
    <3>5. End(a) <= good'
      BY <1>1, <1>2, <1>3, <3>1, <3>2
    <3> QED
      BY <1>1, <3>1, <3>3, <3>4, <3>5
  <2>3. CASE a = new
    <3>1. Clean(good + l)
      BY <1>1, <1>6, <2>1, <2>3 DEF Clean
    <3>2. \A p \in Prints : index[p] \subseteq Starts(file', B)
      BY <1>1, <1>3, <1>4, <1>8, <3>1, IndexTail
    <3>3. \A q \in ix[Fp(k)] : q < good => q \in Starts(file', B)
      BY <1>3, <1>6, <1>7, <3>2
    <3>4. good \in ix[Fp(k)]
      BY <1>6, <1>7
    <3>5. End(a) <= good'
      BY <1>1, <1>2, <1>3, <1>6, <2>3
    <3>6. a.key = k /\ a.start = good
      BY <2>3
    <3> QED
      BY <1>1, <3>3, <3>4, <3>5, <3>6
  <2> QED
    BY <1>1, <2>2, <2>3
<1>11. IndexInv'
  <2>1. SUFFICES ASSUME Clean(good + l)
                 PROVE  /\ Closed(h, B, good + l)
                        /\ \A p \in Prints : ix[p] \subseteq Starts(h, B)
                        /\ \A o, kk, vv : Rec(h, B, o, kk, vv) /\ o < good + l =>
                              \E q \in ix[Fp(kk)] : \E w : q <= o /\ Rec(h, B, q, kk, w)
    BY <1>1 DEF IndexInv, Clean
  <2>2. /\ Clean(good) /\ FirstRec(h, good, k, v) /\ Closed(h, B, good)
        /\ Closed(h, B, good + l)
    BY <1>8, <2>1
  <2>3. /\ \A p \in Prints : index[p] \subseteq Starts(h, B)
        /\ \A o, kk, vv : Rec(h, B, o, kk, vv) /\ o < good =>
              \E q \in index[Fp(kk)] : \E w : q <= o /\ Rec(h, B, q, kk, w)
    BY <1>1, <1>3, <1>4, <2>2, IndexTail
  <2> HIDE DEF h, ix
  <2>4. Rec(h, B, good, k, v) /\ good \in Starts(h, B)
    BY <2>2 DEF FirstRec, Rec
  <2>5. \A p \in Prints : ix[p] \subseteq Starts(h, B)
    BY <1>7, <2>3, <2>4
  <2>6. ASSUME NEW o, NEW kk, NEW vv, Rec(h, B, o, kk, vv), o < good + l
        PROVE  \E q \in ix[Fp(kk)] : \E w : q <= o /\ Rec(h, B, q, kk, w)
    <3>1. o \in Nat /\ kk \in Keys /\ Fp(kk) \in Prints
      BY <1>4, <2>6, RecFacts DEF Prints
    <3>2. CASE o < good
      <4>1. PICK q, w : q \in index[Fp(kk)] /\ q <= o /\ Rec(h, B, q, kk, w)
        BY <2>3, <2>6, <3>2
      <4>2. q \in ix[Fp(kk)]
        BY <1>7, <3>1, <4>1
      <4> QED
        BY <4>1, <4>2
    <3>3. CASE o = good
      <4>1. At(h, B, good, kk, vv) /\ \A j, w : At(h, B, good, j, w) => j = k /\ w = v
        BY <1>4, <2>4, <2>6, <3>3, RecFacts DEF Rec
      <4>2. kk = k
        BY <4>1
      <4>3. good \in ix[Fp(kk)]
        BY <1>6, <1>7, <4>2
      <4> QED
        BY <1>3, <2>6, <3>3, <4>3
    <3>4. CASE good < o
      <4>1. o \in Starts(h, B)
        BY <2>6 DEF Rec
      <4>2. good + l <= o
        BY <1>4, <2>4, <3>4, <4>1, Disjoint
      <4> QED
        BY <1>2, <1>3, <2>6, <3>1, <4>2
    <3> QED
      BY <1>3, <3>1, <3>2, <3>3, <3>4
  <2> QED
    BY <2>2, <2>5, <2>6
<1> QED
  BY <1>9, <1>10, <1>11


LEMMA IntactNext ==
    ASSUME OneBound, IntactInv, Step
    PROVE  IntactInv'
<1>1. TypeOK /\ AckedInv /\ FoundInv /\ IndexInv /\ TypeOK' /\ file \in Seq(Cell)
  BY TypeNext DEF IntactInv, TypeOK
<1>2. SUFFICES AckedInv' /\ FoundInv' /\ IndexInv'
  BY <1>1 DEF IntactInv
<1>3. ASSUME UNCHANGED <<disk, object, acked>> PROVE AckedInv' /\ FoundInv' /\ IndexInv'
  <2>1. AckedInv'
    BY <1>1, <1>3 DEF disk, object, AckedInv, Clean, End
  <2>2. FoundInv'
    BY <1>1, <1>3 DEF disk, object, FoundInv, Clean, End
  <2>3. IndexInv'
    BY <1>1, <1>3 DEF disk, object, IndexInv, Clean
  <2> QED
    BY <2>1, <2>2, <2>3
<1>4. ASSUME NEW k \in Keys, NEW v \in Values, NEW n \in 0 .. Len(Image(k, v)),
             Appends(k, v, n)
      PROVE  file' \in Seq(Cell) /\ Agree(file, file', good) /\ Spares(good)
  <2>1. up /\ rotten' = rotten /\ file' \in Seq(Cell) /\ Agree(file, file', good)
    BY <1>1, <1>4, AppendIs DEF Appends
  <2> QED
    BY <1>1, <2>1 DEF Spares, FoundInv, Clean
<1>5. ASSUME NEW m, Spares(m), acked' = acked PROVE AckedInv'
  BY <1>5, AckedTail DEF AckedInv, Clean, End
<1>6. ASSUME NEW m, Spares(m), UNCHANGED <<up, good, index, acked>> PROVE FoundInv'
  BY <1>6, FoundTail DEF FoundInv, Clean, End
<1>7. ASSUME NEW k \in Keys, NEW v \in Values, PublishFailed(k, v)
      PROVE  AckedInv' /\ FoundInv' /\ IndexInv'
  <2>1. /\ Spares(good) /\ file' \in Seq(Cell) /\ Agree(file, file', good)
        /\ up /\ rotten' = rotten
    BY <1>4, <1>7, PublishAppends DEF PublishFailed
  <2>2. UNCHANGED <<up, good, index, acked>>
    BY <1>7 DEF PublishFailed
  <2>3. IndexInv'
    BY <2>1, <2>2, IndexTail DEF IndexInv, Clean
  <2> QED
    BY <1>5, <1>6, <2>1, <2>2, <2>3
<1>8. ASSUME NEW k \in Keys, NEW v \in Values, PublishCut(k, v)
      PROVE  AckedInv' /\ FoundInv' /\ IndexInv'
  <2>1. Spares(good)
    BY <1>4, <1>8, PublishAppends
  <2>2. acked' = acked /\ up' = FALSE
    BY <1>8 DEF PublishCut
  <2> QED
    BY <1>5, <2>1, <2>2 DEF FoundInv, IndexInv
<1>9. ASSUME Exit PROVE AckedInv' /\ FoundInv' /\ IndexInv'
  <2>1. acked' = acked /\ up' = FALSE /\ file' = file /\ rotten' = rotten
    BY <1>9 DEF Exit, disk
  <2>2. AckedInv'
    BY <1>1, <2>1 DEF AckedInv, Clean, End
  <2> QED
    BY <2>1, <2>2 DEF FoundInv, IndexInv
<1>10. ASSUME NEW o \in 0 .. Len(file), Rot(o) PROVE AckedInv' /\ FoundInv' /\ IndexInv'
  <2>1. /\ o < Len(file) /\ file' = [file EXCEPT ![o + 1] = Rotten]
        /\ rotten' = rotten \cup {o} /\ UNCHANGED <<object, acked>>
    BY <1>10 DEF Rot
  <2>2. o \in Nat /\ Len(file) \in Nat /\ file' \in Seq(Cell)
    BY <1>1 DEF TypeOK
  <2>3. Len(file') = Len(file) /\ \A i \in 1 .. o : file'[i] = file[i]
    BY <1>1, <2>1, <2>2
  <2>4. Agree(file, file', o)
    BY <2>1, <2>2, <2>3 DEF Agree
  <2>5. \A x : (\A r \in rotten' : r >= x) => Clean(x) /\ o >= x
    BY <2>1 DEF Clean
  <2>6. Spares(o)
    <3> SUFFICES ASSUME NEW a \in acked, \A r \in rotten' : r >= End(a)
                 PROVE  Clean(End(a)) /\ End(a) <= o
      BY <2>2, <2>4 DEF Spares
    <3>1. Clean(End(a)) /\ o >= End(a) /\ End(a) \in Nat
      BY <1>1, <2>5, AckedIs
    <3> QED
      BY <2>2, <3>1
  <2>7. UNCHANGED <<up, good, index, acked>>
    BY <2>1 DEF object
  <2>8. IndexInv'
    <3>1. SUFFICES ASSUME up, \A r \in rotten' : r >= good
                   PROVE  /\ Closed(file', B, good)
                          /\ \A p \in Prints : index[p] \subseteq Starts(file', B)
                          /\ \A q, k, v : Rec(file', B, q, k, v) /\ q < good =>
                             \E p \in index[Fp(k)] : \E w : p <= q /\ Rec(file', B, p, k, w)
      BY <2>7 DEF IndexInv, Clean
    <3>2. Clean(good) /\ good <= o /\ good \in Nat
      <4>1. Clean(good) /\ o >= good /\ good \in Nat
        BY <1>1, <2>5, <3>1 DEF TypeOK
      <4> QED
        BY <2>2, <4>1
    <3>3. Agree(file, file', good)
      BY <2>2, <2>4, <3>2 DEF Agree
    <3> QED
      BY <2>2, <3>1, <3>2, <3>3, IndexTail
  <2> QED
    BY <1>5, <1>6, <2>6, <2>7, <2>8
<1>11. ASSUME NEW b \in Bounds, Open(b) \/ OpenCutOnly(b)
       PROVE  AckedInv' /\ FoundInv' /\ IndexInv'
  BY <1>11, IntactOpen, IntactCutOnly
<1>12. ASSUME NEW k \in Keys, Lookup(k) PROVE AckedInv' /\ FoundInv' /\ IndexInv'
  BY <1>3, <1>12 DEF Lookup
<1>13. ASSUME NEW k \in Keys, NEW v \in Values, PublishDeclined(k, v)
       PROVE  AckedInv' /\ FoundInv' /\ IndexInv'
  BY <1>3, <1>13 DEF PublishDeclined
<1>14. ASSUME NEW k \in Keys, NEW v \in Values, PublishLanded(k, v)
       PROVE  AckedInv' /\ FoundInv' /\ IndexInv'
  BY <1>14, IntactLanded
<1>15. ASSUME AtRest PROVE AckedInv' /\ FoundInv' /\ IndexInv'
  BY <1>3, <1>15 DEF AtRest
<1> QED
  BY <1>7, <1>8, <1>9, <1>10, <1>11, <1>12, <1>13, <1>14, <1>15 DEF Step

Now == TableOf(file, up, bound, index, fsize)

\* The table an open object serves.
LEMMA TableUp ==
    ASSUME up
    PROVE  Now = [k \in {j \in Keys : Matching(j) # {}} |->
                     RecordAt(file, fsize, bound, Min(Matching(k)))[2]]
BY DEF Now, TableOf, Matching

\* The table the next open of a closed log serves.
LEMMA TableDown ==
    ASSUME ~up
    PROVE  LET at(k) == Holding(file, Len(file), B, k, Starts(file, B))
           IN  Now = [k \in {j \in Keys : at(j) # {}} |->
                         RecordAt(file, Len(file), B, Min(at(k)))[2]]
BY DEF Now, TableOf, B

LEMMA HoldingStarts ==
    ASSUME NEW f \in Seq(Cell), NEW k, NEW o
    PROVE  o \in Holding(f, Len(f), B, k, Starts(f, B)) <=> \E w : Rec(f, B, o, k, w)
<1> DEFINE S == Starts(f, B)
<1>1. Len(f) \in Nat /\ Len(f) <= Len(f) /\ S \in SUBSET Nat
  BY StartsChain
<1> HIDE DEF S
<1>2. o \in Holding(f, Len(f), B, k, S) <=> o \in S /\ \E w : At(f, B, o, k, w)
  BY <1>1, HoldingIs DEF At
<1> QED
  BY <1>2 DEF Rec, S

\* The first record of a key is the one served.
LEMMA FirstServed ==
    ASSUME NEW f \in Seq(Cell), NEW n \in Nat, n <= Len(f), NEW S \in SUBSET Nat,
           NEW o \in S, NEW k, NEW v, Spells(f, n, B, o, k, v), \A q \in S : o <= q
    PROVE  RecordAt(f, n, B, Min(S)) = <<k, v>>
<1> DEFINE x == Min(S)
<1>1. x \in S /\ x <= o /\ o <= x
  BY MinIs
<1> HIDE DEF x
<1>2. x = o
  BY <1>1
<1>3. RecordAt(f, n, B, o) = <<k, v>>
  BY ReadIs
<1> QED
  BY <1>2, <1>3 DEF x

LEMMA IntactServes ==
    ASSUME OneBound, IntactInv, NEW a \in acked, Clean(End(a))
    PROVE  a.key \in DOMAIN Now /\ Now[a.key] = a.value
<1> DEFINE k == a.key
           v == a.value
           o == a.start
<1>1. /\ file \in Seq(Cell) /\ fsize \in Nat /\ Len(file) \in Nat /\ TypeOK
      /\ k \in Keys /\ o \in Nat
  BY AckedIs DEF IntactInv, TypeOK
<1>2. Rec(file, B, o, k, v) /\ \A q, w : Rec(file, B, q, k, w) => o <= q
  BY DEF IntactInv, AckedInv, FirstRec
<1>3. At(file, B, o, k, v)
  BY <1>2 DEF Rec
<1> DEFINE val == Now[k]
<1>4. CASE up
  <2> DEFINE ms == Matching(k)
  <2>1. /\ End(a) <= good /\ o \in index[Fp(k)]
        /\ \A q \in index[Fp(k)] : q < o => q \in Starts(file, B)
    BY <1>4 DEF IntactInv, FoundInv
  <2>2. o \in ms
    BY <1>1, <1>2, <1>4, <2>1, FoundIs DEF End
  <2>3. ASSUME NEW q \in ms PROVE q \in Nat /\ o <= q
    <3>1. q \in index[Fp(k)] /\ q \in Nat /\ \E w : At(file, B, q, k, w)
      BY <1>1, <1>4, MatchingIs
    <3> SUFFICES ASSUME q < o PROVE FALSE
      BY <1>1, <3>1
    <3>2. \E w : Rec(file, B, q, k, w)
      BY <2>1, <3>1 DEF Rec
    <3>3. o <= q
      BY <1>2, <3>2
    <3> QED
      BY <1>1, <3>1, <3>3
  <2>4. bound = B /\ good <= fsize /\ fsize <= Len(file) /\ good \in Nat
    BY <1>1, <1>4, OneBoundIs DEF TypeOK
  <2>5. o + Len(Image(k, v)) <= fsize
    <3>1. o + Len(Image(k, v)) <= good /\ o + Len(Image(k, v)) \in Nat
      BY <1>1, <2>1, AckedIs DEF End
    <3> QED
      BY <1>1, <2>4, <3>1
  <2>6. Spells(file, fsize, B, o, k, v)
    BY <1>3, <2>5 DEF At, Spells
  <2>7. k \in DOMAIN Now /\ val = RecordAt(file, fsize, B, Min(ms))[2]
    BY <1>1, <1>4, <2>2, <2>4, TableUp
  <2> HIDE DEF ms, k, v, o, val
  <2>8. ms \in SUBSET Nat
    BY <2>3
  <2>9. RecordAt(file, fsize, B, Min(ms)) = <<k, v>>
    BY <1>1, <2>2, <2>3, <2>4, <2>6, <2>8, FirstServed
  <2> QED
    BY <2>7, <2>9 DEF k, v, val
<1>5. CASE ~up
  <2> DEFINE at(j) == Holding(file, Len(file), B, j, Starts(file, B))
             S == at(k)
  <2>1. \A q : q \in S <=> \E w : Rec(file, B, q, k, w)
    BY <1>1, HoldingStarts
  <2>2. o \in S /\ S \in SUBSET Nat /\ \A q \in S : o <= q
    BY <1>1, <1>2, <2>1, RecFacts
  <2>3. Now = [j \in {i \in Keys : at(i) # {}} |->
                  RecordAt(file, Len(file), B, Min(at(j)))[2]]
    BY <1>5, TableDown
  <2>4. k \in DOMAIN Now /\ val = RecordAt(file, Len(file), B, Min(S))[2]
    BY <1>1, <2>2, <2>3
  <2> HIDE DEF S, k, v, o, val
  <2>5. RecordAt(file, Len(file), B, Min(S)) = <<k, v>>
    BY <1>1, <1>3, <2>2, FirstServed DEF At
  <2> QED
    BY <2>4, <2>5 DEF k, v, val
<1> QED
  BY <1>4, <1>5

LEMMA IntactInit ==
    Init => IntactInv
<1> SUFFICES ASSUME Init PROVE IntactInv
  OBVIOUS
<1>1. acked = {} /\ up = FALSE
  BY DEF Init
<1> QED
  BY <1>1, TypeInit DEF IntactInv, AckedInv, FoundInv, IndexInv

LEMMA IntactStep ==
    ASSUME OneBound, IntactInv, [Next]_vars
    PROVE  IntactInv'
<1>1. CASE UNCHANGED vars
  <2>1. UNCHANGED <<file, rotten, up, bound, index, good, fsize, acked>>
    BY <1>1 DEF vars, disk, object
  <2>2. TypeOK'
    BY <2>1 DEF IntactInv, TypeOK
  <2>3. AckedInv' /\ FoundInv'
    BY <2>1 DEF IntactInv, AckedInv, FoundInv, Clean, End
  <2>4. IndexInv'
    BY <2>1 DEF IntactInv, IndexInv, Clean
  <2> QED
    BY <2>2, <2>3, <2>4 DEF IntactInv
<1> QED
  BY <1>1, IntactNext, NextIs

\* Damage costs the records at and behind it: what a publish acknowledged is
\* served, unchanged, by every process and after every crash or failed write,
\* while no cell up to its end is damaged.  Every open must give the same
\* max_value_bytes: one with a smaller bound cuts the log at the first larger
\* record.
THEOREM IntactPrefixSurvivesAlways ==
    ASSUME OneBound
    PROVE  Spec => []IntactPrefixSurvives
<1>1. IntactInv /\ [Next]_vars => IntactInv'
  BY IntactStep
<1>2. IntactInv => IntactPrefixSurvives
  <2> SUFFICES ASSUME IntactInv, NEW a \in acked,
                      \A o \in rotten : o >= a.start + Len(Image(a.key, a.value))
               PROVE  a.key \in DOMAIN Now /\ Now[a.key] = a.value
    BY DEF IntactPrefixSurvives, Now
  <2>1. Clean(End(a))
    BY DEF Clean, End
  <2> QED
    BY <2>1, IntactServes
<1> QED
  BY <1>1, <1>2, IntactInit, PTL DEF Spec


-----------------------------------------------------------------------------
(* The undamaged log is a table.                                             *)

\* T maps each key with a record before offset m of f to its first one's value.
TableIs(T, f, m) ==
    /\ T = [k \in DOMAIN T |-> T[k]]
    /\ \A k : k \in DOMAIN T <=> \E o, v : o < m /\ Rec(f, B, o, k, v)
    /\ \A k \in DOMAIN T : \E o : o < m /\ FirstRec(f, o, k, T[k])

\* What IndexInv says of the file, the index and the cursor.
Indexes(f, ix, m) ==
    /\ Closed(f, B, m)
    /\ \A p \in Prints : ix[p] \subseteq Starts(f, B)
    /\ \A o, k, v : Rec(f, B, o, k, v) /\ o < m =>
          \E q \in ix[Fp(k)] : \E w : q <= o /\ Rec(f, B, q, k, w)

LEMMA TableOfUp ==
    ASSUME NEW f \in Seq(Cell), NEW n \in Nat, n <= Len(f), NEW m \in Nat, m <= n,
           NEW ix \in [Prints -> SUBSET Nat], Indexes(f, ix, m),
           \A p \in Prints : \A o \in ix[p] : o < m
    PROVE  TableIs(TableOf(f, TRUE, B, ix, n), f, m)
<1> DEFINE at(k) == Holding(f, n, B, k, ix[Fp(k)])
           T == TableOf(f, TRUE, B, ix, n)
<1>1. T = [k \in {j \in Keys : at(j) # {}} |-> RecordAt(f, n, B, Min(at(k)))[2]]
  BY DEF TableOf
<1>2. ASSUME NEW k \in Keys, NEW q \in at(k)
      PROVE  q \in Nat /\ q < m /\ \E w : Rec(f, B, q, k, w)
  <2> DEFINE X == ix[Fp(k)]
  <2>1. X \in SUBSET Nat /\ X \subseteq Starts(f, B) /\ \A o \in X : o < m
    BY DEF Prints, Indexes
  <2> HIDE DEF X
  <2>2. q \in Holding(f, n, B, k, X)
    BY DEF X
  <2>3. q \in X /\ \E w : Spells(f, n, B, q, k, w)
    BY <2>1, <2>2, HoldingIs
  <2>4. PICK w : Spells(f, n, B, q, k, w)
    BY <2>3
  <2>5. q \in Nat /\ q \in Starts(f, B) /\ q < m
    BY <2>1, <2>3
  <2>6. q + Len(Image(k, w)) <= Len(f)
    <3>1. q + Len(Image(k, w)) <= n /\ k \in Keys /\ w \in Values
      BY <2>4 DEF Spells
    <3>2. Len(Image(k, w)) \in Nat
      BY <3>1, ImageFacts
    <3> QED
      BY <2>5, <3>1, <3>2
  <2>7. At(f, B, q, k, w)
    BY <2>4, <2>6 DEF At, Spells
  <2> QED
    BY <2>5, <2>7 DEF Rec
<1>3. ASSUME NEW o, NEW k, NEW v, o < m, Rec(f, B, o, k, v)
      PROVE  \E q, w : /\ q < m /\ FirstRec(f, q, k, w) /\ q \in at(k)
                       /\ RecordAt(f, n, B, Min(at(k))) = <<k, w>>
  <2>1. PICK q, w : q <= o /\ q \in Nat /\ FirstRec(f, q, k, w)
    BY <1>3, FirstExists
  <2>2. /\ o \in Nat /\ k \in Keys
        /\ Rec(f, B, q, k, w) /\ \A p, u : Rec(f, B, p, k, u) => q <= p
    BY <1>3, <2>1, RecFacts DEF FirstRec
  <2>3. q < m
    BY <1>3, <2>1, <2>2
  <2>4. q \in ix[Fp(k)]
    <3>1. PICK p, u : p \in ix[Fp(k)] /\ p <= q /\ Rec(f, B, p, k, u)
      BY <2>2, <2>3 DEF Indexes
    <3>2. p \in Nat /\ q <= p
      BY <2>2, <3>1, RecFacts
    <3>3. p = q
      BY <2>1, <3>1, <3>2
    <3> QED
      BY <3>1, <3>3
  <2>5. q + Len(Image(k, w)) <= m
    BY <2>2, <2>3, BelowEnd DEF Indexes
  <2>6. Spells(f, n, B, q, k, w)
    <3>1. At(f, B, q, k, w) /\ q + Len(Image(k, w)) \in Nat
      BY <2>2, RecFacts DEF Rec
    <3>2. q + Len(Image(k, w)) <= n
      BY <2>5, <3>1
    <3> QED
      BY <3>1, <3>2 DEF At, Spells
  <2>7. q \in at(k)
    <3> DEFINE X == ix[Fp(k)]
    <3>1. X \in SUBSET Nat /\ q \in X
      BY <2>2, <2>4 DEF Prints
    <3> HIDE DEF X
    <3>2. q \in Holding(f, n, B, k, X)
      BY <2>6, <3>1, HoldingIs
    <3> QED
      BY <3>2 DEF X
  <2> DEFINE S == at(k)
  <2>8. S \in SUBSET Nat /\ \A p \in S : q <= p
    BY <1>2, <2>2
  <2>9. q \in S
    BY <2>7
  <2> HIDE DEF S
  <2>10. RecordAt(f, n, B, Min(S)) = <<k, w>>
    BY <2>6, <2>8, <2>9, FirstServed
  <2> QED
    BY <2>1, <2>3, <2>7, <2>10 DEF S
<1> HIDE DEF T, at
<1>4. ASSUME NEW k PROVE k \in DOMAIN T <=> \E o, v : o < m /\ Rec(f, B, o, k, v)
  <2>1. k \in DOMAIN T <=> k \in Keys /\ at(k) # {}
    BY <1>1
  <2>2. ASSUME k \in Keys, at(k) # {} PROVE \E o, v : o < m /\ Rec(f, B, o, k, v)
    BY <1>2, <2>2
  <2>3. ASSUME NEW o, NEW v, o < m, Rec(f, B, o, k, v) PROVE k \in Keys /\ at(k) # {}
    BY <1>3, <2>3, RecFacts
  <2> QED
    BY <2>1, <2>2, <2>3
<1>5. ASSUME NEW k \in DOMAIN T PROVE \E o : o < m /\ FirstRec(f, o, k, T[k])
  <2>1. PICK o, v : o < m /\ Rec(f, B, o, k, v)
    BY <1>4
  <2>2. PICK q, w : q < m /\ FirstRec(f, q, k, w) /\ RecordAt(f, n, B, Min(at(k))) = <<k, w>>
    BY <1>3, <2>1
  <2>3. T[k] = RecordAt(f, n, B, Min(at(k)))[2]
    BY <1>1
  <2>4. T[k] = w
    BY <2>2, <2>3
  <2> QED
    BY <2>2, <2>4
<1>6. T = [k \in DOMAIN T |-> T[k]]
  BY <1>1
<1> QED
  BY <1>4, <1>5, <1>6 DEF TableIs, T

LEMMA TableOfDown ==
    ASSUME NEW f \in Seq(Cell), NEW b, NEW ix, NEW n
    PROVE  TableIs(TableOf(f, FALSE, b, ix, n), f, Len(f))
<1> DEFINE l == Len(f)
           at(k) == Holding(f, l, B, k, Starts(f, B))
           T == TableOf(f, FALSE, b, ix, n)
<1>1. T = [k \in {j \in Keys : at(j) # {}} |-> RecordAt(f, l, B, Min(at(k)))[2]]
  BY DEF TableOf, B
<1>2. \A k, q : q \in at(k) <=> \E w : Rec(f, B, q, k, w)
  BY HoldingStarts
<1>3. ASSUME NEW o, NEW k, NEW v, Rec(f, B, o, k, v)
      PROVE  /\ o < l /\ k \in Keys
             /\ \E q, w : /\ q < l /\ FirstRec(f, q, k, w) /\ q \in at(k)
                          /\ RecordAt(f, l, B, Min(at(k))) = <<k, w>>
  <2>1. PICK q, w : q \in Nat /\ FirstRec(f, q, k, w)
    BY <1>3, FirstExists
  <2>2. Rec(f, B, q, k, w) /\ \A p, u : Rec(f, B, p, k, u) => q <= p
    BY <2>1 DEF FirstRec
  <2>3. o < l /\ k \in Keys /\ q < l
    <3>1. /\ o \in Nat /\ k \in Keys /\ q \in Nat /\ o \in Starts(f, B)
          /\ q \in Starts(f, B)
      BY <1>3, <2>2, RecFacts DEF Rec
    <3> QED
      BY <3>1, StartsChain
  <2> DEFINE S == at(k)
  <2>4. q \in S /\ S \in SUBSET Nat /\ \A p \in S : q <= p
    BY <1>2, <2>2, RecFacts
  <2> HIDE DEF S
  <2>5. Spells(f, l, B, q, k, w) /\ l \in Nat /\ l <= Len(f)
    BY <2>2 DEF Rec, At
  <2>6. RecordAt(f, l, B, Min(S)) = <<k, w>>
    BY <2>4, <2>5, FirstServed
  <2> QED
    BY <2>1, <2>3, <2>4, <2>6 DEF S
<1> HIDE DEF T, at
<1>4. ASSUME NEW k PROVE k \in DOMAIN T <=> \E o, v : o < l /\ Rec(f, B, o, k, v)
  <2>1. k \in DOMAIN T <=> k \in Keys /\ at(k) # {}
    BY <1>1
  <2>2. ASSUME at(k) # {} PROVE \E o, v : o < l /\ Rec(f, B, o, k, v)
    <3>1. PICK o, v : Rec(f, B, o, k, v)
      BY <1>2, <2>2
    <3> QED
      BY <1>3, <3>1
  <2>3. ASSUME NEW o, NEW v, Rec(f, B, o, k, v) PROVE k \in Keys /\ at(k) # {}
    BY <1>3, <2>3
  <2> QED
    BY <2>1, <2>2, <2>3
<1>5. ASSUME NEW k \in DOMAIN T PROVE \E o : o < l /\ FirstRec(f, o, k, T[k])
  <2>1. PICK o, v : Rec(f, B, o, k, v)
    BY <1>4
  <2>2. PICK q, w : q < l /\ FirstRec(f, q, k, w) /\ RecordAt(f, l, B, Min(at(k))) = <<k, w>>
    BY <1>3, <2>1
  <2>3. T[k] = RecordAt(f, l, B, Min(at(k)))[2]
    BY <1>1
  <2>4. T[k] = w
    BY <2>2, <2>3
  <2> QED
    BY <2>2, <2>4
<1>6. T = [k \in DOMAIN T |-> T[k]]
  BY <1>1
<1> QED
  BY <1>4, <1>5, <1>6 DEF TableIs, T

\* Values of first records.
LEMMA FirstUnique ==
    ASSUME NEW f \in Seq(Cell), NEW o, NEW p, NEW k, NEW v, NEW w,
           FirstRec(f, o, k, v), FirstRec(f, p, k, w)
    PROVE  o = p /\ v = w
<1>1. Rec(f, B, o, k, v) /\ Rec(f, B, p, k, w) /\ o <= p /\ p <= o
  BY DEF FirstRec
<1>2. o \in Nat /\ p \in Nat /\ \A j, u : At(f, B, o, j, u) => j = k /\ u = v
  BY <1>1, RecFacts
<1>3. o = p
  BY <1>1, <1>2
<1>4. At(f, B, o, k, w)
  BY <1>1, <1>3 DEF Rec
<1> QED
  BY <1>2, <1>3, <1>4

\* Equal records, equal tables.
LEMMA TableSame ==
    ASSUME NEW f \in Seq(Cell), NEW h \in Seq(Cell), NEW m \in Nat, NEW n \in Nat,
           NEW T, NEW U, TableIs(T, f, m), TableIs(U, h, n),
           \A o, k, v : o < m /\ Rec(f, B, o, k, v) <=> o < n /\ Rec(h, B, o, k, v)
    PROVE  U = T
<1>1. ASSUME NEW k PROVE k \in DOMAIN T <=> k \in DOMAIN U
  BY DEF TableIs
<1>2. DOMAIN T = DOMAIN U
  <2> DEFINE X == DOMAIN T
             Y == DOMAIN U
  <2>1. \A k : k \in X <=> k \in Y
    BY <1>1
  <2> HIDE DEF X, Y
  <2>2. X = Y
    BY <2>1
  <2> QED
    BY <2>2 DEF X, Y
<1>3. ASSUME NEW k \in DOMAIN T PROVE T[k] = U[k]
  <2>1. PICK o : o < m /\ FirstRec(f, o, k, T[k])
    BY DEF TableIs
  <2>2. PICK p : p < n /\ FirstRec(h, p, k, U[k])
    BY <1>2 DEF TableIs
  <2>3. Rec(f, B, o, k, T[k]) /\ \A q, w : Rec(f, B, q, k, w) => o <= q
    BY <2>1 DEF FirstRec
  <2>4. Rec(h, B, o, k, T[k]) /\ o < n /\ o \in Nat
    BY <2>1, <2>3, RecFacts
  <2>5. ASSUME NEW q, NEW w, Rec(h, B, q, k, w) PROVE o <= q
    <3>1. q \in Nat
      BY <2>5, RecFacts
    <3>2. CASE q < n
      BY <2>3, <2>5, <3>2
    <3>3. CASE ~(q < n)
      BY <2>4, <3>1, <3>3
    <3> QED
      BY <3>2, <3>3
  <2>6. FirstRec(h, o, k, T[k])
    BY <2>4, <2>5 DEF FirstRec
  <2> QED
    BY <2>2, <2>6, FirstUnique
<1>4. T = [k \in DOMAIN T |-> T[k]] /\ U = [k \in DOMAIN U |-> U[k]]
  BY DEF TableIs
<1>5. [k \in DOMAIN T |-> T[k]] = [k \in DOMAIN U |-> U[k]]
  BY <1>2, <1>3
<1> QED
  BY <1>4, <1>5


\* Table U is table T with a value for one more key.
Grows(T, U, k, v) ==
    /\ k \notin DOMAIN T
    /\ U = [j \in DOMAIN T \cup {k} |-> IF j = k THEN v ELSE T[j]]

\* One record more, behind the others: at most one key more.
LEMMA TableGrows ==
    ASSUME NEW f \in Seq(Cell), NEW h \in Seq(Cell), NEW m \in Nat, NEW n \in Nat,
           NEW T, NEW U, TableIs(T, f, m), TableIs(U, h, n),
           NEW e \in Nat, NEW ke, NEW ve, m <= e,
           \A o, k, v : o < n /\ Rec(h, B, o, k, v)
                           <=> \/ o < m /\ Rec(f, B, o, k, v)
                               \/ o = e /\ k = ke /\ v = ve
    PROVE  U = T \/ Grows(T, U, ke, ve)
<1>1. e < n /\ Rec(h, B, e, ke, ve)
  OBVIOUS
<1>2. \A k : k \in DOMAIN U <=> k \in DOMAIN T \/ k = ke
  <2> SUFFICES ASSUME NEW k PROVE k \in DOMAIN U <=> k \in DOMAIN T \/ k = ke
    OBVIOUS
  <2>1. k \in DOMAIN U <=> \E o, v : o < n /\ Rec(h, B, o, k, v)
    BY DEF TableIs
  <2>2. k \in DOMAIN T <=> \E o, v : o < m /\ Rec(f, B, o, k, v)
    BY DEF TableIs
  <2> QED
    BY <1>1, <2>1, <2>2
<1>3. ASSUME NEW k \in DOMAIN T PROVE U[k] = T[k]
  <2>1. PICK o : o < m /\ FirstRec(f, o, k, T[k])
    BY DEF TableIs
  <2>2. PICK p : p < n /\ FirstRec(h, p, k, U[k])
    BY <1>2 DEF TableIs
  <2>3. Rec(f, B, o, k, T[k]) /\ \A q, w : Rec(f, B, q, k, w) => o <= q
    BY <2>1 DEF FirstRec
  <2>4. Rec(h, B, o, k, T[k]) /\ o < n /\ o \in Nat
    BY <2>1, <2>3, RecFacts
  <2>5. ASSUME NEW q, NEW w, Rec(h, B, q, k, w) PROVE o <= q
    <3>1. q \in Nat
      BY <2>5, RecFacts
    <3>2. CASE ~(q < n)
      BY <2>4, <3>1, <3>2
    <3>3. CASE q < m /\ Rec(f, B, q, k, w)
      BY <2>3, <3>3
    <3>4. CASE q = e
      BY <2>1, <2>4, <3>4
    <3> QED
      BY <2>5, <3>2, <3>3, <3>4
  <2>6. FirstRec(h, o, k, T[k])
    BY <2>4, <2>5 DEF FirstRec
  <2> QED
    BY <2>2, <2>6, FirstUnique
<1>4. T = [k \in DOMAIN T |-> T[k]] /\ U = [k \in DOMAIN U |-> U[k]]
  BY DEF TableIs
<1> DEFINE X == DOMAIN T
           Y == DOMAIN U
<1>5. (\A k : k \in Y <=> k \in X \/ k = ke) /\ \A k \in X : U[k] = T[k]
  BY <1>2, <1>3
<1>6. CASE ke \in X
  <2> HIDE DEF X, Y
  <2>1. Y = X
    BY <1>5, <1>6
  <2> USE DEF X, Y
  <2>2. [k \in DOMAIN U |-> U[k]] = [k \in DOMAIN T |-> T[k]]
    BY <1>5, <2>1
  <2> QED
    BY <1>4, <2>2
<1>7. CASE ke \notin X
  <2>1. U[ke] = ve
    <3>1. PICK p : p < n /\ FirstRec(h, p, ke, U[ke])
      BY <1>2 DEF TableIs
    <3>2. Rec(h, B, p, ke, U[ke])
      BY <3>1 DEF FirstRec
    <3>3. ~(p < m /\ Rec(f, B, p, ke, U[ke]))
      BY <1>7 DEF TableIs
    <3> QED
      BY <3>1, <3>2, <3>3
  <2>2. Y = X \cup {ke}
    <3> HIDE DEF X, Y
    <3> QED
      BY <1>5
  <2>3. [k \in DOMAIN U |-> U[k]]
           = [j \in DOMAIN T \cup {ke} |-> IF j = ke THEN ve ELSE T[j]]
    BY <1>5, <2>1, <2>2
  <2> QED
    BY <1>4, <1>7, <2>3 DEF Grows
<1> QED
  BY <1>6, <1>7

\* No value embeds a record's head.
NoHeads == \A k \in Keys, v \in Values : Header(k, v) \notin Copied

\* Behind the cursor only what the latest failed writes left: one head, right
\* at the cursor.
TailInv == up => \A i \in 1 .. Len(file) : i > good + 1 => file[i] \notin Heads

LEMMA TailAppends ==
    ASSUME NoHeads, TypeOK, TailInv, NEW k \in Keys, NEW v \in Values,
           NEW n \in 0 .. Len(Image(k, v)), Appends(k, v, n)
    PROVE  \A i \in 1 .. Len(file') : i > good + 1 => file'[i] \notin Heads
<1> SUFFICES ASSUME NEW i \in 1 .. Len(file'), i > good + 1 PROVE file'[i] \notin Heads
  OBVIOUS
<1>1. good \in Nat /\ up
  BY DEF TypeOK, Appends
<1>2. \/ \E j \in 1 .. n : i = good + j /\ file'[i] = Image(k, v)[j]
      \/ i \in 1 .. Len(file) /\ file'[i] = file[i]
  BY AppendIs DEF Appends
<1>3. CASE i \in 1 .. Len(file) /\ file'[i] = file[i]
  BY <1>1, <1>3 DEF TailInv
<1>4. ASSUME NEW j \in 1 .. n, i = good + j, file'[i] = Image(k, v)[j]
      PROVE  file'[i] \notin Heads
  <2> DEFINE c == Image(k, v)[j]
  <2>1. j # 1 /\ j \in 1 .. Len(Image(k, v))
    BY <1>1, <1>4, ImageFacts
  <2>2. c = Checksum(k, v) \/ c \in CellsOf(v)
    BY <2>1, ImageCells
  <2> HIDE DEF c
  <2>3. c \in CellsOf(v) => c \notin Heads
    BY DEF NoHeads, Heads, Copied
  <2>4. Checksum(k, v) \notin Heads
    BY DEF Checksum, Header, Heads
  <2>5. c \notin Heads
    BY <2>2, <2>3, <2>4
  <2> QED
    BY <1>4, <2>5 DEF c
<1> QED
  BY <1>2, <1>3, <1>4

LEMMA TailNext ==
    ASSUME NoHeads, TypeOK, TailInv, Step
    PROVE  TailInv'
<1>1. good \in Nat /\ file \in Seq(Cell)
  BY DEF TypeOK
<1>2. ASSUME NEW b \in Bounds, Open(b) PROVE TailInv'
  <2> DEFINE P == Prefix(file, b)
             h == SubSeq(file, 1, P)
  <2>1. file' = h /\ good' = P
    BY <1>2 DEF Open
  <2>2. Len(h) = P /\ P \in Nat
    BY <1>1, CutIs, PrefixIs
  <2> HIDE DEF h, P
  <2> QED
    BY <2>1, <2>2 DEF TailInv
<1>3. ASSUME NEW k \in Keys, NEW v \in Values, PublishLanded(k, v) PROVE TailInv'
  <2>1. good' = good + Len(Image(k, v)) /\ Len(Image(k, v)) \in Nat
    BY <1>3, ImageFacts DEF PublishLanded
  <2>2. \A i \in 1 .. Len(file') : i > good + 1 => file'[i] \notin Heads
    BY <1>3, PublishAppends, WholeIs, TailAppends
  <2>3. SUFFICES ASSUME NEW i \in 1 .. Len(file'), i > good' + 1
                 PROVE  file'[i] \notin Heads
    BY DEF TailInv
  <2>4. i > good + 1
    BY <1>1, <2>1, <2>3
  <2> QED
    BY <2>2, <2>4
<1>4. ASSUME NEW k \in Keys, NEW v \in Values, PublishFailed(k, v) PROVE TailInv'
  <2>1. good' = good
    BY <1>4 DEF PublishFailed
  <2>2. \A i \in 1 .. Len(file') : i > good + 1 => file'[i] \notin Heads
    BY <1>4, PublishAppends, TailAppends
  <2> QED
    BY <2>1, <2>2 DEF TailInv
<1>5. ASSUME NEW o \in 0 .. Len(file), Rot(o) PROVE TailInv'
  <2>1. /\ o < Len(file) /\ file' = [file EXCEPT ![o + 1] = Rotten] /\ up' = up
        /\ good' = good
    BY <1>5 DEF Rot, object
  <2>2. Len(file') = Len(file) /\ \A i \in 1 .. Len(file) : file'[i] = Rotten \/ file'[i] = file[i]
    BY <1>1, <2>1
  <2>3. Rotten \notin Heads
    BY DEF Rotten, Heads, Header
  <2> QED
    BY <2>1, <2>2, <2>3 DEF TailInv
<1>6. ASSUME UNCHANGED <<disk, object>> PROVE TailInv'
  BY <1>6 DEF TailInv, disk, object
<1>7. ASSUME ~up' PROVE TailInv'
  BY <1>7 DEF TailInv
<1>8. ASSUME NEW b \in Bounds, OpenCutOnly(b) PROVE TailInv'
  BY <1>7, <1>8 DEF OpenCutOnly, object
<1>9. ASSUME NEW k \in Keys, Lookup(k) PROVE TailInv'
  BY <1>6, <1>9 DEF Lookup
<1>10. ASSUME NEW k \in Keys, NEW v \in Values, PublishDeclined(k, v) \/ PublishCut(k, v)
       PROVE  TailInv'
  BY <1>6, <1>7, <1>10 DEF PublishDeclined, PublishCut
<1>11. ASSUME Exit \/ AtRest PROVE TailInv'
  BY <1>6, <1>7, <1>11 DEF Exit, AtRest
<1> QED
  BY <1>2, <1>3, <1>4, <1>5, <1>8, <1>9, <1>10, <1>11 DEF Step


\* A load of a log with an unfinished or unindexed tail finds at most one
\* record more than the object that left it served.
LEMMA Reveal ==
    ASSUME NEW f \in Seq(Cell), NEW h \in Seq(Cell), NEW m \in Nat, Agree(f, h, m),
           Closed(f, B, m), \A i \in 1 .. Len(h) : i > m + 1 => h[i] \notin Heads,
           NEW T, NEW U, TableIs(T, f, m), TableIs(U, h, Len(h))
    PROVE  U = T \/ \E k \in Keys, v \in Values : Grows(T, U, k, v)
<1> DEFINE n == Len(h)
<1>1. m \in Nat /\ n \in Nat /\ m <= n
  BY DEF Agree
<1>2. \A o, k, v : o < m => (Rec(h, B, o, k, v) <=> Rec(f, B, o, k, v))
  BY SameBelow
<1>3. ASSUME NEW o, NEW k, NEW v, Rec(h, B, o, k, v)
      PROVE  o \in Nat /\ k \in Keys /\ v \in Values /\ o < n /\ o <= m
  <2>1. /\ o \in Nat /\ k \in Keys /\ v \in Values /\ Len(Image(k, v)) \in Nat
        /\ Len(Image(k, v)) >= 2 /\ o + Len(Image(k, v)) <= n
    BY <1>3, RecFacts
  <2>2. h[o + 1] = Image(k, v)[1]
    BY <1>3, <2>1 DEF Rec, At, Spells
  <2>3. h[o + 1] \in Heads
    BY <2>1, <2>2, ImageFacts DEF Heads
  <2>4. o + 1 \in 1 .. n /\ ~(o + 1 > m + 1)
    BY <1>1, <2>1, <2>3
  <2> QED
    BY <1>1, <2>1, <2>4
<1>4. CASE \A k, v : ~Rec(h, B, m, k, v)
  <2>1. ASSUME NEW o, NEW k, NEW v
        PROVE  o < m /\ Rec(f, B, o, k, v) <=> o < n /\ Rec(h, B, o, k, v)
    <3>1. ASSUME Rec(h, B, o, k, v) PROVE o < m
      BY <1>3, <1>4, <3>1
    <3>2. ASSUME o < m, Rec(f, B, o, k, v) PROVE o < n
      BY <1>2, <1>3, <3>2
    <3> QED
      BY <1>2, <3>1, <3>2
  <2> HIDE DEF n
  <2>2. TableIs(U, h, n)
    BY DEF n
  <2>3. U = T
    BY <1>1, <2>1, <2>2, TableSame
  <2> QED
    BY <2>3
<1>5. ASSUME NEW ke, NEW ve, Rec(h, B, m, ke, ve)
      PROVE  U = T \/ \E k \in Keys, v \in Values : Grows(T, U, k, v)
  <2>1. /\ ke \in Keys /\ ve \in Values /\ m < n
        /\ \A j, w : At(h, B, m, j, w) => j = ke /\ w = ve
    BY <1>3, <1>5, RecFacts
  <2>2. ASSUME NEW o, NEW k, NEW v
        PROVE  o < n /\ Rec(h, B, o, k, v)
                  <=> \/ o < m /\ Rec(f, B, o, k, v)
                      \/ o = m /\ k = ke /\ v = ve
    <3>1. ASSUME Rec(h, B, o, k, v)
          PROVE  (o < m /\ Rec(f, B, o, k, v)) \/ (o = m /\ k = ke /\ v = ve)
      <4>1. o < m \/ o = m
        BY <1>3, <3>1
      <4> QED
        BY <1>2, <2>1, <3>1, <4>1 DEF Rec
    <3>2. ASSUME o < m, Rec(f, B, o, k, v) PROVE o < n /\ Rec(h, B, o, k, v)
      BY <1>2, <1>3, <3>2
    <3> QED
      BY <1>5, <2>1, <3>1, <3>2
  <2> HIDE DEF n
  <2>3. TableIs(U, h, n) /\ m <= m
    BY DEF n
  <2>4. U = T \/ Grows(T, U, ke, ve)
    BY <1>1, <2>2, <2>3, TableGrows
  <2> QED
    BY <2>1, <2>4
<1> QED
  BY <1>4, <1>5

LEMMA NowUp ==
    ASSUME OneBound, IntactInv, rotten = {}, up
    PROVE  TableIs(Now, file, good)
<1>1. /\ file \in Seq(Cell) /\ fsize \in Nat /\ fsize <= Len(file) /\ good \in Nat
      /\ good <= fsize /\ index \in [Prints -> SUBSET Nat] /\ bound = B /\ up = TRUE
      /\ \A p \in Prints : \A o \in index[p] : o < good
  BY OneBoundIs DEF IntactInv, TypeOK
<1>2. Indexes(file, index, good)
  BY DEF IntactInv, IndexInv, Clean, Indexes
<1>3. TableIs(TableOf(file, TRUE, B, index, fsize), file, good)
  BY <1>1, <1>2, TableOfUp
<1> QED
  BY <1>1, <1>3 DEF Now

LEMMA NowUpNext ==
    ASSUME OneBound, IntactInv', rotten' = {}, up'
    PROVE  TableIs(Now', file', good')
<1>1. /\ file' \in Seq(Cell) /\ fsize' \in Nat /\ fsize' <= Len(file') /\ good' \in Nat
      /\ good' <= fsize' /\ index' \in [Prints -> SUBSET Nat] /\ bound' = B /\ up' = TRUE
      /\ \A p \in Prints : \A o \in index'[p] : o < good'
  BY OneBoundIs DEF IntactInv, TypeOK
<1>2. Indexes(file', index', good')
  BY DEF IntactInv, IndexInv, Clean, Indexes
<1>3. TableIs(TableOf(file', TRUE, B, index', fsize'), file', good')
  BY <1>1, <1>2, TableOfUp
<1> QED
  BY <1>1, <1>3 DEF Now

LEMMA NowDown ==
    ASSUME IntactInv, ~up
    PROVE  TableIs(Now, file, Len(file))
<1>1. file \in Seq(Cell) /\ up = FALSE
  BY DEF IntactInv, TypeOK
<1>2. TableIs(TableOf(file, FALSE, bound, index, fsize), file, Len(file))
  BY <1>1, TableOfDown
<1> QED
  BY <1>1, <1>2 DEF Now

LEMMA NowDownNext ==
    ASSUME IntactInv', ~up'
    PROVE  TableIs(Now', file', Len(file'))
<1>1. file' \in Seq(Cell) /\ up' = FALSE
  BY DEF IntactInv, TypeOK
<1>2. TableIs(TableOf(file', FALSE, bound', index', fsize'), file', Len(file'))
  BY <1>1, TableOfDown
<1> QED
  BY <1>1, <1>2 DEF Now


TableStep ==
    \/ UNCHANGED <<Now, answer>>
    \/ \E k \in Keys : /\ answer' = IF k \in DOMAIN Now THEN {<<k, Now[k]>>} ELSE {}
                       /\ Now' = Now
    \/ \E k \in Keys, v \in Values : Grows(Now, Now', k, v) /\ answer' = answer

LEMMA TableOpen ==
    ASSUME OneBound, IntactInv, IntactInv', rotten' = {}, NEW b \in Bounds,
           Open(b) \/ OpenCutOnly(b)
    PROVE  Now' = Now
<1> DEFINE P == Prefix(file, B)
           h == SubSeq(file, 1, P)
           n == Len(file)
<1>1. file \in Seq(Cell) /\ n \in Nat /\ ~up /\ file' = h
  BY OneBoundIs DEF IntactInv, TypeOK, Open, OpenCutOnly
<1>2. /\ h \in Seq(Cell) /\ Len(h) = P
      /\ \A o, k, v : Rec(h, B, o, k, v) <=> Rec(file, B, o, k, v)
  BY <1>1, CutIs
<1>3. P \in Nat /\ P <= n /\ \A o, k, v : Rec(file, B, o, k, v) => o < P
  BY <1>1, PrefixIs
<1>4. TableIs(Now, file, n)
  BY <1>1, NowDown
<1>5. TableIs(Now', h, P)
  <2>1. CASE Open(b)
    <3>1. up' /\ good' = P
      BY <2>1, OneBoundIs DEF Open
    <3>2. TableIs(Now', file', good')
      BY <3>1, NowUpNext
    <3> QED
      BY <1>1, <3>1, <3>2
  <2>2. CASE OpenCutOnly(b)
    <3>1. ~up'
      BY <1>1, <2>2 DEF OpenCutOnly, object
    <3>2. TableIs(Now', file', Len(file'))
      BY <3>1, NowDownNext
    <3> QED
      BY <1>1, <1>2, <3>2
  <2> QED
    BY <2>1, <2>2
<1> HIDE DEF h, P, n
<1>6. \A o, k, v : o < n /\ Rec(file, B, o, k, v) <=> o < P /\ Rec(h, B, o, k, v)
  <2> SUFFICES ASSUME NEW o, NEW k, NEW v, Rec(file, B, o, k, v) PROVE o < n /\ o < P
    BY <1>2
  <2>1. o \in Nat /\ o < P
    BY <1>1, <1>3, RecFacts
  <2> QED
    BY <1>1, <1>3, <2>1
<1> DEFINE T == Now
           U == Now'
<1>7. TableIs(T, file, n) /\ TableIs(U, h, P)
  BY <1>4, <1>5
<1> HIDE DEF T, U
<1>8. U = T
  BY <1>1, <1>2, <1>3, <1>6, <1>7, TableSame
<1> QED
  BY <1>8 DEF T, U

LEMMA TableLanded ==
    ASSUME OneBound, IntactInv, IntactInv', rotten = {}, rotten' = {},
           NEW k \in Keys, NEW v \in Values, PublishLanded(k, v)
    PROVE  Now' = Now \/ Grows(Now, Now', k, v)
<1> DEFINE l == Len(Image(k, v))
           n == good + l
           h == file'
<1>1. /\ file \in Seq(Cell) /\ good \in Nat /\ up /\ TypeOK /\ IndexInv /\ h \in Seq(Cell)
  BY DEF IntactInv, TypeOK, PublishLanded
<1>2. l \in Nat /\ l >= 2 /\ l \in 0 .. l /\ Appends(k, v, l)
  BY PublishAppends, ImageFacts, WholeIs
<1>3. Agree(file, h, good)
  BY <1>1, <1>2, AppendIs DEF Appends
<1>4. Clean(good) /\ Closed(file, B, good)
  BY <1>1 DEF Clean, IndexInv
<1>5. FirstRec(h, good, k, v)
  BY <1>1, <1>4, LandedIs
<1>6. good' = n /\ n \in Nat /\ good < n /\ up'
  BY <1>1, <1>2 DEF PublishLanded
<1> DEFINE T == Now
           U == Now'
<1>7. TableIs(T, file, good)
  BY <1>1, NowUp
<1>8. TableIs(U, h, n)
  <2>1. TableIs(Now', file', good')
    BY <1>6, NowUpNext
  <2> QED
    BY <1>6, <2>1
<1> HIDE DEF h, n, T, U
<1>9. \A o, kk, vv : o < good => (Rec(h, B, o, kk, vv) <=> Rec(file, B, o, kk, vv))
  BY <1>1, <1>3, <1>4, SameBelow
<1>10. /\ Rec(h, B, good, k, v) /\ good \in Starts(h, B)
       /\ \A j, w : At(h, B, good, j, w) => j = k /\ w = v
  <2>1. Rec(h, B, good, k, v)
    BY <1>5 DEF FirstRec
  <2>2. \A j, w : At(h, B, good, j, w) => j = k /\ w = v
    BY <1>1, <2>1, RecFacts
  <2> QED
    BY <2>1, <2>2 DEF Rec
<1>11. ASSUME NEW o, NEW kk, NEW vv, o < n, Rec(h, B, o, kk, vv)
       PROVE  (o < good /\ Rec(file, B, o, kk, vv)) \/ (o = good /\ kk = k /\ vv = v)
  <2>1. o \in Nat /\ o \in Starts(h, B) /\ At(h, B, o, kk, vv)
    BY <1>1, <1>11, RecFacts DEF Rec
  <2>2. CASE o < good
    BY <1>9, <1>11, <2>2
  <2>3. CASE o = good
    BY <1>10, <2>1, <2>3
  <2>4. CASE good < o
    <3>1. good + l <= o
      BY <1>1, <1>10, <2>1, <2>4, Disjoint
    <3> QED
      BY <1>1, <1>2, <1>11, <2>1, <3>1 DEF n
  <2> QED
    BY <1>1, <2>1, <2>2, <2>3, <2>4
<1>12. ASSUME NEW o, NEW kk, NEW vv
       PROVE  o < n /\ Rec(h, B, o, kk, vv)
                 <=> \/ o < good /\ Rec(file, B, o, kk, vv)
                     \/ o = good /\ kk = k /\ vv = v
  <2>1. ASSUME o < good, Rec(file, B, o, kk, vv) PROVE o < n /\ Rec(h, B, o, kk, vv)
    <3>1. o \in Nat
      BY <1>1, <2>1, RecFacts
    <3> QED
      BY <1>1, <1>6, <1>9, <2>1, <3>1
  <2> QED
    BY <1>6, <1>10, <1>11, <2>1
<1>13. good <= good
  BY <1>1
<1>14. U = T \/ Grows(T, U, k, v)
  BY <1>1, <1>6, <1>7, <1>8, <1>12, <1>13, TableGrows
<1> QED
  BY <1>14 DEF T, U

\* The object is gone and the log has at most one part of a record more.
LEMMA TableClosed ==
    ASSUME OneBound, NoHeads, IntactInv, TailInv, IntactInv', rotten = {}, up, ~up',
           Agree(file, file', good),
           \A i \in 1 .. Len(file') : i > good + 1 => file'[i] \notin Heads
    PROVE  Now' = Now \/ \E k \in Keys, v \in Values : Grows(Now, Now', k, v)
<1> DEFINE T == Now
           U == Now'
           h == file'
<1>1. /\ file \in Seq(Cell) /\ good \in Nat /\ IndexInv /\ h \in Seq(Cell)
  BY DEF IntactInv, TypeOK
<1>2. Closed(file, B, good)
  BY <1>1 DEF IndexInv, Clean
<1>3. TableIs(T, file, good)
  BY NowUp
<1>4. TableIs(U, h, Len(h))
  BY NowDownNext
<1>5. Agree(file, h, good) /\ \A i \in 1 .. Len(h) : i > good + 1 => h[i] \notin Heads
  OBVIOUS
<1> HIDE DEF h, T, U
<1>6. U = T \/ \E k \in Keys, v \in Values : Grows(T, U, k, v)
  BY <1>1, <1>2, <1>3, <1>4, <1>5, Reveal
<1> QED
  BY <1>6 DEF T, U

LEMMA TableFailed ==
    ASSUME OneBound, IntactInv, IntactInv', rotten = {}, rotten' = {},
           NEW k \in Keys, NEW v \in Values, PublishFailed(k, v)
    PROVE  Now' = Now
<1> DEFINE T == Now
           U == Now'
           h == file'
<1>1. /\ file \in Seq(Cell) /\ good \in Nat /\ IndexInv /\ TypeOK /\ h \in Seq(Cell)
  BY DEF IntactInv, TypeOK
<1>2. up /\ up' /\ good' = good
  BY DEF PublishFailed
<1>3. Agree(file, h, good)
  BY <1>1, PublishAppends, AppendIs DEF Appends
<1>4. Closed(file, B, good)
  BY <1>1, <1>2 DEF IndexInv, Clean
<1>5. TableIs(T, file, good)
  BY <1>2, NowUp
<1>6. TableIs(U, h, good)
  <2>1. TableIs(Now', file', good')
    BY <1>2, NowUpNext
  <2> QED
    BY <1>2, <2>1
<1> HIDE DEF h, T, U
<1>7. \A o, kk, vv : o < good => (Rec(h, B, o, kk, vv) <=> Rec(file, B, o, kk, vv))
  BY <1>1, <1>3, <1>4, SameBelow
<1>8. \A o, kk, vv : o < good /\ Rec(file, B, o, kk, vv)
                        <=> o < good /\ Rec(h, B, o, kk, vv)
  BY <1>7
<1>9. U = T
  BY <1>1, <1>5, <1>6, <1>8, TableSame
<1> QED
  BY <1>9 DEF T, U

LEMMA TableNext ==
    ASSUME OneBound, NoHeads, IntactInv, TailInv, IntactInv', rotten' = {}, Step
    PROVE  rotten = {} /\ TableStep
<1>1. rotten = {}
  <2>1. rotten \subseteq rotten'
    BY DEF Step, Open, OpenCutOnly, Lookup, PublishDeclined, PublishLanded, PublishFailed,
           PublishCut, Exit, Rot, AtRest, disk
  <2> QED
    BY <2>1
<1>2. ASSUME UNCHANGED <<disk, object, answer>> PROVE TableStep
  BY <1>2 DEF TableStep, Now, disk, object
<1>3. ASSUME NEW b \in Bounds, Open(b) \/ OpenCutOnly(b) PROVE TableStep
  <2>1. answer' = answer
    BY <1>3 DEF Open, OpenCutOnly
  <2> QED
    BY <1>3, <2>1, TableOpen DEF TableStep
<1>4. ASSUME NEW k \in Keys, Lookup(k) PROVE TableStep
  <2> DEFINE rec == RecordAt(file, fsize, bound, Min(Matching(k)))
  <2>1. /\ up /\ UNCHANGED <<disk, object>>
        /\ answer' = IF Matching(k) = {} THEN {} ELSE {<<k, rec[2]>>}
    BY <1>4 DEF Lookup
  <2>2. Now' = Now
    BY <2>1 DEF Now, disk, object
  <2>3. /\ k \in DOMAIN Now <=> Matching(k) # {}
        /\ k \in DOMAIN Now => Now[k] = rec[2]
    BY <2>1, TableUp
  <2>4. answer' = IF k \in DOMAIN Now THEN {<<k, Now[k]>>} ELSE {}
    <3> HIDE DEF rec
    <3> QED
      BY <2>1, <2>3
  <2> QED
    BY <2>2, <2>4 DEF TableStep
<1>5. ASSUME NEW k \in Keys, NEW v \in Values, PublishDeclined(k, v) PROVE TableStep
  BY <1>2, <1>5 DEF PublishDeclined
<1>6. ASSUME NEW k \in Keys, NEW v \in Values, PublishLanded(k, v) PROVE TableStep
  <2>1. answer' = answer
    BY <1>6 DEF PublishLanded
  <2>2. Now' = Now \/ Grows(Now, Now', k, v)
    BY <1>1, <1>6, TableLanded
  <2> QED
    BY <2>1, <2>2 DEF TableStep
<1>7. ASSUME NEW k \in Keys, NEW v \in Values, PublishFailed(k, v) PROVE TableStep
  <2>1. answer' = answer
    BY <1>7 DEF PublishFailed
  <2>2. Now' = Now
    BY <1>1, <1>7, TableFailed
  <2> QED
    BY <2>1, <2>2 DEF TableStep
<1>8. ASSUME NEW k \in Keys, NEW v \in Values, PublishCut(k, v) PROVE TableStep
  <2>1. answer' = answer /\ up /\ ~up' /\ TypeOK
    BY <1>8 DEF PublishCut, IntactInv
  <2>2. PICK n \in 0 .. Len(Image(k, v)) : Appends(k, v, n)
    BY <1>8, PublishAppends
  <2>3. Agree(file, file', good)
    BY <2>1, <2>2, AppendIs DEF Appends
  <2>4. \A i \in 1 .. Len(file') : i > good + 1 => file'[i] \notin Heads
    BY <2>1, <2>2, TailAppends
  <2>5. Now' = Now \/ \E kk \in Keys, vv \in Values : Grows(Now, Now', kk, vv)
    BY <1>1, <2>1, <2>3, <2>4, TableClosed
  <2> QED
    BY <2>1, <2>5 DEF TableStep
<1>9. ASSUME Exit PROVE TableStep
  <2>1. answer' = answer /\ up /\ ~up' /\ file' = file
    BY <1>9 DEF Exit, disk
  <2>2. good \in Nat /\ good <= fsize /\ fsize <= Len(file) /\ fsize \in Nat
        /\ file \in Seq(Cell)
    BY <2>1 DEF IntactInv, TypeOK
  <2>3. good <= Len(file)
    BY <2>2
  <2>4. Agree(file, file', good)
    BY <2>1, <2>2, <2>3 DEF Agree
  <2>5. \A i \in 1 .. Len(file') : i > good + 1 => file'[i] \notin Heads
    BY <2>1 DEF TailInv
  <2>6. Now' = Now \/ \E kk \in Keys, vv \in Values : Grows(Now, Now', kk, vv)
    BY <1>1, <2>1, <2>4, <2>5, TableClosed
  <2> QED
    BY <2>1, <2>6 DEF TableStep
<1>10. ASSUME NEW o \in 0 .. Len(file), Rot(o) PROVE TableStep
  BY <1>10 DEF Rot
<1>11. ASSUME AtRest PROVE TableStep
  BY <1>2, <1>11 DEF AtRest
<1> QED
  BY <1>1, <1>3, <1>4, <1>5, <1>6, <1>7, <1>8, <1>9, <1>10, <1>11 DEF Step

HeldInv == rotten = {} => held = [table |-> Now, answer |-> answer]

MemoInv == IntactInv /\ TailInv /\ HeldInv

LEMMA MemoInit ==
    Init => MemoInv /\ Table!Init
<1> SUFFICES ASSUME Init PROVE MemoInv /\ Table!Init
  OBVIOUS
<1>1. /\ up = FALSE /\ file = <<>> /\ answer = {}
      /\ held = [table |-> [k \in {} |-> 0], answer |-> {}]
  BY DEF Init
<1>2. IntactInv
  BY IntactInit
<1> DEFINE T == Now
<1>3. TableIs(T, file, Len(file))
  BY <1>1, <1>2, NowDown
<1>4. \A o, k, v : ~(o < Len(file) /\ Rec(file, B, o, k, v))
  <2> SUFFICES ASSUME NEW o, NEW k, NEW v, o < Len(file), Rec(file, B, o, k, v) PROVE FALSE
    OBVIOUS
  <2>1. file \in Seq(Cell) /\ Len(file) = 0
    BY <1>1
  <2>2. o \in Nat
    BY <2>1, RecFacts
  <2> QED
    BY <2>1, <2>2
<1> HIDE DEF T
<1>5. T = [k \in {} |-> 0]
  <2>1. DOMAIN T = {} /\ T = [k \in DOMAIN T |-> T[k]]
    BY <1>3, <1>4 DEF TableIs
  <2> QED
    BY <2>1
<1>6. HeldInv
  BY <1>1, <1>5 DEF HeldInv, T
<1>7. held.table = [k \in {} |-> {}] /\ held.answer = {}
  BY <1>1
<1> QED
  BY <1>1, <1>2, <1>6, <1>7 DEF MemoInv, TailInv, Table!Init

LEMMA MemoNext ==
    ASSUME OneBound, NoHeads, MemoInv, [Next]_vars
    PROVE  MemoInv' /\ [Table!Next]_(Table!vars)
<1>1. IntactInv /\ TailInv /\ HeldInv /\ TypeOK
  BY DEF MemoInv, IntactInv
<1>2. IntactInv'
  BY <1>1, IntactStep
<1>3. CASE UNCHANGED vars
  <2>1. UNCHANGED <<file, rotten, up, bound, index, good, fsize, answer, held>>
    BY <1>3 DEF vars, disk, object
  <2>2. TailInv' /\ HeldInv'
    BY <1>1, <2>1 DEF TailInv, HeldInv, Now
  <2> QED
    BY <1>2, <2>1, <2>2 DEF MemoInv, Table!vars
<1>4. CASE Next
  <2>1. /\ Step
        /\ held' = IF rotten' # {} THEN held ELSE [table |-> Now', answer |-> answer']
    BY <1>4 DEF Next, Now
  <2>2. TailInv' /\ HeldInv'
    BY <1>1, <2>1, TailNext DEF HeldInv
  <2>3. CASE rotten' # {}
    BY <1>2, <2>1, <2>2, <2>3 DEF MemoInv, Table!vars
  <2>4. CASE rotten' = {}
    <3>1. rotten = {} /\ TableStep
      BY <1>1, <1>2, <2>1, <2>4, TableNext
    <3>2. /\ held = [table |-> Now, answer |-> answer]
          /\ held' = [table |-> Now', answer |-> answer']
      BY <1>1, <2>1, <2>4, <3>1 DEF HeldInv
    <3>3. /\ held.table = Now /\ held.answer = answer
          /\ held'.table = Now' /\ held'.answer = answer'
      BY <3>2
    <3>4. ASSUME UNCHANGED <<Now, answer>> PROVE UNCHANGED Table!vars
      BY <3>3, <3>4 DEF Table!vars
    <3>5. ASSUME NEW k \in Keys, Now' = Now,
                 answer' = IF k \in DOMAIN Now THEN {<<k, Now[k]>>} ELSE {}
          PROVE  Table!Next
      <4>1. Table!Looks(k)
        BY <3>3, <3>5 DEF Table!Looks
      <4> QED
        BY <4>1 DEF Table!Next
    <3>6. ASSUME NEW k \in Keys, NEW v \in Values, Grows(Now, Now', k, v), answer' = answer
          PROVE  Table!Next
      <4>1. Table!Stores(k, v)
        BY <3>3, <3>6 DEF Table!Stores, Grows
      <4> QED
        BY <4>1 DEF Table!Next
    <3>7. [Table!Next]_(Table!vars)
      BY <3>1, <3>4, <3>5, <3>6 DEF TableStep
    <3> QED
      BY <1>2, <2>2, <3>7 DEF MemoInv
  <2> QED
    BY <2>3, <2>4
<1> QED
  BY <1>3, <1>4

\* The durable log implements the table DistributedMemo promises: through every
\* exit, crash, failed or torn write and reopen, until the medium damages it, a
\* key keeps the first value stored for it and a lookup answers with that value
\* or not at all.  Every open gives the same bound and no value embeds a
\* record's head.
THEOREM LogIsMemoTable ==
    ASSUME OneBound, NoHeads
    PROVE  Spec => IsMemoTable
<1>1. Init => MemoInv /\ Table!Init
  BY MemoInit
<1>2. MemoInv /\ [Next]_vars => MemoInv' /\ [Table!Next]_(Table!vars)
  BY MemoNext
<1> QED
  BY <1>1, <1>2, PTL DEF Spec, IsMemoTable, Table!Spec


=============================================================================
