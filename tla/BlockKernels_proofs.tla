------------------------ MODULE BlockKernels_proofs ------------------------
(***************************************************************************)
(* One block of any number of threads keeps step.  A certificate of a      *)
(* kernel says for each position of its body what is known when a thread   *)
(* is there.  Threads that follow a certified kernel pass the same control *)
(* states between two barriers (Lockstep), from which NoRace and NoDesync  *)
(* follow; thread 0's reports and the finished sums are followed along.    *)
(* Then every kernel has its certificate, put together from the paths of   *)
(* its parts (PathCat): trees and strides, the solvers, the transform.     *)
(***************************************************************************)
EXTENDS BlockKernels, TLAPS, WellFoundedInduction

Counters == {"sys", "it", "inner"}

-----------------------------------------------------------------------------
(* Certificates.  What is known at a position: the cells that may have been  *)
(* read by other threads than their owner (open) and those that may have     *)
(* been written (shut) since the last barrier, who owns a cell meanwhile,    *)
(* whether reg is the same for all threads (live), how far the reports of    *)
(* the system are (rep), and the sums that are known (has).                  *)

Owner(k, c) == IF c \in DOMAIN k.owner THEN k.owner[c] ELSE c[2]

Grows(k, m, reads, writes) ==
    /\ k.open \cup reads \subseteq m.open
    /\ k.shut \cup writes \subseteq m.shut
    /\ m.open \cap m.shut = {}
    /\ m.owner = k.owner

\* m says no more of the sums than k.
Keeps(k, m) == \A c \in DOMAIN m.has : c \in DOMAIN k.has /\ m.has[c] = k.has[c]

\* A statement that touches no sum and leaves reg alone.
Quiet(k, m, reads, writes) == Grows(k, m, reads, writes) /\ Keeps(k, m) /\ (m.live => k.live)

Plain == {"none", "before", "after"}
Same(k, m) == m.rep = k.rep
SamePlain(k, m) == m.rep = k.rep /\ k.rep \in Plain

Own(m, arrs, t) == \A a \in arrs : Owner(m, <<a, t>>) = t

Hop(k, l, L) == l \in DOMAIN L /\ Quiet(k, L[l], {}, {})

\* What t stores by e is known afterwards.
Stored(e, k, m, size) ==
    IF e.from = {} THEN m.has[e.to] = e.bag
    ELSE /\ e.from \subseteq DOMAIN k.has
         /\ m.has[e.to] = k.has[e.left] (+) Twisted(k.has[e.right], e.twist, size)

SumFlow(s, k, m, q) ==
    /\ Grows(k, m, {}, {}) /\ SamePlain(k, m) /\ (m.live => k.live)
    /\ s.vals # {} => <<"sdata", 0>> \in m.shut /\ Owner(m, <<"sdata", 0>>) = 0
    /\ \A t \in Ids(q.n) :
           /\ Own(m, s.own, t)
           /\ \A e \in s.d[t] :
                  /\ Owner(m, e.to) = t /\ e.to \in m.shut
                  /\ e.from # {} => e.from = {e.left, e.right}
                  /\ \A c \in e.from : c \in m.open \/ Owner(m, c) = t
                  /\ \A f \in s.d[t] : f.to = e.to => f = e
    /\ \A c \in DOMAIN m.has :
           \/ \E t \in Ids(q.n) : \E e \in s.d[t] : e.to = c /\ Stored(e, k, m, q.powers)
           \/ /\ c \in DOMAIN k.has /\ m.has[c] = k.has[c]
              /\ \A t \in Ids(q.n) : \A e \in s.d[t] : e.to # c

\* Thread 0 reads words and writes cells.
Alone(m, words, cells) ==
    /\ \A w \in words : Owner(m, <<w, 0>>) = 0
    /\ \A c \in cells : Owner(m, c) = 0 /\ c \in m.shut

BarFlow(k, m, q) ==
    /\ m.open \cap m.shut = {}
    /\ Keeps(k, m) /\ (m.live => k.live) /\ Same(k, m)
    /\ \A c \in DOMAIN m.has : Owner(k, c) \in Ids(q.n)

\* The branch that asks whether thread 0 has reported.
BranchFlow(s, k, m, L) ==
    /\ k.live /\ Hop(k, s.to, L) /\ Quiet(k, m, {}, {})
    /\ \/ SamePlain(k, L[s.to]) /\ SamePlain(k, m)
       \/ k.rep = "reg" /\ s.on = {2} /\ L[s.to].rep = "after" /\ m.rep = "before"

AgainFlow(s, k, L) ==
    /\ s.counter \in Counters /\ Hop(k, s.to, L)
    /\ IF s.counter = "sys" THEN k.rep = "after" /\ L[s.to].rep = "before"
       ELSE SamePlain(k, L[s.to])

StartFlow(s, k, m) ==
    /\ s.counter \in Counters /\ Quiet(k, m, {}, {})
    /\ IF s.counter = "sys" THEN k.rep = "none" /\ m.rep = "before" ELSE SamePlain(k, m)

PublishFlow(s, k, m, q) ==
    /\ s.cell \in Words
    /\ Grows(k, m, s.all \X Ids(q.n), {}) /\ Keeps(k, m) /\ ~m.live
    /\ Alone(m, s.words, Word(s.cell))
    /\ \/ SamePlain(k, m)
       \/ k.rep = "before" /\ m.rep = "decided" /\ s.cell = "status" /\ s.vals \subseteq {0, 2}

ReadFlow(s, k, m) ==
    /\ s.cell \in Words
    /\ Grows(k, m, Word(s.cell), {}) /\ Keeps(k, m)
    /\ \/ SamePlain(k, m)
       \/ k.rep = "status" /\ m.rep = "reg" /\ s.cell = "status"

CompareFlow(s, k, m) ==
    /\ {s.left, s.right} \subseteq Words
    /\ Grows(k, m, Word(s.left) \cup Word(s.right), {}) /\ Keeps(k, m)
    /\ SamePlain(k, m)

ReportFlow(s, k, m) ==
    /\ Quiet(k, m, {}, {}) /\ Alone(m, s.words, {})
    /\ \/ k.rep = "before" /\ s.off = {} /\ m.rep = "after"
       \/ k.rep = "decided" /\ s.off = {0} /\ m.rep = "status"

ResultFlow(s, k, m, q) ==
    /\ Quiet(k, m, {}, {}) /\ Same(k, m)
    /\ \A t \in Ids(q.n) : \A c \in s.cells[t] :
           c \in m.open /\ c \in DOMAIN k.has /\ k.has[c] = q.want[c]

DoFlow(s, k, m, q) ==
    /\ Quiet(k, m, s.all \X Ids(q.n), s.w \X Ids(q.n)) /\ Same(k, m)
    /\ \A t \in Ids(q.n) : Own(m, s.own \cup s.w, t)

\* From k the statement s of kernel q leads to m, or by a jump to label l and
\* then to L[l].
Flow(s, k, m, L, q) ==
    \/ s.op = "bar" /\ BarFlow(k, m, q)
    \/ s.op = "label" /\ s.name \in DOMAIN L /\ k = L[s.name] /\ Quiet(k, m, {}, {}) /\ SamePlain(k, m)
    \/ s.op = "goto" /\ Hop(k, s.to, L) /\ SamePlain(k, L[s.to])
    \/ s.op = "branch" /\ BranchFlow(s, k, m, L)
    \/ s.op = "start" /\ StartFlow(s, k, m)
    \/ /\ s.op = "while" /\ s.counter \in Counters
       /\ Hop(k, s.to, L) /\ SamePlain(k, L[s.to]) /\ Quiet(k, m, {}, {}) /\ SamePlain(k, m)
    \/ s.op = "again" /\ AgainFlow(s, k, L)
    \/ s.op = "do" /\ DoFlow(s, k, m, q)
    \/ s.op = "sum" /\ SumFlow(s, k, m, q)
    \/ s.op = "result" /\ ResultFlow(s, k, m, q)
    \/ s.op = "publish" /\ PublishFlow(s, k, m, q)
    \/ s.op = "read" /\ ReadFlow(s, k, m)
    \/ s.op = "compare" /\ CompareFlow(s, k, m)
    \/ s.op = "report" /\ ReportFlow(s, k, m)
    \/ /\ s.op = "raise" /\ Quiet(k, m, {}, {}) /\ SamePlain(k, m)
       /\ Alone(m, {}, Word("lambda"))
    \/ /\ s.op = "accept" /\ Quiet(k, m, {}, {}) /\ SamePlain(k, m)
       /\ Alone(m, {"fn_try2"}, Word("lambda") \cup Word("fnorm2"))

Flows(s, K, L, q) == \A i \in 1 .. Len(s) : Flow(s[i], K[i], K[i + 1], L, q)

Defines(s, l) == \E i \in DOMAIN s : s[i].op = "label" /\ s[i].name = l

\* Nothing is known at the start of a kernel.
Fresh(k) == k.open \cap k.shut = {} /\ k.rep = "none" /\ DOMAIN k.has = {}

Certificate(q, K, L) ==
    /\ q.n \in Nat \ {0}
    /\ \E S : q.body \in Seq(S)
    /\ Fresh(K[1]) /\ Flows(q.body, K, L, q)
    /\ \A l \in DOMAIN L : Defines(q.body, l)

Certified == \A q \in Kernels : \E K, L : Certificate(q, K, L)

-----------------------------------------------------------------------------
(* The inductive invariant.  Between two barriers the control of a thread    *)
(* passes the states P[0], P[1], ... that follow from one another and from   *)
(* the words V as they were at the last barrier.                             *)

NextAt(x) ==
    LET s == Body[x.at] IN
    IF \/ s.op \in {"goto", "again"}
       \/ s.op = "branch" /\ x.reg \in s.on
       \/ s.op = "while" /\ ~(x.count[s.counter] < s.max)
    THEN LabelAt(s.to) ELSE x.at + 1

NextReg(x, V) ==
    LET s == Body[x.at] IN
    IF s.op = "read" THEN V[s.cell]
    ELSE IF s.op = "compare" THEN (IF V[s.left] < V[s.right] THEN 1 ELSE 0)
    ELSE x.reg

NextCount(x) ==
    LET s == Body[x.at] IN
    IF s.op = "start" THEN [x.count EXCEPT ![s.counter] = 0]
    ELSE IF s.op = "again" THEN [x.count EXCEPT ![s.counter] = @ + 1]
    ELSE x.count

Succ(x, V) == [at |-> NextAt(x), reg |-> NextReg(x, V), count |-> NextCount(x)]

Agrees(t, x, K) == pc[t] = x.at /\ count[t] = x.count /\ (K[x.at].live => reg[t] = x.reg)

OnPath(m, P, V, K) ==
    /\ \A i \in 0 .. m :
           /\ P[i].at \in 1 .. Len(Body) + 1
           /\ K[P[i].at].open \subseteq K[P[m].at].open
           /\ K[P[i].at].shut \subseteq K[P[m].at].shut
           /\ K[P[i].at].owner = K[P[m].at].owner
    /\ \A i \in 0 .. m - 1 :
           /\ P[i].at <= Len(Body) /\ Body[P[i].at].op # "bar"
           /\ P[i + 1] = Succ(P[i], V)
    /\ K[P[m].at].open \cap K[P[m].at].shut = {}

ThreadsOn(m, P, K) == \A t \in Threads : \E i \in 0 .. m : Agrees(t, P[i], K)

\* What was accessed is open or belongs to the thread, what was written both
\* belongs to it and is shut.
LogOK(k) ==
    \A a \in log :
        IF a.write THEN a.cell \in k.shut /\ Owner(k, a.cell) = a.by
        ELSE a.cell \in k.open \/ Owner(k, a.cell) = a.by

\* Words and sums that are not shut have not changed since the barrier.
ValOK(V, k) == \A c \in Words : <<c, 0>> \notin k.shut => val[c] = V[c]
SumOK(m, P, K) ==
    \A i \in 0 .. m : \A c \in DOMAIN K[P[i].at].has :
        c \notin K[P[m].at].shut => SumIn(c) = K[P[i].at].has[c]

Walk(m, P, V, K) ==
    OnPath(m, P, V, K) /\ ThreadsOn(m, P, K) /\ LogOK(K[P[m].at]) /\ ValOK(V, K[P[m].at]) /\ SumOK(m, P, K)

Lockstep(K) == \E m \in Nat : \E P, V : Walk(m, P, V, K)

OwnSums(K) ==
    \A t \in Threads : \A c \in DOMAIN K[pc[t]].has :
        Owner(K[pc[t]], c) = t => SumIn(c) = K[pc[t]].has[c]

Reported(sys, n) ==
    \A s \in Ids(Systems) : reports[s] = IF s < sys THEN 1 ELSE IF s = sys THEN n ELSE 0

RepOK(K) ==
    LET rep == K[pc[0]].rep
        sys == count[0].sys IN
    /\ Reported(sys, 0) \/ Reported(sys, 1)
    /\ rep = "none" => sys = 0 /\ Reported(sys, 0)
    /\ rep \in {"before", "decided"} => Reported(sys, 0)
    /\ rep = "after" => Reported(sys, 1)
    /\ rep = "decided" => reg[0] = val["status"] /\ val["status"] \in {0, 2}
    /\ rep = "status" => Reported(sys, IF val["status"] = 2 THEN 1 ELSE 0)
    /\ rep = "reg" => Reported(sys, IF reg[0] = 2 THEN 1 ELSE 0)

TypeOK ==
    /\ kernel \in Kernels
    /\ pc \in [Threads -> Nat]
    /\ reg = [t \in Threads |-> reg[t]]
    /\ count \in [Threads -> [Counters -> Nat]]
    /\ val = [c \in Words |-> val[c]]
    /\ reports = [s \in Ids(Systems) |-> reports[s]]

IInv == TypeOK /\ \E K, L : Certificate(kernel, K, L) /\ Lockstep(K) /\ OwnSums(K) /\ RepOK(K)

-----------------------------------------------------------------------------
(* The edges of a certificate.                                               *)

Edge(k, n) ==
    /\ k.open \subseteq n.open /\ k.shut \subseteq n.shut /\ n.owner = k.owner
    /\ n.open \cap n.shut = {}
    /\ \A c \in DOMAIN n.has : c \notin n.shut => c \in DOMAIN k.has /\ n.has[c] = k.has[c]

\* A label is found, and what is known there is what the jumps to it say.
LEMMA LabelFacts ==
    ASSUME NEW K, NEW L, Certificate(kernel, K, L), NEW l \in DOMAIN L
    PROVE  LabelAt(l) \in 1 .. Len(Body) /\ K[LabelAt(l)] = L[l]
<1>1. PICK S : Body \in Seq(S)
      BY DEF Certificate, Body
<1>2. DOMAIN Body = 1 .. Len(Body)
      BY <1>1
<1>3. \E i \in DOMAIN Body : Body[i].op = "label" /\ Body[i].name = l
      BY DEF Certificate, Defines, Body
<1> DEFINE i == LabelAt(l)
<1>4. i \in DOMAIN Body /\ Body[i].op = "label" /\ Body[i].name = l
      BY <1>3 DEF LabelAt
<1> HIDE DEF i
<1>5. Flow(Body[i], K[i], K[i + 1], L, kernel)
      BY <1>2, <1>4 DEF Certificate, Flows, Body
<1>6. K[i] = L[l]
      BY <1>4, <1>5 DEF Flow
<1> QED BY <1>2, <1>4, <1>6 DEF i

\* A statement that keeps the sums makes an edge.
LEMMA QuietEdge ==
    ASSUME NEW k, NEW m, NEW r, NEW w, Grows(k, m, r, w), Keeps(k, m)
    PROVE  Edge(k, m)
BY DEF Grows, Keeps, Edge

\* So does a step of a sum: what is stored is shut.
LEMMA SumEdge ==
    ASSUME NEW s, NEW k, NEW m, NEW q, SumFlow(s, k, m, q)
    PROVE  Edge(k, m)
<1>1. Grows(k, m, {}, {})
      BY DEF SumFlow
<1>2. ASSUME NEW c \in DOMAIN m.has, c \notin m.shut
      PROVE  c \in DOMAIN k.has /\ m.has[c] = k.has[c]
  <2>1. ~ \E t \in Ids(q.n) : \E e \in s.d[t] : e.to = c
        BY <1>2 DEF SumFlow
  <2> QED BY <2>1 DEF SumFlow
<1> QED BY <1>1, <1>2 DEF Edge, Grows

\* Every step but a barrier follows an edge.
LEMMA SuccEdge ==
    ASSUME NEW K, NEW L, Certificate(kernel, K, L), NEW V, NEW x,
           x.at \in 1 .. Len(Body), Body[x.at].op # "bar"
    PROVE  NextAt(x) \in 1 .. Len(Body) + 1 /\ Edge(K[x.at], K[NextAt(x)])
<1> DEFINE s == Body[x.at]
           k == K[x.at]
           m == K[x.at + 1]
<1>1. Len(Body) \in Nat
  <2>1. PICK S : Body \in Seq(S)
        BY DEF Certificate, Body
  <2> QED BY <2>1
<1>2. Flow(s, k, m, L, kernel)
      BY DEF Certificate, Flows, Body
<1>3. x.at + 1 \in 1 .. Len(Body) + 1
      BY <1>1
<1>4. ASSUME Hop(k, s.to, L)
      PROVE  LabelAt(s.to) \in 1 .. Len(Body) + 1 /\ Edge(k, K[LabelAt(s.to)])
  <2>1. LabelAt(s.to) \in 1 .. Len(Body) /\ K[LabelAt(s.to)] = L[s.to]
        BY <1>4, LabelFacts DEF Hop
  <2>2. Edge(k, L[s.to])
        BY <1>4, QuietEdge DEF Hop, Quiet
  <2> QED BY <1>1, <2>1, <2>2
<1> HIDE DEF s, k, m
<1>5. CASE NextAt(x) = x.at + 1 /\ s.op \notin {"goto", "again"}
  <2>1. Edge(k, m)
    <3>1. CASE s.op = "sum"
          BY <1>2, <3>1, SumEdge DEF Flow
    <3>2. CASE s.op # "sum"
      <4>1. \E r, w : Grows(k, m, r, w) /\ Keeps(k, m)
        <5>1. s.op \in {"label", "branch", "start", "while", "do", "result", "report", "raise", "accept",
                        "publish", "read", "compare"}
              BY <1>2, <1>5, <3>2 DEF Flow, s
        <5>2. CASE s.op \in {"label", "branch", "start", "while", "result", "report", "raise", "accept"}
              BY <1>2, <5>2 DEF Flow, Quiet, BranchFlow, StartFlow, ResultFlow, ReportFlow
        <5>3. CASE s.op = "do"
              BY <1>2, <5>3 DEF Flow, Quiet, DoFlow
        <5>4. CASE s.op \in {"publish", "read", "compare"}
              BY <1>2, <5>4 DEF Flow, PublishFlow, ReadFlow, CompareFlow
        <5> QED BY <5>1, <5>2, <5>3, <5>4
      <4> QED BY <4>1, QuietEdge
    <3> QED BY <3>1, <3>2
  <2> QED BY <1>3, <1>5, <2>1 DEF m, k
<1>6. CASE ~(NextAt(x) = x.at + 1 /\ s.op \notin {"goto", "again"})
  <2>1. NextAt(x) = LabelAt(s.to) /\ s.op \in {"goto", "again", "branch", "while"}
        BY <1>6 DEF NextAt, s
  <2>2. Hop(k, s.to, L)
        BY <1>2, <2>1 DEF Flow, AgainFlow, BranchFlow
  <2> QED BY <1>4, <2>1, <2>2 DEF k
<1> QED BY <1>5, <1>6

\* A walk goes on until it comes to a barrier.
LEMMA WalkOn ==
    ASSUME NEW K, NEW L, Certificate(kernel, K, L), NEW m \in Nat, NEW P, NEW V, Walk(m, P, V, K),
           P[m].at <= Len(Body), Body[P[m].at].op # "bar"
    PROVE  \E R : Walk(m + 1, R, V, K) /\ \A i \in 0 .. m : R[i] = P[i]
<1> DEFINE R == [i \in 0 .. m + 1 |-> IF i <= m THEN P[i] ELSE Succ(P[m], V)]
           k == K[P[m].at]
           n == K[R[m + 1].at]
<1>1. /\ \A i \in 0 .. m : R[i] = P[i]
      /\ R[m + 1] = Succ(P[m], V) /\ R[m + 1].at = NextAt(P[m])
      BY DEF Succ
<1>2. /\ Len(Body) \in Nat /\ P[m].at \in 1 .. Len(Body)
  <2>1. PICK S : Body \in Seq(S)
        BY DEF Certificate, Body
  <2>2. Len(Body) \in Nat
        BY <2>1
  <2>3. m \in 0 .. m
        OBVIOUS
  <2> QED BY <2>2, <2>3 DEF Walk, OnPath
<1>3. R[m + 1].at \in 1 .. Len(Body) + 1 /\ Edge(k, n)
      BY <1>1, <1>2, SuccEdge
<1> HIDE DEF R
<1>4. OnPath(m + 1, R, V, K)
  <2>1. ASSUME NEW i \in 0 .. m + 1
        PROVE  /\ R[i].at \in 1 .. Len(Body) + 1
               /\ K[R[i].at].open \subseteq n.open
               /\ K[R[i].at].shut \subseteq n.shut
               /\ K[R[i].at].owner = n.owner
    <3>1. CASE i = m + 1
          BY <1>3, <3>1
    <3>2. CASE i # m + 1
      <4>1. i \in 0 .. m /\ R[i] = P[i]
            BY <1>1, <3>2
      <4> QED BY <1>3, <4>1 DEF Walk, OnPath, Edge
    <3> QED BY <3>1, <3>2
  <2>2. ASSUME NEW i \in 0 .. (m + 1) - 1
        PROVE  /\ R[i].at <= Len(Body) /\ Body[R[i].at].op # "bar"
               /\ R[i + 1] = Succ(R[i], V)
    <3>1. CASE i = m
          BY <1>1, <3>1
    <3>2. CASE i # m
      <4>1. i \in 0 .. m - 1 /\ R[i] = P[i] /\ R[i + 1] = P[i + 1]
            BY <1>1, <3>2
      <4> QED BY <4>1 DEF Walk, OnPath
    <3> QED BY <3>1, <3>2
  <2> QED BY <1>3, <2>1, <2>2 DEF OnPath, Edge
<1>5. ThreadsOn(m + 1, R, K)
  <2>1. \A t \in Threads : \E i \in 0 .. m : Agrees(t, P[i], K)
        BY DEF Walk, ThreadsOn
  <2>2. 0 .. m \subseteq 0 .. m + 1
        OBVIOUS
  <2> QED BY <1>1, <2>1, <2>2 DEF ThreadsOn
<1>6. LogOK(n)
  <2>1. \A c : Owner(n, c) = Owner(k, c)
        BY <1>3 DEF Edge, Owner
  <2>2. LogOK(k)
        BY DEF Walk
  <2> QED BY <1>3, <2>1, <2>2 DEF LogOK, Edge
<1>7. ValOK(V, n)
  <2>1. ValOK(V, k)
        BY DEF Walk
  <2> QED BY <1>3, <2>1 DEF ValOK, Edge
<1>8. SumOK(m + 1, R, K)
  <2>1. SumOK(m, P, K)
        BY DEF Walk
  <2>2. ASSUME NEW i \in 0 .. m + 1, NEW c \in DOMAIN K[R[i].at].has, c \notin n.shut
        PROVE  SumIn(c) = K[R[i].at].has[c]
    <3>1. c \notin k.shut
          BY <1>3, <2>2 DEF Edge
    <3>2. CASE i = m + 1
      <4>1. c \in DOMAIN k.has /\ n.has[c] = k.has[c]
            BY <1>3, <2>2, <3>2 DEF Edge
      <4>2. SumIn(c) = k.has[c]
            BY <2>1, <3>1, <4>1 DEF SumOK
      <4> QED BY <3>2, <4>1, <4>2
    <3>3. CASE i # m + 1
      <4>1. i \in 0 .. m /\ R[i] = P[i]
            BY <1>1, <3>3
      <4> QED BY <2>1, <2>2, <3>1, <4>1 DEF SumOK
    <3> QED BY <3>2, <3>3
  <2> QED BY <2>2 DEF SumOK
<1>9. Walk(m + 1, R, V, K)
      BY <1>4, <1>5, <1>6, <1>7, <1>8 DEF Walk
<1> QED BY <1>1, <1>9

-----------------------------------------------------------------------------
(* A step of one thread.                                                     *)

\* What t's step from control state x does to the shared state; n is what is
\* known where it leads.
Accessed(t, n) ==
    \A a \in log' : a \in log \/ /\ a.by = t
                                 /\ IF a.write THEN a.cell \in n.shut /\ Owner(n, a.cell) = t
                                    ELSE a.cell \in n.open \/ Owner(n, a.cell) = t

SumsKept(t, n) == \A c : SumIn(c)' = SumIn(c) \/ (c \in n.shut /\ Owner(n, c) = t)
SumsOwn(t, n) == \A c \in DOMAIN n.has : Owner(n, c) = t => SumIn(c)' = n.has[c]

Moved(t, x, V, K) ==
    LET n == K[NextAt(x)] IN
    /\ kernel' = kernel
    /\ pc' = [pc EXCEPT ![t] = NextAt(x)]
    /\ count' = [count EXCEPT ![t] = NextCount(x)]
    /\ \E r : reg' = [reg EXCEPT ![t] = r] /\ (n.live => r = NextReg(x, V))
    /\ Accessed(t, n)
    /\ \A c \in Words : <<c, 0>> \notin n.shut => val'[c] = val[c]
    /\ SumsKept(t, n)
    /\ SumsOwn(t, n)

\* A thread behind another follows in its steps.
LEMMA MovedWalk ==
    ASSUME TypeOK, NEW K, NEW m \in Nat, NEW P, NEW V, Walk(m, P, V, K),
           NEW t \in Threads, NEW i \in 0 .. m - 1, Agrees(t, P[i], K), Moved(t, P[i], V, K)
    PROVE  Walk(m, P, V, K)'
<1> DEFINE n == K[P[i + 1].at]
           k == K[P[m].at]
<1>1. Body' = Body /\ Threads' = Threads
      BY DEF Moved, Body, Threads
<1>2. P[i + 1] = Succ(P[i], V) /\ P[i + 1].at = NextAt(P[i])
      BY DEF Walk, OnPath, Succ
<1>3. i + 1 \in 0 .. m
      OBVIOUS
<1>4. n.open \subseteq k.open /\ n.shut \subseteq k.shut /\ n.owner = k.owner
      BY <1>3 DEF Walk, OnPath
<1>5. \A c : Owner(n, c) = Owner(k, c)
      BY <1>4 DEF Owner
<1> HIDE DEF n, k
<1>6. OnPath(m, P, V, K)'
  <2>1. OnPath(m, P, V, K)
        BY DEF Walk
  <2>2. \A x : Succ(x, V)' = Succ(x, V)
        BY <1>1 DEF Succ, NextAt, NextReg, NextCount, LabelAt
  <2> QED BY <1>1, <2>1, <2>2 DEF OnPath
<1>7. ThreadsOn(m, P, K)'
  <2>1. PICK r : reg' = [reg EXCEPT ![t] = r] /\ (n.live => r = NextReg(P[i], V))
        BY <1>2 DEF Moved, n
  <2>2. /\ pc' = [pc EXCEPT ![t] = P[i + 1].at]
        /\ count' = [count EXCEPT ![t] = P[i + 1].count]
        BY <1>2 DEF Moved, Succ
  <2>3. P[i + 1].reg = NextReg(P[i], V)
        BY <1>2 DEF Succ
  <2>4. Agrees(t, P[i + 1], K)'
        BY <2>1, <2>2, <2>3 DEF Agrees, TypeOK, n
  <2>5. ASSUME NEW u \in Threads, u # t PROVE \E j \in 0 .. m : Agrees(u, P[j], K)'
    <3>1. PICK j \in 0 .. m : Agrees(u, P[j], K)
          BY DEF Walk, ThreadsOn
    <3>2. pc'[u] = pc[u] /\ count'[u] = count[u] /\ reg'[u] = reg[u]
          BY <2>1, <2>2, <2>5 DEF TypeOK
    <3> QED BY <3>1, <3>2 DEF Agrees
  <2> QED BY <1>1, <1>3, <2>4, <2>5 DEF ThreadsOn
<1>8. LogOK(k)'
  <2>1. LogOK(k)
        BY DEF Walk, k
  <2>2. Accessed(t, n)
        BY <1>2 DEF Moved, n
  <2>3. ASSUME NEW a \in log'
        PROVE  IF a.write THEN a.cell \in k.shut /\ Owner(k, a.cell) = a.by
               ELSE a.cell \in k.open \/ Owner(k, a.cell) = a.by
    <3>1. CASE a \in log
          BY <2>1, <3>1 DEF LogOK
    <3>2. CASE a \notin log
          BY <1>4, <1>5, <2>2, <3>2 DEF Accessed
    <3> QED BY <3>1, <3>2
  <2> QED BY <2>3 DEF LogOK
<1>9. ValOK(V, k)'
  <2>1. ValOK(V, k)
        BY DEF Walk, k
  <2>2. \A c \in Words : <<c, 0>> \notin n.shut => val'[c] = val[c]
        BY <1>2 DEF Moved, n
  <2> QED BY <1>4, <2>1, <2>2 DEF ValOK
<1>10. SumOK(m, P, K)'
  <2>1. SumOK(m, P, K)
        BY DEF Walk
  <2>2. SumsKept(t, n)
        BY <1>2 DEF Moved, n
  <2> QED BY <1>4, <2>1, <2>2 DEF SumOK, SumsKept, k
<1> QED BY <1>6, <1>7, <1>8, <1>9, <1>10 DEF Walk, k

\* The other threads' own sums stay, and the thread's are as the certificate says.
LEMMA MovedOwn ==
    ASSUME TypeOK, NEW K, NEW m \in Nat, NEW P, NEW V, Walk(m, P, V, K), OwnSums(K),
           NEW t \in Threads, NEW i \in 0 .. m - 1, Agrees(t, P[i], K), Moved(t, P[i], V, K)
    PROVE  OwnSums(K)'
<1> DEFINE n == K[P[i + 1].at]
<1>1. Threads' = Threads
      BY DEF Moved, Threads
<1>2. P[i + 1].at = NextAt(P[i])
  <2>1. P[i + 1] = Succ(P[i], V)
        BY DEF Walk, OnPath
  <2> QED BY <2>1 DEF Succ
<1>3. i + 1 \in 0 .. m
      OBVIOUS
<1>4. pc' = [pc EXCEPT ![t] = P[i + 1].at]
      BY <1>2 DEF Moved
<1>5. SumsKept(t, n) /\ SumsOwn(t, n)
      BY <1>2 DEF Moved
<1>6. ASSUME NEW u \in Threads, NEW c \in DOMAIN K[pc'[u]].has, Owner(K[pc'[u]], c) = u
      PROVE  SumIn(c)' = K[pc'[u]].has[c]
  <2>1. CASE u = t
    <3>1. K[pc'[u]] = n
          BY <1>4, <2>1 DEF TypeOK
    <3> QED BY <1>5, <1>6, <2>1, <3>1 DEF SumsOwn
  <2>2. CASE u # t
    <3>1. pc'[u] = pc[u]
          BY <1>4, <2>2 DEF TypeOK
    <3>2. SumIn(c) = K[pc[u]].has[c]
          BY <1>6, <3>1 DEF OwnSums
    <3>3. PICK j \in 0 .. m : pc[u] = P[j].at
          BY DEF Walk, ThreadsOn, Agrees
    <3>4. K[pc[u]].owner = n.owner
          BY <1>3, <3>3 DEF Walk, OnPath
    <3>5. Owner(n, c) = u
          BY <1>6, <3>1, <3>4 DEF Owner
    <3> QED BY <1>5, <2>2, <3>1, <3>2, <3>5 DEF SumsKept
  <2> QED BY <2>1, <2>2
<1> QED BY <1>1, <1>6 DEF OwnSums

\* What a thread finds that is behind another: the statement and what is known
\* of it, and, of what it may read, the words as they were at the barrier and
\* the sums as the certificate has them.
Behind(t, x, V, K, L) ==
    LET k == K[pc[t]]
        n == K[NextAt(x)] IN
    /\ pc[t] = x.at /\ pc[t] \in 1 .. Len(Body) /\ Len(Body) \in Nat
    /\ count[t] = x.count /\ (k.live => reg[t] = x.reg)
    /\ Flow(Body[pc[t]], k, K[pc[t] + 1], L, kernel)
    /\ n.owner = k.owner
    /\ \A c \in Words : <<c, 0>> \in n.open => val[c] = V[c]
    /\ \A c \in DOMAIN k.has : c \in n.open \/ Owner(k, c) = t => SumIn(c) = k.has[c]

\* A thread that is not last on the path is behind its last state.
LEMMA IsBehind ==
    ASSUME NEW K, NEW L, Certificate(kernel, K, L), NEW m \in Nat, NEW P, NEW V, Walk(m, P, V, K),
           OwnSums(K), NEW t \in Threads, NEW i \in 0 .. m - 1, Agrees(t, P[i], K)
    PROVE  Behind(t, P[i], V, K, L)
<1> DEFINE n == K[NextAt(P[i])]
           k == K[pc[t]]
           e == K[P[m].at]
<1>1. i \in 0 .. m /\ i + 1 \in 0 .. m
      OBVIOUS
<1>2. Len(Body) \in Nat
  <2>1. PICK S : Body \in Seq(S)
        BY DEF Certificate, Body
  <2> QED BY <2>1
<1>3. pc[t] = P[i].at /\ count[t] = P[i].count /\ (k.live => reg[t] = P[i].reg)
      BY DEF Agrees
<1>4. pc[t] \in 1 .. Len(Body)
      BY <1>1, <1>2, <1>3 DEF Walk, OnPath
<1>5. Flow(Body[pc[t]], k, K[pc[t] + 1], L, kernel)
      BY <1>4 DEF Certificate, Flows, Body
<1>6. P[i + 1].at = NextAt(P[i])
  <2>1. P[i + 1] = Succ(P[i], V)
        BY DEF Walk, OnPath
  <2> QED BY <2>1 DEF Succ
<1>7. n.open \subseteq e.open /\ n.shut \subseteq e.shut /\ n.owner = e.owner /\ k.owner = e.owner
      BY <1>1, <1>3, <1>6 DEF Walk, OnPath
<1>8. e.open \cap e.shut = {}
      BY DEF Walk, OnPath
<1>9. \A c \in Words : <<c, 0>> \in n.open => val[c] = V[c]
      BY <1>7, <1>8 DEF Walk, ValOK
<1>10. ASSUME NEW c \in DOMAIN k.has, c \in n.open \/ Owner(k, c) = t
       PROVE  SumIn(c) = k.has[c]
  <2>1. CASE Owner(k, c) = t
        BY <2>1 DEF OwnSums
  <2>2. CASE c \in n.open
    <3>1. c \notin e.shut
          BY <1>7, <1>8, <2>2
    <3>2. SumOK(m, P, K)
          BY DEF Walk
    <3> QED BY <1>1, <1>3, <3>1, <3>2 DEF SumOK
  <2> QED BY <1>10, <2>1, <2>2
<1> HIDE DEF n, k, e
<1>11. n.owner = k.owner
      BY <1>7
<1> QED BY <1>2, <1>3, <1>4, <1>5, <1>9, <1>10, <1>11 DEF Behind, n, k

\* A step that stores no sum.
LEMMA SumsStill ==
    ASSUME NEW t, NEW x, NEW V, NEW K, NEW L, Behind(t, x, V, K, L), sum' = sum,
           Keeps(K[pc[t]], K[NextAt(x)])
    PROVE  SumsKept(t, K[NextAt(x)]) /\ SumsOwn(t, K[NextAt(x)])
<1> DEFINE n == K[NextAt(x)]
           k == K[pc[t]]
<1>1. \A c : SumIn(c)' = SumIn(c)
      BY DEF SumIn
<1>2. ASSUME NEW c \in DOMAIN n.has, Owner(n, c) = t PROVE SumIn(c) = n.has[c]
  <2>1. c \in DOMAIN k.has /\ n.has[c] = k.has[c]
        BY DEF Keeps
  <2>2. Owner(k, c) = t
        BY <1>2 DEF Behind, Owner
  <2> QED BY <2>1, <2>2 DEF Behind
<1> QED BY <1>1, <1>2 DEF SumsKept, SumsOwn

\* Jumps.
LEMMA JumpsMove ==
    ASSUME TypeOK, NEW K, NEW L, Certificate(kernel, K, L), NEW V, NEW x, NEW t \in Threads,
           Behind(t, x, V, K, L), Jumps(t)
    PROVE  Moved(t, x, V, K)
<1> DEFINE s == Body[pc[t]]
           k == K[pc[t]]
           m == K[pc[t] + 1]
           n == K[NextAt(x)]
<1>1. /\ pc[t] = x.at /\ count[t] = x.count /\ (k.live => reg[t] = x.reg)
      /\ Flow(s, k, m, L, kernel)
      BY DEF Behind
<1>2. s.op \in {"label", "goto", "branch", "start", "while", "again"}
      BY DEF Jumps
<1>3. UNCHANGED <<kernel, reg, val, sum, log>>
      BY DEF Jumps
<1>4. Len(Body) \in Nat /\ x.at \in 1 .. Len(Body)
      BY DEF Behind
<1>5. Quiet(k, n, {}, {})
  <2>1. CASE NextAt(x) = x.at + 1 /\ s.op \notin {"goto", "again"}
    <3>1. n = m
          BY <1>1, <2>1
    <3> QED BY <1>1, <1>2, <2>1, <3>1 DEF Flow, BranchFlow, StartFlow
  <2>2. CASE ~(NextAt(x) = x.at + 1 /\ s.op \notin {"goto", "again"})
    <3>1. NextAt(x) = LabelAt(s.to) /\ s.op \in {"goto", "again", "branch", "while"}
          BY <1>1, <1>2, <2>2 DEF NextAt
    <3>2. Hop(k, s.to, L)
          BY <1>1, <3>1 DEF Flow, AgainFlow, BranchFlow
    <3>3. n = L[s.to]
          BY <3>1, <3>2, LabelFacts DEF Hop
    <3> QED BY <3>2, <3>3 DEF Hop
  <2> QED BY <2>1, <2>2
<1>6. pc' = [pc EXCEPT ![t] = NextAt(x)] /\ count' = [count EXCEPT ![t] = NextCount(x)]
  <2>0. s = Body[x.at]
        BY <1>1
  <2>1. CASE s.op = "branch"
    <3>1. k.live
          BY <1>1, <2>1 DEF Flow, BranchFlow
    <3>2. pc' = [pc EXCEPT ![t] = NextAt(x)]
          BY <1>1, <2>0, <2>1, <3>1 DEF Jumps, NextAt, StepTo, Advance
    <3>3. count' = count /\ NextCount(x) = count[t]
          BY <1>1, <2>0, <2>1 DEF Jumps, NextCount
    <3> QED BY <3>2, <3>3 DEF TypeOK
  <2>2. CASE s.op \in {"label", "goto"}
    <3>2. pc' = [pc EXCEPT ![t] = NextAt(x)]
          BY <1>1, <2>0, <2>2 DEF Jumps, NextAt, StepTo, Advance
    <3>3. count' = count /\ NextCount(x) = count[t]
          BY <1>1, <2>0, <2>2 DEF Jumps, NextCount
    <3> QED BY <3>2, <3>3 DEF TypeOK
  <2>3. CASE s.op = "while"
    <3>2. pc' = [pc EXCEPT ![t] = NextAt(x)]
          BY <1>1, <2>0, <2>3 DEF Jumps, NextAt, StepTo, Advance
    <3>3. count' = count /\ NextCount(x) = count[t]
          BY <1>1, <2>0, <2>3 DEF Jumps, NextCount
    <3> QED BY <3>2, <3>3 DEF TypeOK
  <2>4. CASE s.op = "start"
    <3>2. pc' = [pc EXCEPT ![t] = NextAt(x)]
          BY <1>1, <2>0, <2>4 DEF Jumps, NextAt, StepTo, Advance
    <3>3. count' = [count EXCEPT ![t][s.counter] = 0]
          BY <2>4 DEF Jumps
    <3>4. NextCount(x) = [count[t] EXCEPT ![s.counter] = 0]
          BY <1>1, <2>0, <2>4 DEF NextCount
    <3> QED BY <3>2, <3>3, <3>4
  <2>5. CASE s.op = "again"
    <3>2. pc' = [pc EXCEPT ![t] = NextAt(x)]
          BY <1>1, <2>0, <2>5 DEF Jumps, NextAt, StepTo, Advance
    <3>3. count' = [count EXCEPT ![t][s.counter] = @ + 1]
          BY <2>5 DEF Jumps
    <3>4. NextCount(x) = [count[t] EXCEPT ![s.counter] = @ + 1]
          BY <1>1, <2>0, <2>5 DEF NextCount
    <3> QED BY <3>2, <3>3, <3>4
  <2> QED BY <1>2, <2>1, <2>2, <2>3, <2>4, <2>5
<1>7. \E r : reg' = [reg EXCEPT ![t] = r] /\ (n.live => r = NextReg(x, V))
  <2>1. NextReg(x, V) = x.reg
        BY <1>1, <1>2 DEF NextReg
  <2>2. reg' = [reg EXCEPT ![t] = reg[t]]
        BY <1>3 DEF TypeOK
  <2> QED BY <1>1, <1>5, <2>1, <2>2 DEF Quiet
<1>8. SumsKept(t, n) /\ SumsOwn(t, n)
      BY <1>3, <1>5, SumsStill DEF Quiet
<1> QED BY <1>3, <1>6, <1>7, <1>8 DEF Moved, Accessed

Straight == {"do", "sum", "result", "publish", "read", "compare", "report", "raise", "accept"}

\* Control after a statement that is no jump.
LEMMA GoesOn ==
    ASSUME TypeOK, NEW K, NEW L, NEW V, NEW x, NEW t \in Threads, Behind(t, x, V, K, L),
           Body[pc[t]].op \in Straight, Advance(t), count' = count
    PROVE  /\ NextAt(x) = pc[t] + 1
           /\ pc' = [pc EXCEPT ![t] = NextAt(x)]
           /\ count' = [count EXCEPT ![t] = NextCount(x)]
<1>1. pc[t] = x.at /\ count[t] = x.count
      BY DEF Behind
<1>2. NextAt(x) = pc[t] + 1
      BY <1>1 DEF NextAt, Straight
<1>3. NextCount(x) = count[t]
      BY <1>1 DEF NextCount, Straight
<1>4. pc' = [pc EXCEPT ![t] = NextAt(x)]
      BY <1>2 DEF Advance, StepTo
<1>5. count' = [count EXCEPT ![t] = NextCount(x)]
      BY <1>3 DEF TypeOK
<1> QED BY <1>2, <1>4, <1>5

\* What was read stays what was read.
LEMMA RegStill ==
    ASSUME TypeOK, NEW K, NEW L, NEW V, NEW x, NEW t \in Threads, Behind(t, x, V, K, L),
           Body[pc[t]].op \notin {"read", "compare"}, reg' = reg,
           K[NextAt(x)].live => K[pc[t]].live
    PROVE  \E r : reg' = [reg EXCEPT ![t] = r] /\ (K[NextAt(x)].live => r = NextReg(x, V))
<1>1. pc[t] = x.at /\ (K[pc[t]].live => reg[t] = x.reg)
      BY DEF Behind
<1>2. NextReg(x, V) = x.reg
      BY <1>1 DEF NextReg
<1>3. reg' = [reg EXCEPT ![t] = reg[t]]
      BY DEF TypeOK
<1> QED BY <1>1, <1>2, <1>3

\* A thread touches what it owns, or reads what is open.
LEMMA TouchIs ==
    ASSUME NEW t, NEW n, NEW R, NEW W, Touch(t, R, W),
           \A c \in R : c \in n.open \/ Owner(n, c) = t,
           \A c \in W : c \in n.shut /\ Owner(n, c) = t
    PROVE  Accessed(t, n)
<1>1. ASSUME NEW a \in log', a \notin log
      PROVE  /\ a.by = t
             /\ IF a.write THEN a.cell \in n.shut /\ Owner(n, a.cell) = t
                ELSE a.cell \in n.open \/ Owner(n, a.cell) = t
  <2>1. a \in [by : {t}, cell : R, write : {FALSE}] \/ a \in [by : {t}, cell : W, write : {TRUE}]
        BY <1>1 DEF Touch
  <2> QED BY <2>1
<1> QED BY <1>1 DEF Accessed

\* Element-wise work.
LEMMA DoesMove ==
    ASSUME TypeOK, NEW K, NEW L, NEW V, NEW x, NEW t \in Threads, Behind(t, x, V, K, L), Does(t)
    PROVE  Moved(t, x, V, K)
<1> DEFINE s == Body[pc[t]]
           k == K[pc[t]]
           n == K[NextAt(x)]
<1>1. s.op = "do"
      BY DEF Does, Op, Ended, Behind
<1>2. /\ NextAt(x) = pc[t] + 1
      /\ pc' = [pc EXCEPT ![t] = NextAt(x)]
      /\ count' = [count EXCEPT ![t] = NextCount(x)]
      BY <1>1, GoesOn DEF Does, Straight
<1>3. DoFlow(s, k, n, kernel)
      BY <1>1, <1>2 DEF Behind, Flow
<1>4. \E r : reg' = [reg EXCEPT ![t] = r] /\ (n.live => r = NextReg(x, V))
      BY <1>1, <1>3, RegStill DEF Does, DoFlow, Quiet
<1>5. SumsKept(t, n) /\ SumsOwn(t, n)
      BY <1>3, SumsStill DEF Does, DoFlow, Quiet
<1>6. Accessed(t, n)
  <2> DEFINE R == Mine(t, s.own) \cup Whole(s.all)
             W == Mine(t, s.w)
  <2>1. Touch(t, R, W)
        BY DEF Does
  <2>2. Own(n, s.own \cup s.w, t) /\ Whole(s.all) \subseteq n.open
        BY <1>3 DEF DoFlow, Quiet, Grows, Threads, Whole
  <2>3. \A c \in R : c \in n.open \/ Owner(n, c) = t
        BY <2>2 DEF Mine, Own
  <2>4. W \subseteq n.shut
        BY <1>3 DEF DoFlow, Quiet, Grows, Threads, Mine
  <2>5. \A c \in W : c \in n.shut /\ Owner(n, c) = t
        BY <2>2, <2>4 DEF Mine, Own
  <2> HIDE DEF R, W
  <2> QED BY <2>1, <2>3, <2>5, TouchIs
<1>7. kernel' = kernel /\ val' = val
      BY DEF Does
<1> QED BY <1>2, <1>4, <1>5, <1>6, <1>7 DEF Moved

\* The result of a sum is read.
LEMMA ResultsMove ==
    ASSUME TypeOK, NEW K, NEW L, NEW V, NEW x, NEW t \in Threads, Behind(t, x, V, K, L), Results(t)
    PROVE  Moved(t, x, V, K)
<1> DEFINE s == Body[pc[t]]
           k == K[pc[t]]
           n == K[NextAt(x)]
<1>1. s.op = "result"
      BY DEF Results, Op, Ended, Behind
<1>2. /\ NextAt(x) = pc[t] + 1
      /\ pc' = [pc EXCEPT ![t] = NextAt(x)]
      /\ count' = [count EXCEPT ![t] = NextCount(x)]
      BY <1>1, GoesOn DEF Results, Straight
<1>3. ResultFlow(s, k, n, kernel)
      BY <1>1, <1>2 DEF Behind, Flow
<1>4. \E r : reg' = [reg EXCEPT ![t] = r] /\ (n.live => r = NextReg(x, V))
      BY <1>1, <1>3, RegStill DEF Results, ResultFlow, Quiet
<1>5. SumsKept(t, n) /\ SumsOwn(t, n)
      BY <1>3, SumsStill DEF Results, ResultFlow, Quiet
<1>6. Accessed(t, n)
  <2>1. Touch(t, s.cells[t], {})
        BY DEF Results
  <2>2. \A c \in s.cells[t] : c \in n.open \/ Owner(n, c) = t
        BY <1>3 DEF ResultFlow, Threads
  <2> QED BY <2>1, <2>2, TouchIs
<1>7. kernel' = kernel /\ val' = val
      BY DEF Results
<1> QED BY <1>2, <1>4, <1>5, <1>6, <1>7 DEF Moved

\* Thread 0 decides.
LEMMA PublishesMove ==
    ASSUME TypeOK, NEW K, NEW L, NEW V, NEW x, NEW t \in Threads, Behind(t, x, V, K, L), Publishes(t)
    PROVE  Moved(t, x, V, K)
<1> DEFINE s == Body[pc[t]]
           k == K[pc[t]]
           n == K[NextAt(x)]
<1>1. s.op = "publish"
      BY DEF Publishes, Op, Ended, Behind
<1>2. /\ NextAt(x) = pc[t] + 1
      /\ pc' = [pc EXCEPT ![t] = NextAt(x)]
      /\ count' = [count EXCEPT ![t] = NextCount(x)]
      BY <1>1, GoesOn DEF Publishes, Straight
<1>3. PublishFlow(s, k, n, kernel)
      BY <1>1, <1>2 DEF Behind, Flow
<1>4. \E r : reg' = [reg EXCEPT ![t] = r] /\ (n.live => r = NextReg(x, V))
  <2>1. ~n.live
        BY <1>3 DEF PublishFlow
  <2>2. reg = [reg EXCEPT ![t] = reg[t]]
        BY DEF TypeOK
  <2> QED BY <2>1, <2>2 DEF Publishes, Set
<1>5. SumsKept(t, n) /\ SumsOwn(t, n)
      BY <1>3, SumsStill DEF Publishes, PublishFlow
<1>6. Accessed(t, n)
  <2>1. CASE t = 0
    <3> DEFINE R == (s.words \X {0}) \cup Whole(s.all)
               W == Word(s.cell)
    <3>1. Touch(t, R, W)
          BY <2>1 DEF Publishes
    <3>2. Alone(n, s.words, W) /\ Whole(s.all) \subseteq n.open
          BY <1>3 DEF PublishFlow, Grows, Threads, Whole
    <3>3. \A c \in R : c \in n.open \/ Owner(n, c) = t
          BY <2>1, <3>2 DEF Alone
    <3>4. \A c \in W : c \in n.shut /\ Owner(n, c) = t
          BY <2>1, <3>2 DEF Alone
    <3> HIDE DEF R, W
    <3> QED BY <3>1, <3>3, <3>4, TouchIs
  <2>2. CASE t # 0
        BY <2>2 DEF Publishes, Accessed
  <2> QED BY <2>1, <2>2
<1>7. kernel' = kernel
      BY DEF Publishes
<1>8. ASSUME NEW c \in Words, <<c, 0>> \notin n.shut PROVE val'[c] = val[c]
  <2>1. c # s.cell
        BY <1>3, <1>8 DEF PublishFlow, Alone, Word
  <2> QED BY <2>1 DEF Publishes, TypeOK
<1> QED BY <1>2, <1>4, <1>5, <1>6, <1>7, <1>8 DEF Moved

\* All threads read what was decided.
LEMMA ReadsMove ==
    ASSUME TypeOK, NEW K, NEW L, NEW V, NEW x, NEW t \in Threads, Behind(t, x, V, K, L), Reads(t)
    PROVE  Moved(t, x, V, K)
<1> DEFINE s == Body[pc[t]]
           k == K[pc[t]]
           n == K[NextAt(x)]
<1>0. pc[t] = x.at
      BY DEF Behind
<1>1. s.op \in {"read", "compare"}
      BY DEF Reads
<1>2. /\ NextAt(x) = pc[t] + 1
      /\ pc' = [pc EXCEPT ![t] = NextAt(x)]
      /\ count' = [count EXCEPT ![t] = NextCount(x)]
      BY <1>1, GoesOn DEF Reads, Straight
<1>3. Flow(s, k, n, L, kernel)
      BY <1>2 DEF Behind
<1>4. \A c \in Words : <<c, 0>> \in n.open => val[c] = V[c]
      BY DEF Behind
<1>5. kernel' = kernel /\ val' = val /\ sum' = sum
      BY DEF Reads
<1>6. CASE s.op = "read"
  <2>1. ReadFlow(s, k, n)
        BY <1>3, <1>6 DEF Flow
  <2>2. SumsKept(t, n) /\ SumsOwn(t, n)
        BY <1>5, <2>1, SumsStill DEF ReadFlow
  <2>3. val[s.cell] = V[s.cell] /\ Word(s.cell) \subseteq n.open
        BY <1>4, <2>1 DEF ReadFlow, Grows, Word
  <2>4. Set(t, val[s.cell]) /\ Touch(t, Word(s.cell), {})
        BY <1>6 DEF Reads
  <2>5. NextReg(x, V) = V[s.cell]
        BY <1>0, <1>6 DEF NextReg
  <2>6. Accessed(t, n)
        BY <2>3, <2>4, TouchIs
  <2> QED BY <1>2, <1>5, <2>2, <2>3, <2>4, <2>5, <2>6 DEF Moved, Set
<1>7. CASE s.op = "compare"
  <2>1. CompareFlow(s, k, n)
        BY <1>3, <1>7 DEF Flow
  <2>2. SumsKept(t, n) /\ SumsOwn(t, n)
        BY <1>5, <2>1, SumsStill DEF CompareFlow
  <2>3. /\ val[s.left] = V[s.left] /\ val[s.right] = V[s.right]
        /\ Word(s.left) \cup Word(s.right) \subseteq n.open
        BY <1>4, <2>1 DEF CompareFlow, Grows, Word
  <2>4. /\ Set(t, IF val[s.left] < val[s.right] THEN 1 ELSE 0)
        /\ Touch(t, Word(s.left) \cup Word(s.right), {})
        BY <1>7 DEF Reads
  <2>5. NextReg(x, V) = IF V[s.left] < V[s.right] THEN 1 ELSE 0
        BY <1>0, <1>7 DEF NextReg
  <2>6. Accessed(t, n)
        BY <2>3, <2>4, TouchIs
  <2> QED BY <1>2, <1>5, <2>2, <2>3, <2>4, <2>5, <2>6 DEF Moved, Set
<1> QED BY <1>1, <1>6, <1>7

\* A system is reported.
LEMMA ReportsMove ==
    ASSUME TypeOK, NEW K, NEW L, NEW V, NEW x, NEW t \in Threads, Behind(t, x, V, K, L), Reports(t)
    PROVE  Moved(t, x, V, K)
<1> DEFINE s == Body[pc[t]]
           k == K[pc[t]]
           n == K[NextAt(x)]
<1>1. s.op = "report"
      BY DEF Reports, Op, Ended, Behind
<1>2. /\ NextAt(x) = pc[t] + 1
      /\ pc' = [pc EXCEPT ![t] = NextAt(x)]
      /\ count' = [count EXCEPT ![t] = NextCount(x)]
      BY <1>1, GoesOn DEF Reports, Straight
<1>3. Quiet(k, n, {}, {}) /\ Alone(n, s.words, {})
      BY <1>1, <1>2 DEF Behind, Flow, ReportFlow
<1>4. \E r : reg' = [reg EXCEPT ![t] = r] /\ (n.live => r = NextReg(x, V))
      BY <1>1, <1>3, RegStill DEF Reports, Quiet
<1>5. SumsKept(t, n) /\ SumsOwn(t, n)
      BY <1>3, SumsStill DEF Reports, Quiet
<1>6. Accessed(t, n)
  <2>1. CASE t = 0 /\ log' # log
    <3> DEFINE R == s.words \X {0}
               W == {}
    <3>1. Touch(t, R, W)
          BY <2>1 DEF Reports
    <3>2. (\A c \in R : Owner(n, c) = t) /\ (\A c \in W : c \in n.shut /\ Owner(n, c) = t)
          BY <1>3, <2>1 DEF Alone, Word
    <3> HIDE DEF R, W
    <3> QED BY <3>1, <3>2, TouchIs
  <2>2. CASE ~(t = 0 /\ log' # log)
        BY <2>2 DEF Reports, Accessed
  <2> QED BY <2>1, <2>2
<1>7. kernel' = kernel
      BY DEF Reports
<1>8. val' = val
      BY DEF Reports
<1> QED BY <1>2, <1>4, <1>5, <1>6, <1>7, <1>8 DEF Moved

\* The damping rises.
LEMMA RaisesMove ==
    ASSUME TypeOK, NEW K, NEW L, NEW V, NEW x, NEW t \in Threads, Behind(t, x, V, K, L), Raises(t)
    PROVE  Moved(t, x, V, K)
<1> DEFINE s == Body[pc[t]]
           k == K[pc[t]]
           n == K[NextAt(x)]
<1>1. s.op = "raise"
      BY DEF Raises, Op, Ended, Behind
<1>2. /\ NextAt(x) = pc[t] + 1
      /\ pc' = [pc EXCEPT ![t] = NextAt(x)]
      /\ count' = [count EXCEPT ![t] = NextCount(x)]
      BY <1>1, GoesOn DEF Raises, Straight
<1>3. Quiet(k, n, {}, {}) /\ Alone(n, {}, Word("lambda"))
      BY <1>1, <1>2 DEF Behind, Flow
<1>4. \E r : reg' = [reg EXCEPT ![t] = r] /\ (n.live => r = NextReg(x, V))
      BY <1>1, <1>3, RegStill DEF Raises, Quiet
<1>5. SumsKept(t, n) /\ SumsOwn(t, n)
      BY <1>3, SumsStill DEF Raises, Quiet
<1>6. Accessed(t, n)
  <2>1. CASE t = 0 /\ log' # log
    <3> DEFINE R == Word("lambda")
               W == Word("lambda")
    <3>1. Touch(t, R, W)
          BY <2>1 DEF Raises
    <3>2. (\A c \in R : Owner(n, c) = t) /\ (\A c \in W : c \in n.shut /\ Owner(n, c) = t)
          BY <1>3, <2>1 DEF Alone, Word
    <3> HIDE DEF R, W
    <3> QED BY <3>1, <3>2, TouchIs
  <2>2. CASE ~(t = 0 /\ log' # log)
        BY <2>2 DEF Raises, Accessed
  <2> QED BY <2>1, <2>2
<1>7. kernel' = kernel
      BY DEF Raises
<1>8. ASSUME NEW c \in Words, <<c, 0>> \notin n.shut PROVE val'[c] = val[c]
  <2>1. c # "lambda"
        BY <1>3, <1>8 DEF Alone, Word
  <2> QED BY <2>1 DEF Raises, TypeOK
<1> QED BY <1>2, <1>4, <1>5, <1>6, <1>7, <1>8 DEF Moved

\* The cost that was tried is accepted.
LEMMA AcceptsMove ==
    ASSUME TypeOK, NEW K, NEW L, NEW V, NEW x, NEW t \in Threads, Behind(t, x, V, K, L), Accepts(t)
    PROVE  Moved(t, x, V, K)
<1> DEFINE s == Body[pc[t]]
           k == K[pc[t]]
           n == K[NextAt(x)]
<1>1. s.op = "accept"
      BY DEF Accepts, Op, Ended, Behind
<1>2. /\ NextAt(x) = pc[t] + 1
      /\ pc' = [pc EXCEPT ![t] = NextAt(x)]
      /\ count' = [count EXCEPT ![t] = NextCount(x)]
      BY <1>1, GoesOn DEF Accepts, Straight
<1>3. Quiet(k, n, {}, {}) /\ Alone(n, {"fn_try2"}, Word("lambda") \cup Word("fnorm2"))
      BY <1>1, <1>2 DEF Behind, Flow
<1>4. \E r : reg' = [reg EXCEPT ![t] = r] /\ (n.live => r = NextReg(x, V))
      BY <1>1, <1>3, RegStill DEF Accepts, Quiet
<1>5. SumsKept(t, n) /\ SumsOwn(t, n)
      BY <1>3, SumsStill DEF Accepts, Quiet
<1>6. Accessed(t, n)
  <2>1. CASE t = 0 /\ log' # log
    <3> DEFINE R == Word("fn_try2") \cup Word("lambda")
               W == Word("fnorm2") \cup Word("lambda")
    <3>1. Touch(t, R, W)
          BY <2>1 DEF Accepts
    <3>2. (\A c \in R : Owner(n, c) = t) /\ (\A c \in W : c \in n.shut /\ Owner(n, c) = t)
          BY <1>3, <2>1 DEF Alone, Word
    <3> HIDE DEF R, W
    <3> QED BY <3>1, <3>2, TouchIs
  <2>2. CASE ~(t = 0 /\ log' # log)
        BY <2>2 DEF Accepts, Accessed
  <2> QED BY <2>1, <2>2
<1>7. kernel' = kernel
      BY DEF Accepts
<1>8. ASSUME NEW c \in Words, <<c, 0>> \notin n.shut PROVE val'[c] = val[c]
  <2>1. c # "lambda" /\ c # "fnorm2"
        BY <1>3, <1>8 DEF Alone, Word
  <2> QED BY <2>1 DEF Accepts, TypeOK
<1> QED BY <1>2, <1>4, <1>5, <1>6, <1>7, <1>8 DEF Moved

\* A step of a sum.
LEMMA SumsMove ==
    ASSUME TypeOK, NEW K, NEW L, NEW V, NEW x, NEW t \in Threads, Behind(t, x, V, K, L), Sums(t)
    PROVE  Moved(t, x, V, K)
<1> DEFINE s == Body[pc[t]]
           k == K[pc[t]]
           n == K[NextAt(x)]
           D == s.d[t]
           tos == {e.to : e \in D}
           From(c) == CHOOSE e \in D : e.to = c
<1>1. s.op = "sum"
      BY DEF Sums, Op, Ended, Behind
<1>2. /\ NextAt(x) = pc[t] + 1
      /\ pc' = [pc EXCEPT ![t] = NextAt(x)]
      /\ count' = [count EXCEPT ![t] = NextCount(x)]
      BY <1>1, GoesOn DEF Sums, Straight
<1>3. SumFlow(s, k, n, kernel)
      BY <1>1, <1>2 DEF Behind, Flow
<1>4. \E r : reg' = [reg EXCEPT ![t] = r] /\ (n.live => r = NextReg(x, V))
      BY <1>1, <1>3, RegStill DEF Sums, SumFlow
<1>5. /\ Own(n, s.own, t)
      /\ \A e \in D : /\ Owner(n, e.to) = t /\ e.to \in n.shut
                      /\ e.from # {} => e.from = {e.left, e.right}
                      /\ \A c \in e.from : c \in n.open \/ Owner(n, c) = t
                      /\ \A f \in D : f.to = e.to => f = e
      BY <1>3 DEF SumFlow, Threads
<1>6. Accessed(t, n)
  <2> DEFINE R == Mine(t, s.own) \cup UNION {e.from : e \in D}
  <2>1. Touch(t, R, tos)
        BY DEF Sums
  <2>2. \A c \in R : c \in n.open \/ Owner(n, c) = t
        BY <1>5 DEF Mine, Own
  <2>3. \A c \in tos : c \in n.shut /\ Owner(n, c) = t
        BY <1>5
  <2> HIDE DEF R, tos
  <2> QED BY <2>1, <2>2, <2>3, TouchIs
<1>7. sum' = [c \in tos \cup DOMAIN sum |-> IF c \in tos THEN Value(From(c)) ELSE sum[c]]
      BY DEF Sums
<1>8. ASSUME NEW c, c \notin tos PROVE SumIn(c)' = SumIn(c)
  <2> HIDE DEF tos
  <2> QED BY <1>7, <1>8 DEF SumIn
<1>9. ASSUME NEW e \in D PROVE SumIn(e.to)' = Value(e)
  <2>1. e.to \in tos
        OBVIOUS
  <2>2. From(e.to) = e
        BY <1>5
  <2> HIDE DEF tos, From
  <2> QED BY <1>7, <2>1, <2>2 DEF SumIn
<1>10. SumsKept(t, n)
  <2>1. \A c \in tos : c \in n.shut /\ Owner(n, c) = t
        BY <1>5
  <2> QED BY <1>8, <2>1 DEF SumsKept
<1>11. ASSUME NEW c \in DOMAIN n.has, Owner(n, c) = t PROVE SumIn(c)' = n.has[c]
  <2>1. \A d \in DOMAIN k.has : d \in n.open \/ Owner(n, d) = t => SumIn(d) = k.has[d]
        BY DEF Behind, Owner
  <2>2. CASE \E u \in Ids(kernel.n) : \E e \in s.d[u] : e.to = c /\ Stored(e, k, n, kernel.powers)
    <3>1. PICK u \in Ids(kernel.n) : \E e \in s.d[u] : e.to = c /\ Stored(e, k, n, kernel.powers)
          BY <2>2
    <3>2. u = t
          BY <1>3, <1>11, <3>1 DEF SumFlow
    <3>3. PICK e \in D : e.to = c /\ Stored(e, k, n, kernel.powers)
          BY <3>1, <3>2
    <3>4. Value(e) = n.has[c]
      <4>1. CASE e.from = {}
            BY <3>3, <4>1 DEF Value, Stored
      <4>2. CASE e.from # {}
        <5>1. /\ e.from = {e.left, e.right} /\ e.from \subseteq DOMAIN k.has
              /\ \A d \in e.from : d \in n.open \/ Owner(n, d) = t
              BY <1>5, <3>3, <4>2 DEF Stored
        <5>2. SumIn(e.left) = k.has[e.left] /\ SumIn(e.right) = k.has[e.right]
              BY <2>1, <5>1
        <5> QED BY <3>3, <4>2, <5>2 DEF Value, Stored
      <4> QED BY <4>1, <4>2
    <3> QED BY <1>9, <3>3, <3>4
  <2>3. CASE ~ \E u \in Ids(kernel.n) : \E e \in s.d[u] : e.to = c /\ Stored(e, k, n, kernel.powers)
    <3>1. /\ c \in DOMAIN k.has /\ n.has[c] = k.has[c]
          /\ \A u \in Ids(kernel.n) : \A e \in s.d[u] : e.to # c
          BY <1>3, <2>3 DEF SumFlow
    <3>2. c \notin tos
          BY <3>1 DEF Threads
    <3>3. SumIn(c) = n.has[c]
          BY <1>11, <2>1, <3>1
    <3> QED BY <1>8, <3>2, <3>3
  <2> QED BY <2>2, <2>3
<1>12. ASSUME NEW c \in Words, <<c, 0>> \notin n.shut PROVE val'[c] = val[c]
  <2>1. CASE t = 0 /\ s.vals # {}
    <3>1. c # "sdata"
          BY <1>3, <1>12, <2>1 DEF SumFlow
    <3> QED BY <2>1, <3>1 DEF Sums, TypeOK
  <2>2. CASE ~(t = 0 /\ s.vals # {})
        BY <2>2 DEF Sums
  <2> QED BY <2>1, <2>2
<1>13. kernel' = kernel
      BY DEF Sums
<1> HIDE DEF s, k, n, D, tos, From
<1> QED BY <1>2, <1>4, <1>6, <1>10, <1>11, <1>12, <1>13 DEF Moved, SumsOwn, n

\* Every step of a thread that is behind another.
LEMMA StepMoves ==
    ASSUME TypeOK, NEW K, NEW L, Certificate(kernel, K, L), NEW V, NEW x, NEW t \in Threads,
           Behind(t, x, V, K, L), Step(t)
    PROVE  Moved(t, x, V, K)
BY JumpsMove, DoesMove, SumsMove, ResultsMove, PublishesMove, ReadsMove, ReportsMove, RaisesMove,
   AcceptsMove DEF Step

-----------------------------------------------------------------------------
(* The invariant is inductive.                                               *)

\* A thread on the path, which its block has walked as far as it will.
LEMMA StepWalk ==
    ASSUME TypeOK, NEW K, NEW L, Certificate(kernel, K, L), Lockstep(K), OwnSums(K),
           NEW t \in Threads, Step(t)
    PROVE  /\ Lockstep(K)' /\ OwnSums(K)'
           /\ \E V, x : Behind(t, x, V, K, L) /\ Moved(t, x, V, K)
                        /\ x.at \in 1 .. Len(Body) /\ Body[x.at].op # "bar"
<1>1. PICK m \in Nat : \E P, V : Walk(m, P, V, K)
      BY DEF Lockstep
<1>2. PICK P, V : Walk(m, P, V, K)
      BY <1>1
<1>3. PICK i \in 0 .. m : Agrees(t, P[i], K)
      BY <1>2 DEF Walk, ThreadsOn
<1>4. pc[t] <= Len(Body) /\ Body[pc[t]].op # "bar"
  <2>1. pc[t] \in Nat /\ ~Ended(t) /\ Len(Body) \in Nat
        BY <1>2, <1>3 DEF Step, TypeOK, Certificate, Body
  <2>2. ASSUME Jumps(t) \/ Reads(t) PROVE Body[pc[t]].op # "bar"
        BY <2>2 DEF Jumps, Reads
  <2>3. ASSUME Does(t) \/ Sums(t) \/ Results(t) PROVE Body[pc[t]].op # "bar"
        BY <2>3 DEF Does, Sums, Results, Op
  <2>4. ASSUME Publishes(t) \/ Reports(t) \/ Raises(t) \/ Accepts(t) PROVE Body[pc[t]].op # "bar"
        BY <2>4 DEF Publishes, Reports, Raises, Accepts, Op
  <2>5. Body[pc[t]].op # "bar"
        BY <2>2, <2>3, <2>4 DEF Step
  <2> QED BY <2>1, <2>5 DEF Ended
<1>5. \E j \in Nat : \E R : Walk(j, R, V, K) /\ \E h \in 0 .. j - 1 : Agrees(t, R[h], K)
  <2>1. CASE i = m
    <3>1. P[m].at <= Len(Body) /\ Body[P[m].at].op # "bar"
          BY <1>3, <1>4, <2>1 DEF Agrees
    <3>2. PICK R : Walk(m + 1, R, V, K) /\ \A h \in 0 .. m : R[h] = P[h]
          BY <1>2, <3>1, WalkOn
    <3>3. Agrees(t, R[m], K) /\ m \in 0 .. (m + 1) - 1 /\ m + 1 \in Nat
          BY <1>3, <2>1, <3>2
    <3> QED BY <3>2, <3>3
  <2>2. CASE i # m
    <3>1. i \in 0 .. m - 1
          BY <2>2
    <3> QED BY <1>2, <1>3, <3>1
  <2> QED BY <2>1, <2>2
<1>6. PICK j \in Nat : \E R : Walk(j, R, V, K) /\ \E h \in 0 .. j - 1 : Agrees(t, R[h], K)
      BY <1>5
<1>7. PICK R : Walk(j, R, V, K) /\ \E h \in 0 .. j - 1 : Agrees(t, R[h], K)
      BY <1>6
<1>8. PICK h \in 0 .. j - 1 : Agrees(t, R[h], K)
      BY <1>7
<1>9. Behind(t, R[h], V, K, L)
      BY <1>7, <1>8, IsBehind
<1>10. Moved(t, R[h], V, K)
      BY <1>9, StepMoves
<1>11. Walk(j, R, V, K)'
      BY <1>7, <1>8, <1>10, MovedWalk
<1>12. OwnSums(K)'
      BY <1>7, <1>8, <1>10, MovedOwn
<1>13. Lockstep(K)'
      BY <1>11 DEF Lockstep
<1>14. R[h].at \in 1 .. Len(Body) /\ Body[R[h].at].op # "bar"
      BY <1>4, <1>9 DEF Behind
<1> QED BY <1>9, <1>10, <1>12, <1>13, <1>14

\* Steps keep the types.
LEMMA StepType ==
    ASSUME TypeOK, NEW K, NEW L, Certificate(kernel, K, L), Lockstep(K), OwnSums(K),
           NEW t \in Threads, Step(t)
    PROVE  TypeOK' /\ kernel' = kernel
<1>1. PICK V, x : /\ Behind(t, x, V, K, L) /\ Moved(t, x, V, K)
                  /\ x.at \in 1 .. Len(Body) /\ Body[x.at].op # "bar"
      BY StepWalk
<1>2. kernel' = kernel /\ Threads' = Threads
      BY <1>1 DEF Moved, Threads
<1>3. NextAt(x) \in Nat
  <2>1. NextAt(x) \in 1 .. Len(Body) + 1
        BY <1>1, SuccEdge
  <2> QED BY <1>1, <2>1 DEF Behind
<1>4. pc' \in [Threads -> Nat]
  <2>1. pc' = [pc EXCEPT ![t] = NextAt(x)]
        BY <1>1 DEF Moved
  <2> QED BY <1>3, <2>1 DEF TypeOK
<1>5. reg' = [u \in Threads |-> reg'[u]]
  <2>1. PICK r : reg' = [reg EXCEPT ![t] = r]
        BY <1>1 DEF Moved
  <2> QED BY <2>1 DEF TypeOK
<1>6. count' \in [Threads -> [Counters -> Nat]]
  <2>1. count' = [count EXCEPT ![t] = NextCount(x)]
        BY <1>1 DEF Moved
  <2> DEFINE s == Body[pc[t]]
  <2>2. pc[t] = x.at /\ x.count = count[t] /\ Flow(s, K[pc[t]], K[pc[t] + 1], L, kernel)
        BY <1>1 DEF Behind
  <2>3. count[t] \in [Counters -> Nat]
        BY DEF TypeOK
  <2>4. NextCount(x) \in [Counters -> Nat]
    <3>1. CASE s.op \in {"start", "again"}
      <4>1. s.counter \in Counters
            BY <2>2, <3>1 DEF Flow, StartFlow, AgainFlow
      <4> QED BY <2>2, <2>3, <3>1, <4>1 DEF NextCount
    <3>2. CASE s.op \notin {"start", "again"}
          BY <2>2, <2>3, <3>2 DEF NextCount
    <3> QED BY <3>1, <3>2
  <2> QED BY <2>1, <2>4 DEF TypeOK
<1>7. val' = [c \in Words |-> val'[c]]
  <2>1. CASE val' = val
        BY <2>1 DEF TypeOK
  <2>2. CASE val' # val
    <3>1. \/ \E c, v : val' = [val EXCEPT ![c] = v]
          \/ \E v, w : val' = [val EXCEPT !["fnorm2"] = v, !["lambda"] = w]
          BY <2>2 DEF Step, Jumps, Does, Sums, Results, Publishes, Reads, Reports, Raises, Accepts
    <3> QED BY <3>1 DEF TypeOK
  <2> QED BY <2>1, <2>2
<1>8. reports' = [s \in Ids(Systems) |-> reports'[s]]
  <2>1. reports' = reports \/ \E c, v : reports' = [reports EXCEPT ![c] = v]
        BY DEF Step, Jumps, Does, Sums, Results, Publishes, Reads, Reports, Raises, Accepts
  <2> QED BY <2>1 DEF TypeOK
<1>9. kernel' \in Kernels
      BY <1>2 DEF TypeOK
<1> QED BY <1>2, <1>4, <1>5, <1>6, <1>7, <1>8, <1>9 DEF TypeOK

\* The threads meet at one barrier and leave it together.
LEMMA BarrierWalk ==
    ASSUME TypeOK, NEW K, NEW L, Certificate(kernel, K, L), Lockstep(K), OwnSums(K), Barrier
    PROVE  Lockstep(K)' /\ OwnSums(K)'
<1>1. PICK m \in Nat : \E P, V : Walk(m, P, V, K)
      BY DEF Lockstep
<1>2. PICK P, V : Walk(m, P, V, K)
      BY <1>1
<1> DEFINE p == P[m].at
           k == K[p]
           n == K[p + 1]
           R == [i \in 0 .. 0 |-> [at |-> p + 1, reg |-> P[m].reg, count |-> P[m].count]]
<1>3. ASSUME NEW t \in Threads
      PROVE  Agrees(t, P[m], K) /\ p \in 1 .. Len(Body) /\ Body[p].op = "bar"
  <2>1. PICK i \in 0 .. m : Agrees(t, P[i], K)
        BY <1>2 DEF Walk, ThreadsOn
  <2>2. pc[t] \in 1 .. Len(Body) + 1
        BY <1>2, <2>1 DEF Walk, OnPath, Agrees
  <2>3. Op(t) = "bar"
        BY DEF Barrier
  <2>4. pc[t] \in 1 .. Len(Body) /\ Body[pc[t]].op = "bar"
    <3>1. PICK S : Body \in Seq(S)
          BY DEF Certificate, Body
    <3>2. Len(Body) \in Nat
          BY <3>1
    <3> QED BY <2>2, <2>3, <3>2 DEF Op, Ended
  <2>5. i = m
    <3> SUFFICES ASSUME i # m PROVE FALSE
        OBVIOUS
    <3>1. i \in 0 .. m - 1
          OBVIOUS
    <3>2. Body[P[i].at].op # "bar"
          BY <1>2, <3>1 DEF Walk, OnPath
    <3> QED BY <2>1, <2>4, <3>2 DEF Agrees
  <2> QED BY <2>1, <2>4, <2>5 DEF Agrees
<1>4. 0 \in Threads
      BY DEF Certificate, Threads, Ids
<1>5. p \in 1 .. Len(Body) /\ Body[p].op = "bar"
      BY <1>3, <1>4
<1>6. BarFlow(k, n, kernel)
  <2>1. Flow(Body[p], k, n, L, kernel)
        BY <1>5 DEF Certificate, Flows, Body
  <2> QED BY <1>5, <2>1 DEF Flow
<1>7. Body' = Body /\ Threads' = Threads
      BY DEF Barrier, Body, Threads
<1>8. \A t \in Threads : pc[t] = p /\ pc'[t] = p + 1
      BY <1>3 DEF Barrier, Agrees
<1>9. ASSUME NEW c \in DOMAIN n.has PROVE SumIn(c) = n.has[c]
  <2>1. Owner(k, c) \in Threads /\ c \in DOMAIN k.has /\ n.has[c] = k.has[c]
        BY <1>6 DEF BarFlow, Keeps, Threads
  <2> QED BY <1>8, <2>1 DEF OwnSums
<1>10. \A c : SumIn(c)' = SumIn(c)
      BY DEF Barrier, SumIn
<1>11. OwnSums(K)'
      BY <1>7, <1>8, <1>9, <1>10 DEF OwnSums
<1>12. OnPath(0, R, val, K)'
  <2>1. p + 1 \in 1 .. Len(Body) + 1
    <3>1. PICK S : Body \in Seq(S)
          BY DEF Certificate, Body
    <3>2. Len(Body) \in Nat
          BY <3>1
    <3> QED BY <1>5, <3>2
  <2>2. \A i \in 0 .. 0 : R[i].at = p + 1 /\ i = 0
        OBVIOUS
  <2>3. 0 \in 0 .. 0 /\ 0 .. 0 - 1 = {}
        OBVIOUS
  <2>4. n.open \cap n.shut = {}
        BY <1>6 DEF BarFlow
  <2> HIDE DEF R, n, p
  <2>5. K[R[0].at] = n
        BY <2>2, <2>3 DEF n
  <2> QED BY <1>7, <2>1, <2>2, <2>3, <2>4, <2>5 DEF OnPath
<1>13. ThreadsOn(0, R, K)'
  <2>1. ASSUME NEW t \in Threads PROVE Agrees(t, R[0], K)'
    <3>1. pc'[t] = p + 1 /\ count'[t] = P[m].count /\ reg' = reg
          BY <1>3, <1>8 DEF Barrier, Agrees
    <3>2. n.live => k.live
          BY <1>6 DEF BarFlow
    <3>3. k.live => reg[t] = P[m].reg
          BY <1>3 DEF Agrees
    <3> QED BY <3>1, <3>2, <3>3 DEF Agrees
  <2>2. 0 \in 0 .. 0
        OBVIOUS
  <2> HIDE DEF R
  <2> QED BY <1>7, <2>1, <2>2 DEF ThreadsOn
<1>14. R[0].at = p + 1 /\ \A i \in 0 .. 0 : R[i].at = p + 1
      OBVIOUS
<1> HIDE DEF R, n, k, p
<1>15. LogOK(K[R[0].at])'
      BY DEF LogOK, Barrier
<1>16. ValOK(val, K[R[0].at])'
      BY DEF ValOK, Barrier
<1>17. SumOK(0, R, K)'
      BY <1>9, <1>10, <1>14 DEF SumOK, n
<1>18. \E V2 : Walk(0, R, V2, K)'
      BY <1>12, <1>13, <1>15, <1>16, <1>17 DEF Walk
<1>19. Lockstep(K)'
      BY <1>18 DEF Lockstep
<1> QED BY <1>11, <1>19

\* What the reports depend on is changed by thread 0 alone.
LEMMA RepOthers ==
    ASSUME TypeOK, NEW K, RepOK(K), NEW t \in Threads, t # 0, Step(t),
           NEW V, NEW x, Moved(t, x, V, K), 0 \in Threads
    PROVE  RepOK(K)'
<1>1. pc'[0] = pc[0] /\ count'[0] = count[0] /\ reg'[0] = reg[0]
      BY DEF Moved, TypeOK
<1>2. val' = val /\ reports' = reports
      BY DEF Step, Jumps, Does, Sums, Results, Publishes, Reads, Reports, Raises, Accepts
<1> QED BY <1>1, <1>2 DEF RepOK, Reported

\* A step that leaves count.sys, the status and the reports alone, and what is
\* known of them.
LEMMA RepPlain ==
    ASSUME NEW K, RepOK(K), K[pc[0]].rep \in Plain, K[pc'[0]].rep = K[pc[0]].rep,
           count'[0]["sys"] = count[0]["sys"], reports' = reports
    PROVE  RepOK(K)'
BY DEF RepOK, Reported, Plain

\* What is said of the reports survives a step that touches none of what it reads.
LEMMA RepSame ==
    ASSUME NEW K, RepOK(K), K[pc'[0]].rep = K[pc[0]].rep, reg'[0] = reg[0],
           count'[0]["sys"] = count[0]["sys"], val'["status"] = val["status"], reports' = reports
    PROVE  RepOK(K)'
BY DEF RepOK, Reported

\* Thread 0's jumps.
LEMMA RepJumps ==
    ASSUME TypeOK, NEW K, NEW L, Certificate(kernel, K, L), RepOK(K), 0 \in Threads, Jumps(0),
           NEW V, NEW x, Behind(0, x, V, K, L), Moved(0, x, V, K)
    PROVE  RepOK(K)'
<1> DEFINE s == Body[pc[0]]
           k == K[pc[0]]
           n == K[pc'[0]]
<1>1. Flow(s, k, K[pc[0] + 1], L, kernel) /\ count[0] \in [Counters -> Nat]
      BY DEF Behind, TypeOK
<1>2. UNCHANGED <<kernel, reg, val, sum, log, reports>>
      BY DEF Jumps
<1>3. CASE s.op \in {"label", "goto", "while"}
  <2>1. count' = count
        BY <1>3 DEF Jumps
  <2>2. pc'[0] = pc[0] + 1 \/ (pc'[0] = LabelAt(s.to) /\ s.op \in {"goto", "while"})
        BY <1>3 DEF Jumps, Advance, StepTo, TypeOK
  <2>3. n.rep = k.rep /\ k.rep \in Plain
    <3>1. CASE s.op \in {"goto", "while"} /\ pc'[0] = LabelAt(s.to)
      <4>1. s.to \in DOMAIN L /\ SamePlain(k, L[s.to])
            BY <1>1, <3>1 DEF Flow, Hop
      <4> QED BY <3>1, <4>1, LabelFacts DEF SamePlain
    <3>2. CASE pc'[0] = pc[0] + 1 /\ s.op \in {"label", "while"}
          BY <1>1, <3>2 DEF Flow, SamePlain
    <3>3. s.op = "goto" => pc'[0] = LabelAt(s.to)
          BY DEF Jumps, Advance, StepTo, TypeOK
    <3> QED BY <1>3, <2>2, <3>1, <3>2, <3>3
  <2> QED BY <1>2, <2>1, <2>3, RepPlain
<1>4. CASE s.op = "branch"
  <2>1. count' = count
        BY <1>4 DEF Jumps
  <2>2. IF reg[0] \in s.on THEN pc'[0] = LabelAt(s.to) ELSE pc'[0] = pc[0] + 1
        BY <1>4 DEF Jumps, Advance, StepTo, TypeOK
  <2>3. BranchFlow(s, k, K[pc[0] + 1], L)
        BY <1>1, <1>4 DEF Flow
  <2>4. K[LabelAt(s.to)] = L[s.to]
        BY <2>3, LabelFacts DEF BranchFlow, Hop
  <2>5. CASE n.rep = k.rep /\ k.rep \in Plain
        BY <1>2, <2>1, <2>5, RepPlain
  <2>6. CASE ~(n.rep = k.rep /\ k.rep \in Plain)
    <3>1. k.rep = "reg" /\ n.rep = IF reg[0] = 2 THEN "after" ELSE "before"
          BY <2>2, <2>3, <2>4, <2>6 DEF BranchFlow, SamePlain
    <3> QED BY <1>2, <2>1, <3>1 DEF RepOK, Reported
  <2> QED BY <2>5, <2>6
<1>5. CASE s.op = "start"
  <2>1. count' = [count EXCEPT ![0][s.counter] = 0] /\ pc'[0] = pc[0] + 1
        BY <1>5 DEF Jumps, Advance, StepTo, TypeOK
  <2>2. StartFlow(s, k, n)
        BY <1>1, <1>5, <2>1 DEF Flow
  <2>3. CASE s.counter = "sys"
    <3>1. count'[0]["sys"] = 0
          BY <1>1, <2>1, <2>3 DEF TypeOK, Counters
    <3>2. k.rep = "none" /\ n.rep = "before"
          BY <2>2, <2>3 DEF StartFlow
    <3> QED BY <1>2, <3>1, <3>2 DEF RepOK, Reported
  <2>4. CASE s.counter # "sys"
    <3>1. count'[0]["sys"] = count[0]["sys"]
          BY <1>1, <2>1, <2>4 DEF TypeOK, Counters
    <3>2. k.rep = n.rep /\ k.rep \in Plain
          BY <2>2, <2>4 DEF StartFlow, SamePlain
    <3> QED BY <1>2, <3>1, <3>2, RepPlain
  <2> QED BY <2>3, <2>4
<1>6. CASE s.op = "again"
  <2>1. count' = [count EXCEPT ![0][s.counter] = @ + 1] /\ pc'[0] = LabelAt(s.to)
        BY <1>6 DEF Jumps, Advance, StepTo, TypeOK
  <2>2. AgainFlow(s, k, L)
        BY <1>1, <1>6 DEF Flow
  <2>3. n = L[s.to]
        BY <2>1, <2>2, LabelFacts DEF AgainFlow, Hop
  <2>4. CASE s.counter = "sys"
    <3>1. count'[0]["sys"] = count[0]["sys"] + 1 /\ count[0]["sys"] \in Nat
          BY <1>1, <2>1, <2>4 DEF TypeOK, Counters
    <3>2. k.rep = "after" /\ n.rep = "before"
          BY <2>2, <2>3, <2>4 DEF AgainFlow
    <3>3. Reported(count[0]["sys"], 1)
          BY <3>2 DEF RepOK
    <3>4. Ids(Systems) \subseteq Int
          BY DEF Ids
    <3>5. Reported(count[0]["sys"], 0)'
          BY <1>2, <3>1, <3>3, <3>4 DEF Reported
    <3> QED BY <3>2, <3>5 DEF RepOK
  <2>5. CASE s.counter # "sys"
    <3>1. count'[0]["sys"] = count[0]["sys"]
          BY <1>1, <2>1, <2>5 DEF TypeOK, Counters
    <3>2. k.rep = n.rep /\ k.rep \in Plain
          BY <2>2, <2>3, <2>5 DEF AgainFlow, SamePlain
    <3> QED BY <1>2, <3>1, <3>2, RepPlain
  <2> QED BY <2>4, <2>5
<1>7. s.op \in {"label", "goto", "branch", "start", "while", "again"}
      BY DEF Jumps
<1> QED BY <1>3, <1>4, <1>5, <1>6, <1>7

\* Thread 0's other steps.
LEMMA RepStraight ==
    ASSUME TypeOK, NEW K, NEW L, Certificate(kernel, K, L), RepOK(K), 0 \in Threads, Step(0), ~Jumps(0),
           NEW V, NEW x, Behind(0, x, V, K, L)
    PROVE  RepOK(K)'
<1> DEFINE s == Body[pc[0]]
           k == K[pc[0]]
           n == K[pc'[0]]
<1>1. pc'[0] = pc[0] + 1 /\ count' = count
      BY DEF Step, Does, Sums, Results, Publishes, Reads, Reports, Raises, Accepts, Advance, StepTo, TypeOK
<1>2. Flow(s, k, n, L, kernel)
      BY <1>1 DEF Behind
<1>3. Op(0) = s.op
      BY DEF Step, Op
<1>4. CASE Does(0) \/ Results(0)
  <2>1. n.rep = k.rep
        BY <1>2, <1>3, <1>4 DEF Does, Results, Flow, DoFlow, ResultFlow, Same
  <2>2. UNCHANGED <<reg, val, reports>>
        BY <1>4 DEF Does, Results
  <2> QED BY <1>1, <2>1, <2>2, RepSame
<1>5. CASE Sums(0) \/ Raises(0) \/ Accepts(0)
  <2>1. n.rep = k.rep /\ k.rep \in Plain
        BY <1>2, <1>3, <1>5 DEF Sums, Raises, Accepts, Flow, SumFlow, SamePlain
  <2>2. reports' = reports
        BY <1>5 DEF Sums, Raises, Accepts
  <2> QED BY <1>1, <2>1, <2>2, RepPlain
<1>6. CASE Publishes(0)
  <2>1. PublishFlow(s, k, n, kernel)
        BY <1>2, <1>3, <1>6 DEF Publishes, Flow
  <2>2. reports' = reports
        BY <1>6 DEF Publishes
  <2>3. CASE SamePlain(k, n)
        BY <1>1, <2>2, <2>3, RepPlain DEF SamePlain
  <2>4. CASE ~SamePlain(k, n)
    <3>1. k.rep = "before" /\ n.rep = "decided" /\ s.cell = "status" /\ s.vals \subseteq {0, 2}
          BY <2>1, <2>4 DEF PublishFlow
    <3>2. PICK v \in s.vals : val' = [val EXCEPT ![s.cell] = v] /\ Set(0, v)
          BY <1>6 DEF Publishes
    <3>3. "status" \in Words
          BY DEF Words
    <3>4. reg'[0] = v /\ val'["status"] = v /\ v \in {0, 2}
          BY <3>1, <3>2, <3>3 DEF Set, TypeOK
    <3> QED BY <1>1, <2>2, <3>1, <3>4 DEF RepOK, Reported
  <2> QED BY <2>3, <2>4
<1>7. CASE Reads(0)
  <2>1. UNCHANGED <<val, reports>>
        BY <1>7 DEF Reads
  <2>2. CASE SamePlain(k, n)
        BY <1>1, <2>1, <2>2, RepPlain DEF SamePlain
  <2>3. CASE ~SamePlain(k, n)
    <3>1. s.op = "read" /\ k.rep = "status" /\ n.rep = "reg" /\ s.cell = "status"
          BY <1>2, <1>7, <2>3 DEF Reads, Flow, ReadFlow, CompareFlow
    <3>2. reg'[0] = val["status"]
          BY <1>7, <3>1 DEF Reads, Set, TypeOK
    <3> QED BY <1>1, <2>1, <3>1, <3>2 DEF RepOK, Reported
  <2> QED BY <2>2, <2>3
<1>8. CASE Reports(0)
  <2>1. ReportFlow(s, k, n)
        BY <1>2, <1>3, <1>8 DEF Reports, Flow
  <2>2. UNCHANGED <<reg, val>>
        BY <1>8 DEF Reports
  <2> DEFINE sys == count[0]["sys"]
  <2>3. sys \in Nat
        BY DEF TypeOK, Counters
  <2>4. IF reg[0] \notin s.off THEN reports' = [reports EXCEPT ![sys] = @ + 1] ELSE reports' = reports
        BY <1>8 DEF Reports
  <2>5. ASSUME Reported(sys, 0), reg[0] \notin s.off PROVE Reported(sys, 1)'
    <3>1. ASSUME NEW u \in Ids(Systems)
          PROVE  reports'[u] = IF u < sys THEN 1 ELSE IF u = sys THEN 1 ELSE 0
      <4>1. reports[u] = IF u < sys THEN 1 ELSE 0
            BY <2>5 DEF Reported
      <4>2. reports'[u] = IF u = sys THEN reports[u] + 1 ELSE reports[u]
            BY <2>4, <2>5 DEF TypeOK
      <4>3. u = sys => ~(u < sys)
            BY <2>3
      <4> QED BY <4>1, <4>2, <4>3
    <3>2. sys' = sys
          BY <1>1
    <3> QED BY <3>1, <3>2 DEF Reported
  <2>6. CASE k.rep = "before"
    <3>1. reg[0] \notin s.off /\ n.rep = "after"
          BY <2>1, <2>6 DEF ReportFlow
    <3>2. Reported(sys, 0)
          BY <2>6 DEF RepOK
    <3> QED BY <1>1, <2>5, <3>1, <3>2 DEF RepOK
  <2>7. CASE k.rep # "before"
    <3>1. k.rep = "decided" /\ s.off = {0} /\ n.rep = "status"
          BY <2>1, <2>7 DEF ReportFlow
    <3>2. Reported(sys, 0) /\ reg[0] = val["status"] /\ val["status"] \in {0, 2}
          BY <3>1 DEF RepOK
    <3>3. CASE val["status"] = 2
      <4>1. Reported(sys, 1)'
            BY <2>5, <3>1, <3>2, <3>3
      <4> QED BY <1>1, <2>2, <3>1, <3>3, <4>1 DEF RepOK
    <3>4. CASE val["status"] = 0
      <4>1. reports' = reports
            BY <2>4, <3>1, <3>2, <3>4
      <4> QED BY <1>1, <2>2, <3>1, <3>2, <3>4, <4>1 DEF RepOK, Reported
    <3> QED BY <3>2, <3>3, <3>4
  <2> QED BY <2>6, <2>7
<1> QED BY <1>4, <1>5, <1>6, <1>7, <1>8 DEF Step

\* At the start every thread is at the first statement.
LEMMA InitOK == ASSUME Certified, Init PROVE IInv
<1>1. PICK K, L : Certificate(kernel, K, L)
      BY DEF Certified, Init
<1>2. 0 \in Threads /\ kernel.n \in Nat
      BY <1>1 DEF Certificate, Threads, Ids
<1>3. \A t \in Threads : pc[t] = 1 /\ reg[t] = 0 /\ count[t] = [c \in Counters |-> 0]
      BY DEF Init, Counters
<1>4. Len(Body) \in Nat
  <2>1. PICK S : Body \in Seq(S)
        BY <1>1 DEF Certificate, Body
  <2> QED BY <2>1
<1>5. TypeOK
      BY DEF TypeOK, Init, Counters
<1> DEFINE P == [i \in 0 .. 0 |-> [at |-> 1, reg |-> 0, count |-> [c \in Counters |-> 0]]]
<1>6. /\ 0 \in 0 .. 0 /\ 0 .. 0 - 1 = {}
      /\ \A i \in 0 .. 0 : i = 0 /\ P[i] = [at |-> 1, reg |-> 0, count |-> [c \in Counters |-> 0]]
      OBVIOUS
<1> HIDE DEF P
<1>7. P[0].at = 1 /\ P[0].reg = 0 /\ P[0].count = [c \in Counters |-> 0]
      BY <1>6
<1>8. OnPath(0, P, val, K)
      BY <1>1, <1>4, <1>6, <1>7 DEF OnPath, Certificate, Fresh
<1>9. ThreadsOn(0, P, K)
      BY <1>3, <1>6, <1>7 DEF ThreadsOn, Agrees
<1>10. LogOK(K[P[0].at]) /\ ValOK(val, K[P[0].at])
      BY DEF LogOK, ValOK, Init
<1>11. SumOK(0, P, K)
      BY <1>1, <1>6, <1>7 DEF SumOK, Certificate, Fresh
<1>12. Lockstep(K)
      BY <1>8, <1>9, <1>10, <1>11 DEF Lockstep, Walk
<1>13. OwnSums(K)
      BY <1>1, <1>3 DEF OwnSums, Certificate, Fresh
<1>14. RepOK(K)
  <2>1. pc[0] = 1 /\ count[0]["sys"] = 0
        BY <1>2, <1>3 DEF Counters
  <2>2. Reported(0, 0)
    <3>1. \A u \in Ids(Systems) : u \in Int /\ ~(u < 0) /\ reports[u] = 0
          BY DEF Init, Ids
    <3> QED BY <3>1 DEF Reported
  <2> QED BY <1>1, <2>1, <2>2 DEF RepOK, Certificate, Fresh
<1> QED BY <1>1, <1>5, <1>12, <1>13, <1>14 DEF IInv

\* Steps and barriers preserve it.
LEMMA NextOK == ASSUME IInv, [Next]_vars PROVE IInv'
<1>1. PICK K, L : Certificate(kernel, K, L) /\ Lockstep(K) /\ OwnSums(K) /\ RepOK(K)
      BY DEF IInv
<1>2. TypeOK /\ 0 \in Threads
      BY <1>1 DEF IInv, Certificate, Threads, Ids
<1>3. ASSUME NEW t \in Threads, Step(t) PROVE IInv'
  <2>1. TypeOK' /\ kernel' = kernel /\ Lockstep(K)' /\ OwnSums(K)'
        BY <1>1, <1>2, <1>3, StepType, StepWalk
  <2>2. PICK V, x : Behind(t, x, V, K, L) /\ Moved(t, x, V, K)
        BY <1>1, <1>2, <1>3, StepWalk
  <2>3. RepOK(K)'
    <3>1. CASE t # 0
          BY <1>1, <1>2, <1>3, <2>2, <3>1, RepOthers
    <3>2. CASE t = 0 /\ Jumps(0)
          BY <1>1, <1>2, <1>3, <2>2, <3>2, RepJumps
    <3>3. CASE t = 0 /\ ~Jumps(0)
          BY <1>1, <1>2, <1>3, <2>2, <3>3, RepStraight
    <3> QED BY <3>1, <3>2, <3>3
  <2>4. Certificate(kernel, K, L)'
        BY <1>1, <2>1
  <2> QED BY <2>1, <2>3, <2>4 DEF IInv
<1>4. CASE Barrier
  <2>1. Lockstep(K)' /\ OwnSums(K)'
        BY <1>1, <1>2, <1>4, BarrierWalk
  <2>2. Threads' = Threads /\ UNCHANGED <<kernel, reg, count, val, reports>>
        BY <1>4 DEF Barrier, Threads
  <2>3. pc'[0] = pc[0] + 1
        BY <1>2, <1>4 DEF Barrier
  <2>4. Op(0) = "bar"
        BY <1>2, <1>4 DEF Barrier
  <2>5. pc[0] \in 1 .. Len(Body) /\ Body[pc[0]].op = "bar"
    <3>1. PICK m \in Nat : \E P, V : Walk(m, P, V, K)
          BY <1>1 DEF Lockstep
    <3>2. PICK P, V : Walk(m, P, V, K)
          BY <3>1
    <3>3. PICK i \in 0 .. m : pc[0] = P[i].at
          BY <1>2, <3>2 DEF Walk, ThreadsOn, Agrees
    <3>4. pc[0] \in 1 .. Len(Body) + 1
          BY <3>2, <3>3 DEF Walk, OnPath
    <3>5. Len(Body) \in Nat
      <4>1. PICK S : Body \in Seq(S)
            BY <1>1 DEF Certificate, Body
      <4> QED BY <4>1
    <3> QED BY <2>4, <3>4, <3>5 DEF Op, Ended
  <2>6. K[pc[0] + 1].rep = K[pc[0]].rep
    <3>1. Flow(Body[pc[0]], K[pc[0]], K[pc[0] + 1], L, kernel)
          BY <1>1, <2>5 DEF Certificate, Flows, Body
    <3> QED BY <2>5, <3>1 DEF Flow, BarFlow, Same
  <2>7. RepOK(K)'
        BY <1>1, <2>2, <2>3, <2>6, RepSame
  <2>8. TypeOK'
    <3>1. pc' \in [Threads -> Nat]
          BY <1>2, <1>4 DEF Barrier, TypeOK
    <3> QED BY <1>2, <2>2, <3>1 DEF TypeOK
  <2>9. Certificate(kernel, K, L)'
        BY <1>1, <2>2
  <2> QED BY <2>1, <2>7, <2>8, <2>9 DEF IInv
<1>5. CASE UNCHANGED vars
  <2>1. UNCHANGED <<kernel, pc, reg, count, val, sum, log, reports>>
        BY <1>5 DEF vars
  <2>2. TypeOK'
        BY <1>2, <2>1 DEF TypeOK, Threads
  <2>3. Lockstep(K)'
    <3>1. PICK m \in Nat : \E P, V : Walk(m, P, V, K)
          BY <1>1 DEF Lockstep
    <3>2. PICK P, V : Walk(m, P, V, K)
          BY <3>1
    <3>3. Body' = Body /\ Threads' = Threads
          BY <2>1 DEF Body, Threads
    <3>4. \A x : Succ(x, V)' = Succ(x, V)
          BY <3>3 DEF Succ, NextAt, NextReg, NextCount, LabelAt
    <3>5. OnPath(m, P, V, K)'
          BY <3>2, <3>3, <3>4 DEF Walk, OnPath
    <3>6. ThreadsOn(m, P, K)'
          BY <2>1, <3>2, <3>3 DEF Walk, ThreadsOn, Agrees
    <3>7. LogOK(K[P[m].at])' /\ ValOK(V, K[P[m].at])'
          BY <2>1, <3>2 DEF Walk, LogOK, ValOK
    <3>8. SumOK(m, P, K)'
          BY <2>1, <3>2 DEF Walk, SumOK, SumIn
    <3> QED BY <3>5, <3>6, <3>7, <3>8 DEF Walk, Lockstep
  <2>4. OwnSums(K)'
        BY <1>1, <2>1 DEF OwnSums, Threads, SumIn
  <2>5. RepOK(K)'
        BY <1>1, <2>1 DEF RepOK, Reported
  <2> QED BY <1>1, <2>1, <2>2, <2>3, <2>4, <2>5 DEF IInv
<1> QED BY <1>3, <1>4, <1>5 DEF Next, AllEnded

\* What follows from it.
LEMMA RaceFree == ASSUME IInv PROVE NoRace
<1>1. PICK K : Lockstep(K)
      BY DEF IInv
<1>2. PICK m \in Nat : \E P, V : Walk(m, P, V, K)
      BY <1>1 DEF Lockstep
<1>3. PICK P, V : Walk(m, P, V, K)
      BY <1>2
<1>4. LogOK(K[P[m].at]) /\ K[P[m].at].open \cap K[P[m].at].shut = {}
      BY <1>3 DEF Walk, OnPath
<1> QED BY <1>4 DEF NoRace, LogOK

\* Threads on one path that wait at a barrier wait at its last state, all of them.
LEMMA InStep == ASSUME IInv PROVE NoDesync
<1>1. PICK K, L : Certificate(kernel, K, L) /\ Lockstep(K)
      BY DEF IInv
<1>2. PICK m \in Nat : \E P, V : Walk(m, P, V, K)
      BY <1>1 DEF Lockstep
<1>3. PICK P, V : Walk(m, P, V, K)
      BY <1>2
<1>4. Len(Body) \in Nat
  <2>1. PICK S : Body \in Seq(S)
        BY <1>1 DEF Certificate, Body
  <2> QED BY <2>1
<1>5. ASSUME NEW t \in Threads
      PROVE  /\ pc[t] \in 1 .. Len(Body) + 1
             /\ pc[t] # P[m].at => pc[t] <= Len(Body) /\ Body[pc[t]].op # "bar"
  <2>1. PICK i \in 0 .. m : pc[t] = P[i].at
        BY <1>3 DEF Walk, ThreadsOn, Agrees
  <2>2. i # m => i \in 0 .. m - 1
        OBVIOUS
  <2> QED BY <1>3, <2>1, <2>2 DEF Walk, OnPath
<1>6. ASSUME NEW t \in Threads, NEW u \in Threads, Op(t) = "bar"
      PROVE  ~Ended(u) /\ (Op(u) = "bar" => pc[t] = pc[u])
  <2>1. ~Ended(t) /\ Body[pc[t]].op = "bar"
        BY <1>6 DEF Op
  <2>2. pc[t] = P[m].at /\ pc[t] <= Len(Body)
        BY <1>4, <1>5, <2>1 DEF Ended
  <2>3. ~Ended(u)
        BY <1>4, <1>5, <2>2 DEF Ended
  <2> QED BY <1>5, <2>2, <2>3 DEF Op
<1> QED BY <1>6 DEF NoDesync

\* At a result, the sums read are known and nobody is writing them.
LEMMA Complete == ASSUME IInv PROVE ReductionsAreComplete
<1>1. PICK K, L : Certificate(kernel, K, L) /\ Lockstep(K) /\ OwnSums(K)
      BY DEF IInv
<1>2. PICK m \in Nat : \E P, V : Walk(m, P, V, K)
      BY <1>1 DEF Lockstep
<1>3. PICK P, V : Walk(m, P, V, K)
      BY <1>2
<1>4. ASSUME NEW t \in Threads, Op(t) = "result", NEW c \in Body[pc[t]].cells[t]
      PROVE  SumIn(c) = kernel.want[c]
  <2>1. PICK i \in 0 .. m : pc[t] = P[i].at
        BY <1>3 DEF Walk, ThreadsOn, Agrees
  <2> DEFINE p == P[i].at
             k == K[p]
             n == K[p + 1]
             e == K[P[m].at]
  <2>2. p \in 1 .. Len(Body) /\ Body[p].op = "result"
    <3>1. p \in 1 .. Len(Body) + 1
          BY <1>3 DEF Walk, OnPath
    <3>2. PICK S : Body \in Seq(S)
          BY <1>1 DEF Certificate, Body
    <3>3. Len(Body) \in Nat
          BY <3>2
    <3> QED BY <1>4, <2>1, <3>1, <3>3 DEF Op, Ended
  <2>3. Flow(Body[p], k, n, L, kernel)
        BY <1>1, <2>2 DEF Certificate, Flows, Body
  <2>4. ResultFlow(Body[p], k, n, kernel)
        BY <2>2, <2>3 DEF Flow
  <2>5. c \in n.open /\ c \in DOMAIN k.has /\ k.has[c] = kernel.want[c]
        BY <1>4, <2>1, <2>4 DEF ResultFlow, Threads
  <2>6. c \notin e.shut
    <3>1. CASE i = m
          BY <2>4, <2>5, <3>1 DEF ResultFlow, Quiet, Grows
    <3>2. CASE i # m
      <4>1. i \in 0 .. m - 1 /\ i + 1 \in 0 .. m
            BY <3>2
      <4>2. P[i + 1] = Succ(P[i], V)
            BY <1>3, <4>1 DEF Walk, OnPath
      <4>3. P[i + 1].at = p + 1
            BY <2>2, <4>2 DEF Succ, NextAt
      <4>4. n.open \subseteq e.open /\ e.open \cap e.shut = {}
            BY <1>3, <4>1, <4>3 DEF Walk, OnPath
      <4> QED BY <2>5, <4>4
    <3> QED BY <3>1, <3>2
  <2>7. SumIn(c) = k.has[c]
        BY <1>3, <2>5, <2>6 DEF Walk, SumOK
  <2> QED BY <2>5, <2>7
<1> QED BY <1>4 DEF ReductionsAreComplete

\* Thread 0 is never past a system that has no report, nor has reported one twice.
LEMMA OneReport == ASSUME IInv PROVE ReportedOnce
<1>1. PICK K : RepOK(K)
      BY DEF IInv
<1>2. Reported(count[0]["sys"], 0) \/ Reported(count[0]["sys"], 1)
      BY <1>1 DEF RepOK
<1>3. ASSUME NEW u \in Ids(Systems)
      PROVE reports[u] <= 1 /\ (u < count[0]["sys"] => reports[u] = 1)
      BY <1>2 DEF Reported
<1> QED BY <1>3 DEF ReportedOnce

\* Every block of a certified kernel keeps the invariant.
THEOREM Invariance == ASSUME Certified PROVE Spec => []IInv
<1>1. Init => IInv
      BY InitOK
<1>2. IInv /\ [Next]_vars => IInv'
      BY NextOK
<1> QED BY <1>1, <1>2, PTL DEF Spec

-----------------------------------------------------------------------------
(* Certificates of kernels are put together from paths.                      *)

Path(s, k, m, L, q) ==
    \E S, K : s \in Seq(S) /\ K[1] = k /\ K[Len(s) + 1] = m /\ Flows(s, K, L, q)

\* Paths compose.
LEMMA PathCat ==
    ASSUME NEW s, NEW u, NEW k, NEW m, NEW n, NEW L, NEW q,
           Path(s, k, m, L, q), Path(u, m, n, L, q)
    PROVE  Path(s \o u, k, n, L, q)
<1>1. PICK S, K : s \in Seq(S) /\ K[1] = k /\ K[Len(s) + 1] = m /\ Flows(s, K, L, q)
      BY DEF Path
<1>2. PICK T, M : u \in Seq(T) /\ M[1] = m /\ M[Len(u) + 1] = n /\ Flows(u, M, L, q)
      BY DEF Path
<1> DEFINE a == Len(s)
           b == Len(u)
           v == s \o u
           N == [i \in 1 .. a + b + 1 |-> IF i <= a THEN K[i] ELSE M[i - a]]
<1>3. s \in Seq(S \cup T) /\ u \in Seq(S \cup T) /\ a \in Nat /\ b \in Nat
      BY <1>1, <1>2
<1>4. /\ v \in Seq(S \cup T) /\ Len(v) = a + b
      /\ \A i \in 1 .. a : v[i] = s[i]
      /\ \A i \in 1 .. b : v[a + i] = u[i]
      BY <1>3
<1>5. N[1] = k /\ N[a + b + 1] = n
      BY <1>1, <1>2, <1>3
<1>6. ASSUME NEW i \in 1 .. a + b PROVE Flow(v[i], N[i], N[i + 1], L, q)
  <2>1. CASE i <= a
    <3>1. i \in 1 .. a /\ v[i] = s[i] /\ N[i] = K[i]
          BY <1>3, <1>4, <2>1
    <3>2. N[i + 1] = K[i + 1]
          BY <1>1, <1>2, <1>3, <2>1
    <3>3. Flow(s[i], K[i], K[i + 1], L, q)
          BY <1>1, <3>1 DEF Flows
    <3> QED BY <3>1, <3>2, <3>3
  <2>2. CASE i > a
    <3> DEFINE j == i - a
    <3>1. j \in 1 .. b /\ a + j = i
          BY <1>3, <2>2
    <3>2. v[i] = u[j]
          BY <1>4, <3>1
    <3>3. N[i] = M[j] /\ N[i + 1] = M[j + 1]
          BY <1>3, <2>2
    <3>4. Flow(u[j], M[j], M[j + 1], L, q)
          BY <1>2, <3>1 DEF Flows
    <3> QED BY <3>2, <3>3, <3>4
  <2> QED BY <1>3, <2>1, <2>2
<1> HIDE DEF N, v, a, b
<1>7. v \in Seq(S \cup T) /\ N[1] = k /\ N[Len(v) + 1] = n /\ Flows(v, N, L, q)
      BY <1>4, <1>5, <1>6 DEF Flows
<1>8. Path(v, k, n, L, q)
      BY <1>7 DEF Path
<1> QED BY <1>8 DEF v

\* A path of one statement, and of none.
LEMMA PathOne ==
    ASSUME NEW st, NEW k, NEW m, NEW L, NEW q, Flow(st, k, m, L, q)
    PROVE  Path(<<st>>, k, m, L, q)
<1> DEFINE K == [i \in 1 .. 2 |-> IF i = 1 THEN k ELSE m]
           s == <<st>>
<1>1. s \in Seq({st}) /\ Len(s) = 1 /\ s[1] = st /\ K[1] = k /\ K[2] = m
      OBVIOUS
<1> HIDE DEF s, K
<1>2. Flows(s, K, L, q)
      BY <1>1 DEF Flows
<1>3. Path(s, k, m, L, q)
      BY <1>1, <1>2 DEF Path
<1> QED BY <1>3 DEF s

\* No statement leads nowhere.
LEMMA PathNone == ASSUME NEW k, NEW L, NEW q PROVE Path(<<>>, k, k, L, q)
<1> DEFINE K == [i \in 1 .. 1 |-> k]
           s == <<>>
<1>1. s \in Seq({}) /\ Len(s) = 0 /\ K[1] = k
      OBVIOUS
<1> HIDE DEF s, K
<1>2. Flows(s, K, L, q)
      BY <1>1 DEF Flows
<1>3. Path(s, k, k, L, q)
      BY <1>1, <1>2 DEF Path
<1> QED BY <1>3 DEF s

\* The same for three parts, ...
LEMMA PathCat3 ==
    ASSUME NEW s, NEW u, NEW v, NEW k, NEW m, NEW n, NEW o, NEW L, NEW q,
           Path(s, k, m, L, q), Path(u, m, n, L, q), Path(v, n, o, L, q)
    PROVE  Path(s \o u \o v, k, o, L, q)
<1>1. Path(s \o u, k, n, L, q)
      BY PathCat
<1> QED BY <1>1, PathCat

\* ... and for four.
LEMMA PathCat4 ==
    ASSUME NEW s, NEW u, NEW v, NEW w, NEW k, NEW m, NEW n, NEW o, NEW p, NEW L, NEW q,
           Path(s, k, m, L, q), Path(u, m, n, L, q), Path(v, n, o, L, q), Path(w, o, p, L, q)
    PROVE  Path(s \o u \o v \o w, k, p, L, q)
<1>1. Path(s \o u \o v, k, o, L, q)
      BY PathCat3
<1> QED BY <1>1, PathCat

\* The labels of a composition.
LEMMA DefinesCat ==
    ASSUME NEW s, NEW u, NEW l, NEW S, NEW T, s \in Seq(S), u \in Seq(T), Defines(s, l) \/ Defines(u, l)
    PROVE  Defines(s \o u, l)
<1> DEFINE v == s \o u
<1>1. s \in Seq(S \cup T) /\ u \in Seq(S \cup T)
      OBVIOUS
<1>2. /\ v \in Seq(S \cup T) /\ Len(v) = Len(s) + Len(u) /\ Len(s) \in Nat /\ Len(u) \in Nat
      /\ \A i \in 1 .. Len(s) : v[i] = s[i]
      /\ \A i \in 1 .. Len(u) : v[Len(s) + i] = u[i]
      BY <1>1
<1>3. DOMAIN s = 1 .. Len(s) /\ DOMAIN u = 1 .. Len(u) /\ DOMAIN v = 1 .. Len(v)
      BY <1>1, <1>2
<1> HIDE DEF v
<1>4. CASE Defines(s, l)
  <2>1. PICK i \in 1 .. Len(s) : s[i].op = "label" /\ s[i].name = l
        BY <1>3, <1>4 DEF Defines
  <2>2. i \in DOMAIN v /\ v[i] = s[i]
        BY <1>2, <1>3
  <2>3. Defines(v, l)
        BY <2>1, <2>2 DEF Defines
  <2> QED BY <2>3 DEF v
<1>5. CASE Defines(u, l)
  <2>1. PICK i \in 1 .. Len(u) : u[i].op = "label" /\ u[i].name = l
        BY <1>3, <1>5 DEF Defines
  <2>2. Len(s) + i \in DOMAIN v /\ v[Len(s) + i] = u[i]
        BY <1>2, <1>3
  <2>3. Defines(v, l)
        BY <2>1, <2>2 DEF Defines
  <2> QED BY <2>3 DEF v
<1> QED BY <1>4, <1>5

\* A label defines its name.
LEMMA LabelDefines == ASSUME NEW l PROVE Defines(Label(l), l)
<1> DEFINE s == Label(l)
<1>1. 1 \in DOMAIN s /\ s[1].op = "label" /\ s[1].name = l
      BY DEF Label
<1> QED BY <1>1 DEF Defines

\* A path through the body is a certificate.
LEMMA PathCertifies ==
    ASSUME NEW q, NEW k, NEW m, NEW L, q.n \in Nat \ {0}, Path(q.body, k, m, L, q), Fresh(k),
           \A l \in DOMAIN L : Defines(q.body, l)
    PROVE  \E K, M : Certificate(q, K, M)
<1>1. PICK S, K : q.body \in Seq(S) /\ K[1] = k /\ Flows(q.body, K, L, q)
      BY DEF Path
<1>2. Certificate(q, K, L)
      BY <1>1 DEF Certificate
<1> QED BY <1>2

-----------------------------------------------------------------------------
(* Numbers.                                                                  *)

\* The quotient and the remainder are the only ones.
LEMMA DivMod ==
    ASSUME NEW n \in Nat \ {0}, NEW a \in Int, NEW r \in 0 .. n - 1
    PROVE  (a * n + r) \div n = a /\ (a * n + r) % n = r
OBVIOUS

\* Division with remainder.
LEMMA DivModExist ==
    ASSUME NEW n \in Nat \ {0}, NEW a \in Int
    PROVE  a = (a \div n) * n + (a % n) /\ a \div n \in Int /\ a % n \in 0 .. n - 1
OBVIOUS

\* A number below n is its own remainder.
LEMMA SmallMod ==
    ASSUME NEW n \in Nat \ {0}, NEW r \in 0 .. n - 1
    PROVE  r \div n = 0 /\ r % n = r
OBVIOUS

\* A non-empty set of naturals has a least element; what passes on to a number
\* from all below it holds of all.
LEMMA LeastNat ==
    ASSUME NEW T \in SUBSET Nat, T # {}
    PROVE  \E m \in T : \A n \in T : m <= n
<1>1. PICK m \in T : \A n \in T : <<n, m>> \notin OpToRel(<, Nat)
      BY NatLessThanWellFounded, WFMin, Zenon
<1>2. \A n \in T : ~(n < m)
      BY <1>1 DEF OpToRel
<1> QED BY <1>2

\* Strong induction, for a set.
LEMMA Induct ==
    ASSUME NEW S, \A m \in Nat : (\A j \in 0 .. m - 1 : j \in S) => m \in S
    PROVE  Nat \subseteq S
<1> DEFINE T == {m \in Nat : m \notin S}
<1> SUFFICES ASSUME T # {} PROVE FALSE
    OBVIOUS
<1>1. T \in SUBSET Nat
      OBVIOUS
<1> HIDE DEF T
<1>2. PICK m \in T : \A n \in T : m <= n
      BY <1>1, LeastNat
<1>3. m \in Nat /\ m \notin S /\ \A j \in 0 .. m - 1 : j \in S
  <2>1. m \in Nat /\ m \notin S
        BY DEF T
  <2>2. ASSUME NEW j \in 0 .. m - 1 PROVE j \in S
    <3>1. j \in Nat /\ ~(m <= j)
          BY <2>1
    <3>2. j \notin T
          BY <1>2, <3>1
    <3> QED BY <3>1, <3>2 DEF T
  <2> QED BY <2>1, <2>2
<1> QED BY <1>3

\* n has no odd divisor but 1.
PowerOfTwo(n) ==
    n \in Nat \ {0} /\ \A d, e \in 1 .. n : n = d * e /\ d % 2 = 1 => d = 1

\* A factor of a power of two is one.
LEMMA FactorOfPower ==
    ASSUME NEW n, PowerOfTwo(n), NEW a \in Nat \ {0}, NEW b \in Nat \ {0}, n = a * b
    PROVE  PowerOfTwo(a)
<1>1. ASSUME NEW d \in 1 .. a, NEW e \in 1 .. a, a = d * e, d % 2 = 1 PROVE d = 1
  <2>1. n = d * (e * b)
        BY <1>1
  <2>2. e * b \in Nat \ {0} /\ n \in Nat
        OBVIOUS
  <2>3. d \in 1 .. n /\ e * b \in 1 .. n
        BY <2>1, <2>2
  <2> HIDE DEF PowerOfTwo
  <2> DEFINE f == e * b
  <2>4. f \in 1 .. n /\ n = d * f
        BY <2>1, <2>3
  <2> HIDE DEF f
  <2> QED BY <1>1, <2>3, <2>4 DEF PowerOfTwo
<1> QED BY <1>1 DEF PowerOfTwo

\* A power of two but 1 can be halved.
LEMMA Halved ==
    ASSUME NEW n, PowerOfTwo(n), n # 1
    PROVE  /\ n \div 2 \in Nat \ {0} /\ n = 2 * (n \div 2) /\ n = (n \div 2) * 2
           /\ PowerOfTwo(n \div 2)
<1> DEFINE h == n \div 2
<1>1. n \in Nat \ {0}
      BY DEF PowerOfTwo
<1>2. n % 2 # 1
  <2> SUFFICES ASSUME n % 2 = 1 PROVE FALSE
      OBVIOUS
  <2>1. n \in 1 .. n /\ 1 \in 1 .. n /\ n = n * 1
        BY <1>1
  <2> QED BY <2>1 DEF PowerOfTwo
<1>3. h \in Nat \ {0} /\ n = h * 2
      BY <1>1, <1>2
<1> HIDE DEF h
<1>4. PowerOfTwo(h)
      BY <1>3, FactorOfPower
<1> QED BY <1>3, <1>4 DEF h

-----------------------------------------------------------------------------
(* Bags of terms.                                                            *)

\* Sums of different terms add up to the sum of all of them.
LEMMA AddBags ==
    ASSUME NEW A, NEW B, A \cap B = {}
    PROVE  SetToBag(A) (+) SetToBag(B) = SetToBag(A \cup B)
BY DEF SetToBag, (+)

\* Terms times powers of w, of which there are size.
AreTerms(Y, size) == \A y \in Y : y = <<y[1], y[2]>> /\ y[2] \in Ids(size)
Turned(Y, tw, size) == {<<y[1], (y[2] + tw) % size>> : y \in Y}

\* To turn a power by tw and back gives it again.
LEMMA ModBack ==
    ASSUME NEW n \in Nat \ {0}, NEW tw \in Int, NEW r \in 0 .. n - 1
    PROVE  (((r + tw) % n) - tw) % n = r
<1> DEFINE a == (r + tw) \div n
           e == (r + tw) % n
<1>1. r + tw = a * n + e /\ a \in Int /\ e \in Int
      OBVIOUS
<1> HIDE DEF a, e
<1>2. e - tw = (-a) * n + r /\ -a \in Int
      BY <1>1
<1>3. ((-a) * n + r) % n = r
      BY <1>2, DivMod
<1> QED BY <1>2, <1>3 DEF e

\* A sum that is turned is the sum of the turned terms.
LEMMA TurnBag ==
    ASSUME NEW size \in Nat \ {0}, NEW tw \in Int, NEW Y, AreTerms(Y, size)
    PROVE  Twisted(SetToBag(Y), tw, size) = SetToBag(Turned(Y, tw, size))
<1> DEFINE b == SetToBag(Y)
<1>1. DOMAIN b = Y /\ \A y \in Y : b[y] = 1
      BY DEF SetToBag
<1>2. ASSUME NEW x \in Turned(Y, tw, size) PROVE b[<<x[1], (x[2] - tw) % size>>] = 1
  <2>1. PICK y \in Y : x = <<y[1], (y[2] + tw) % size>>
        BY DEF Turned
  <2>2. y = <<y[1], y[2]>> /\ y[2] \in 0 .. size - 1
        BY DEF Ids, AreTerms
  <2>3. (((y[2] + tw) % size) - tw) % size = y[2]
        BY <2>2, ModBack
  <2> QED BY <1>1, <2>1, <2>2, <2>3
<1> HIDE DEF b
<1>3. Twisted(b, tw, size) = [x \in Turned(Y, tw, size) |-> b[<<x[1], (x[2] - tw) % size>>]]
      BY <1>1 DEF Twisted, Turned
<1>4. Twisted(b, tw, size) = [x \in Turned(Y, tw, size) |-> 1]
      BY <1>2, <1>3
<1> QED BY <1>4 DEF b, SetToBag

\* To turn by nothing changes nothing.
LEMMA TurnNone ==
    ASSUME NEW size \in Nat \ {0}, NEW Y, AreTerms(Y, size)
    PROVE  Twisted(SetToBag(Y), 0, size) = SetToBag(Y)
<1>1. \A y \in Y : <<y[1], (y[2] + 0) % size>> = y
  <2>1. ASSUME NEW y \in Y PROVE <<y[1], (y[2] + 0) % size>> = y
    <3>1. y = <<y[1], y[2]>> /\ y[2] \in 0 .. size - 1
          BY DEF Ids, AreTerms
    <3>2. (y[2] + 0) % size = y[2]
          BY <3>1, SmallMod
    <3> QED BY <3>1, <3>2
  <2> QED BY <2>1
<1>2. Turned(Y, 0, size) = Y
      BY <1>1 DEF Turned
<1>3. Twisted(SetToBag(Y), 0, size) = SetToBag(Turned(Y, 0, size))
      BY TurnBag
<1> QED BY <1>2, <1>3

-----------------------------------------------------------------------------
(* The tree.  Q[j] are the terms thread j starts with.                       *)

None == [c \in {} |-> 0]
Know(open, shut, live, rep, has) ==
    [open |-> open, shut |-> shut, owner |-> None, live |-> live, rep |-> rep, has |-> has]
\* Arrays of which cells are open and shut.
At(X, W, live, rep) == Know(X \X Nat, W \X Nat, live, rep, None)

\* What the first w cells hold when w are left.
Terms(Q, n, w, i) == UNION {Q[j] : j \in {j \in Ids(n) : j % w = i}}
Held(arrs, Q, n, w) == [c \in arrs \X Ids(w) |-> SetToBag(Terms(Q, n, w, c[2]) \X {0})]
Left(arrs, Q, n, w, live, rep) == Know({}, {}, live, rep, Held(arrs, Q, n, w))
Folded(arrs, Q, n, w, live, rep) ==
    Know(arrs \X {i \in Nat : i >= w}, (arrs \X Ids(w)) \cup Word("sdata"), live, rep,
         Held(arrs, Q, n, w))

Disjoint(Q, n) == \A i, j \in Ids(n) : i # j => Q[i] \cap Q[j] = {}

\* f[i] is the sum of the terms in Q[i].
AreSums(f, Q, n) == \A i \in Ids(n) : f[i] = SetToBag(Q[i] \X {0})

UnionOf(Q, n) == UNION {Q[i] : i \in Ids(n)}

\* What the threads store in the arrays.
Stores(arrs, n, partial) == [t \in Ids(n) |-> {Store(<<a, t>>, partial[t]) : a \in arrs}]

\* The fields of these records; by default a cell belongs to the thread of its
\* index.
LEMMA KnowFields ==
    ASSUME NEW open, NEW shut, NEW live, NEW rep, NEW has
    PROVE  LET k == Know(open, shut, live, rep, has) IN
           /\ k.open = open /\ k.shut = shut /\ k.live = live /\ k.rep = rep /\ k.has = has
           /\ k.owner = None
           /\ \A c : Owner(k, c) = c[2]
BY DEF Know, Owner, None

\* The fields of At, ...
LEMMA AtFields ==
    ASSUME NEW X, NEW W, NEW live, NEW rep
    PROVE  LET k == At(X, W, live, rep) IN
           /\ k.open = X \X Nat /\ k.shut = W \X Nat /\ k.live = live /\ k.rep = rep
           /\ k.owner = None /\ DOMAIN k.has = {}
           /\ \A c : Owner(k, c) = c[2]
BY DEF At, Know, Owner, None

\* ... of Left, ...
LEMMA LeftFields ==
    ASSUME NEW arrs, NEW Q, NEW n, NEW w, NEW live, NEW rep
    PROVE  LET k == Left(arrs, Q, n, w, live, rep) IN
           /\ k.open = {} /\ k.shut = {} /\ k.live = live /\ k.rep = rep
           /\ k.has = Held(arrs, Q, n, w) /\ k.owner = None
           /\ \A c : Owner(k, c) = c[2]
BY DEF Left, Know, Owner, None

\* ... and of Folded.
LEMMA FoldedFields ==
    ASSUME NEW arrs, NEW Q, NEW n, NEW w, NEW live, NEW rep
    PROVE  LET k == Folded(arrs, Q, n, w, live, rep) IN
           /\ k.open = arrs \X {i \in Nat : i >= w}
           /\ k.shut = (arrs \X Ids(w)) \cup Word("sdata") /\ k.live = live /\ k.rep = rep
           /\ k.has = Held(arrs, Q, n, w) /\ k.owner = None
           /\ \A c : Owner(k, c) = c[2]
BY DEF Folded, Know, Owner, None

\* With half the cells each holds what two held.
LEMMA TermsFold ==
    ASSUME NEW n \in Nat, NEW Q, Disjoint(Q, n), NEW s \in Nat \ {0}, NEW i \in Ids(s)
    PROVE  /\ Terms(Q, n, 2 * s, i) \cap Terms(Q, n, 2 * s, i + s) = {}
           /\ Terms(Q, n, 2 * s, i) \cup Terms(Q, n, 2 * s, i + s) = Terms(Q, n, s, i)
<1>0. i \in 0 .. s - 1 /\ Ids(n) \subseteq Int
      BY DEF Ids
<1>1. ASSUME NEW j \in Ids(n) PROVE j % s = i <=> j % (2 * s) = i \/ j % (2 * s) = i + s
  <2> DEFINE w == 2 * s
             a == j \div w
             r == j % w
  <2>1. w \in Nat \ {0} /\ j \in Int
        BY <1>0
  <2>2. j = a * w + r /\ a \in Int /\ r \in 0 .. w - 1
        BY <2>1, DivModExist
  <2>3. CASE r < s
    <3>1. j = (2 * a) * s + r /\ r \in 0 .. s - 1 /\ 2 * a \in Int
          BY <2>2, <2>3
    <3>2. j % s = r
          BY <3>1, DivMod
    <3> HIDE DEF r, a
    <3> QED BY <1>0, <2>3, <3>1, <3>2 DEF r
  <2>4. CASE r >= s
    <3>1. j = (2 * a + 1) * s + (r - s) /\ r - s \in 0 .. s - 1 /\ 2 * a + 1 \in Int
          BY <2>2, <2>4
    <3>2. j % s = r - s
      <4> DEFINE b == 2 * a + 1
                 e == r - s
      <4> HIDE DEF r, a, b, e
      <4>1. (b * s + e) % s = e
            BY <3>1, DivMod DEF b, e
      <4> QED BY <3>1, <4>1 DEF b, e
    <3> HIDE DEF r, a
    <3> QED BY <1>0, <2>2, <2>4, <3>1, <3>2 DEF r
  <2> HIDE DEF r, a
  <2> QED BY <2>2, <2>3, <2>4
<1>2. ASSUME NEW x \in Terms(Q, n, 2 * s, i), x \in Terms(Q, n, 2 * s, i + s) PROVE FALSE
  <2>1. PICK j \in Ids(n) : j % (2 * s) = i /\ x \in Q[j]
        BY DEF Terms
  <2>2. PICK h \in Ids(n) : h % (2 * s) = i + s /\ x \in Q[h]
        BY <1>2 DEF Terms
  <2>3. j # h
        BY <1>0, <2>1, <2>2
  <2> QED BY <2>1, <2>2, <2>3 DEF Disjoint
<1>3. {j \in Ids(n) : j % s = i} = {j \in Ids(n) : j % (2 * s) = i} \cup {j \in Ids(n) : j % (2 * s) = i + s}
      BY <1>1
<1> QED BY <1>2, <1>3 DEF Terms

\* At first every thread holds its own, at last the first holds everything.
LEMMA TermsFirst ==
    ASSUME NEW n \in Nat \ {0}, NEW Q, NEW i \in Ids(n)
    PROVE  Terms(Q, n, n, i) = Q[i]
<1>1. \A j \in Ids(n) : j % n = j
      BY SmallMod DEF Ids
<1>2. {j \in Ids(n) : j % n = i} = {i}
      BY <1>1
<1> QED BY <1>2 DEF Terms

\* When one thread is left it holds every term.
LEMMA TermsLast ==
    ASSUME NEW n \in Nat, NEW Q
    PROVE  Terms(Q, n, 1, 0) = UnionOf(Q, n)
<1>1. \A j \in Ids(n) : j % 1 = 0
      BY DEF Ids
<1>2. {j \in Ids(n) : j % 1 = 0} = Ids(n)
      BY <1>1
<1> QED BY <1>2 DEF Terms, UnionOf

\* A barrier ends what is open and shut.
LEMMA BarPath ==
    ASSUME NEW k, NEW m, NEW L, NEW q, BarFlow(k, m, q)
    PROVE  Path(Bar, k, m, L, q)
<1> DEFINE st == [op |-> "bar"]
<1>1. Flow(st, k, m, L, q)
      BY DEF Flow
<1> HIDE DEF st
<1>2. Path(<<st>>, k, m, L, q)
      BY <1>1, PathOne
<1> QED BY <1>2 DEF st, Bar

\* A sum whose stores are as they should is a path of one statement.
LEMMA SumPath ==
    ASSUME NEW own, NEW d, NEW vals, NEW k, NEW m, NEW L, NEW q,
           SumFlow([op |-> "sum", own |-> own, d |-> d, vals |-> vals], k, m, q)
    PROVE  Path(Sum(own, d, vals), k, m, L, q)
<1> DEFINE st == [op |-> "sum", own |-> own, d |-> d, vals |-> vals]
<1>1. Flow(st, k, m, L, q)
      BY DEF Flow
<1> HIDE DEF st
<1>2. Path(<<st>>, k, m, L, q)
      BY <1>1, PathOne
<1> QED BY <1>2 DEF st, Sum

\* Each thread stores the sum of its own terms.
LEMMA StorePath ==
    ASSUME NEW L, NEW q, NEW n \in Nat \ {0}, q.n = n, NEW own, NEW arrs, NEW partial, NEW Q,
           AreSums(partial, Q, n),
           NEW X, NEW W, X \cap W = {}, X \cap arrs = {}, NEW live, NEW rep \in Plain
    PROVE  Path(Sum(own, Stores(arrs, n, partial), {}) \o Bar,
                At(X, W, live, rep), Left(arrs, Q, n, n, live, rep), L, q)
<1> DEFINE d == [t \in Ids(n) |-> {Store(<<a, t>>, partial[t]) : a \in arrs}]
           st == [op |-> "sum", own |-> own, d |-> d, vals |-> {}]
           H == Held(arrs, Q, n, n)
           k == At(X, W, live, rep)
           m == Know(X \X Nat, (W \cup arrs) \X Nat, live, rep, H)
           e == Left(arrs, Q, n, n, live, rep)
<1>1. /\ k.open = X \X Nat /\ k.shut = W \X Nat /\ k.live = live /\ k.rep = rep /\ k.owner = None
      BY AtFields
<1>2. /\ m.open = X \X Nat /\ m.shut = (W \cup arrs) \X Nat /\ m.live = live /\ m.rep = rep
      /\ m.has = H /\ m.owner = None /\ \A c : Owner(m, c) = c[2]
      BY KnowFields
<1>3. /\ e.open = {} /\ e.shut = {} /\ e.live = live /\ e.rep = rep /\ e.has = H
      BY LeftFields
<1>4. DOMAIN H = arrs \X Ids(n) /\ \A a \in arrs, t \in Ids(n) : H[<<a, t>>] = partial[t]
  <2>1. \A t \in Ids(n) : Terms(Q, n, n, t) = Q[t]
        BY TermsFirst
  <2> QED BY <2>1 DEF Held, AreSums
<1>5. Ids(n) \subseteq Nat
      BY DEF Ids
<1> HIDE DEF k, m, e, H
<1>6. ASSUME NEW t \in Ids(n), NEW f \in d[t]
      PROVE  \E a \in arrs : f = Store(<<a, t>>, partial[t]) /\ f.to = <<a, t>> /\ f.from = {} /\ f.bag = partial[t]
      BY DEF Store
<1>7. ASSUME NEW a \in arrs, NEW t \in Ids(n)
      PROVE  /\ Store(<<a, t>>, partial[t]) \in d[t]
             /\ Store(<<a, t>>, partial[t]).to = <<a, t>>
      BY DEF Store
<1> HIDE DEF d
<1>8. st.own = own /\ st.d = d /\ st.vals = {}
      OBVIOUS
<1> HIDE DEF st
<1>9. SumFlow(st, k, m, q)
  <2>1. Grows(k, m, {}, {}) /\ SamePlain(k, m) /\ (m.live => k.live)
    <3>1. m.open \cap m.shut = {}
          BY <1>2
    <3>2. k.shut \subseteq m.shut
          BY <1>1, <1>2
    <3> QED BY <1>1, <1>2, <3>1, <3>2 DEF Grows, SamePlain
  <2>2. ASSUME NEW t \in Ids(q.n)
        PROVE  /\ Own(m, st.own, t)
               /\ \A f \in st.d[t] :
                      /\ Owner(m, f.to) = t /\ f.to \in m.shut
                      /\ f.from # {} => f.from = {f.left, f.right}
                      /\ \A c \in f.from : c \in m.open \/ Owner(m, c) = t
                      /\ \A g \in st.d[t] : g.to = f.to => g = f
    <3>1. Own(m, st.own, t)
          BY <1>2 DEF Own
    <3>2. ASSUME NEW f \in d[t], NEW g \in d[t], g.to = f.to PROVE g = f
      <4>1. PICK a \in arrs : f = Store(<<a, t>>, partial[t]) /\ f.to = <<a, t>>
            BY <1>6
      <4>2. PICK b \in arrs : g = Store(<<b, t>>, partial[t]) /\ g.to = <<b, t>>
            BY <1>6
      <4>3. a = b
            BY <3>2, <4>1, <4>2
      <4> QED BY <4>1, <4>2, <4>3
    <3>3. ASSUME NEW f \in d[t] PROVE Owner(m, f.to) = t /\ f.to \in m.shut /\ f.from = {}
      <4>1. PICK a \in arrs : f.to = <<a, t>> /\ f.from = {}
            BY <1>6
      <4> QED BY <1>2, <1>5, <4>1
    <3> QED BY <1>8, <3>1, <3>2, <3>3
  <2>3. ASSUME NEW c \in DOMAIN m.has
        PROVE  \E t \in Ids(q.n) : \E f \in st.d[t] : f.to = c /\ Stored(f, k, m, q.powers)
    <3>1. PICK a \in arrs, t \in Ids(n) : c = <<a, t>>
          BY <1>2, <1>4
    <3> DEFINE f == Store(<<a, t>>, partial[t])
    <3>2. f \in d[t] /\ f.to = c /\ f.from = {} /\ f.bag = partial[t]
          BY <1>7, <3>1 DEF Store
    <3> HIDE DEF f
    <3>3. Stored(f, k, m, q.powers)
          BY <1>2, <1>4, <3>1, <3>2 DEF Stored
    <3> QED BY <1>8, <3>2, <3>3
  <2> QED BY <1>8, <2>1, <2>2, <2>3 DEF SumFlow
<1>10. Path(Sum(own, d, {}), k, m, L, q)
      BY <1>9, SumPath DEF st
<1>11. BarFlow(m, e, q)
  <2>1. \A c \in DOMAIN e.has : Owner(m, c) \in Ids(q.n)
        BY <1>2, <1>3, <1>4
  <2> QED BY <1>2, <1>3, <2>1 DEF BarFlow, Keeps, Same
<1>12. Path(Bar, m, e, L, q)
      BY <1>11, BarPath
<1>13. Path(Sum(own, d, {}) \o Bar, k, e, L, q)
      BY <1>10, <1>12, PathCat
<1> QED BY <1>13 DEF d, k, e, Stores

\* Threads below s add what the threads above hold.
LEMMA FoldPath ==
    ASSUME NEW L, NEW q, NEW n \in Nat \ {0}, q.n = n, q.powers = 1, NEW arrs, NEW vals,
           NEW Q, Disjoint(Q, n), NEW s \in Nat \ {0}, s <= n, NEW live, NEW rep \in Plain
    PROVE  Path(Fold(arrs, n, s, vals) \o Bar,
                Left(arrs, Q, n, 2 * s, live, rep), Left(arrs, Q, n, s, live, rep), L, q)
<1> DEFINE Adding(a, t) == Add(<<a, t>>, <<a, t>>, <<a, t + s>>, 0)
           d == [t \in Ids(n) |-> IF t < s THEN {Adding(a, t) : a \in arrs} ELSE {}]
           vs == IF s = 1 THEN vals ELSE {}
           st == [op |-> "sum", own |-> {}, d |-> d, vals |-> vs]
           G == Held(arrs, Q, n, 2 * s)
           H == Held(arrs, Q, n, s)
           k == Left(arrs, Q, n, 2 * s, live, rep)
           m == Folded(arrs, Q, n, s, live, rep)
           e == Left(arrs, Q, n, s, live, rep)
<1>1. k.open = {} /\ k.shut = {} /\ k.live = live /\ k.rep = rep /\ k.owner = None /\ k.has = G
      BY LeftFields
<1>2. /\ m.open = arrs \X {i \in Nat : i >= s} /\ m.shut = (arrs \X Ids(s)) \cup Word("sdata")
      /\ m.live = live /\ m.rep = rep /\ m.has = H /\ m.owner = None /\ \A c : Owner(m, c) = c[2]
      BY FoldedFields
<1>3. /\ e.open = {} /\ e.shut = {} /\ e.live = live /\ e.rep = rep /\ e.has = H
      BY LeftFields
<1>4. /\ Ids(s) \subseteq Ids(n) /\ Ids(n) \subseteq Nat /\ Ids(s) = {t \in Ids(n) : t < s}
      /\ \A t \in Ids(s) : t \in Ids(2 * s) /\ t + s \in Ids(2 * s) /\ t + s \in Nat /\ t + s >= s
      BY DEF Ids
<1>5. DOMAIN G = arrs \X Ids(2 * s) /\ DOMAIN H = arrs \X Ids(s)
      BY DEF Held
<1>6. ASSUME NEW a \in arrs, NEW t \in Ids(s)
      PROVE  H[<<a, t>>] = G[<<a, t>>] (+) Twisted(G[<<a, t + s>>], 0, 1)
  <2> DEFINE A == Terms(Q, n, 2 * s, t)
             B == Terms(Q, n, 2 * s, t + s)
  <2>1. A \cap B = {} /\ A \cup B = Terms(Q, n, s, t)
        BY TermsFold
  <2>2. G[<<a, t>>] = SetToBag(A \X {0}) /\ G[<<a, t + s>>] = SetToBag(B \X {0})
        BY <1>4 DEF Held
  <2>3. H[<<a, t>>] = SetToBag((A \cup B) \X {0})
        BY <2>1 DEF Held
  <2> HIDE DEF A, B, G, H
  <2>4. AreTerms(B \X {0}, 1)
        BY DEF AreTerms, Ids
  <2>5. Twisted(SetToBag(B \X {0}), 0, 1) = SetToBag(B \X {0})
        BY <2>4, TurnNone
  <2>6. (A \X {0}) \cap (B \X {0}) = {} /\ (A \X {0}) \cup (B \X {0}) = (A \cup B) \X {0}
        BY <2>1
  <2>7. SetToBag(A \X {0}) (+) SetToBag(B \X {0}) = SetToBag((A \cup B) \X {0})
        BY <2>6, AddBags
  <2> QED BY <2>2, <2>3, <2>5, <2>7
<1> HIDE DEF k, m, e, H, G
<1>7. ASSUME NEW a, NEW t
      PROVE  /\ Adding(a, t).to = <<a, t>> /\ Adding(a, t).from = {<<a, t>>, <<a, t + s>>}
             /\ Adding(a, t).left = <<a, t>> /\ Adding(a, t).right = <<a, t + s>>
             /\ Adding(a, t).twist = 0
      BY DEF Add
<1> HIDE DEF Adding
<1>8. \A t \in Ids(n) : d[t] = IF t \in Ids(s) THEN {Adding(a, t) : a \in arrs} ELSE {}
      BY <1>4
<1> HIDE DEF d
<1>9. st.own = {} /\ st.d = d /\ st.vals = vs
      OBVIOUS
<1> HIDE DEF st
<1>10. SumFlow(st, k, m, q)
  <2>1. Grows(k, m, {}, {}) /\ SamePlain(k, m) /\ (m.live => k.live)
    <3>1. m.open \cap m.shut = {}
      <4>1. \A i \in Ids(s) : ~(i >= s)
            BY DEF Ids
      <4>2. ~(0 >= s)
            OBVIOUS
      <4> QED BY <1>2, <4>1, <4>2 DEF Word
    <3> QED BY <1>1, <1>2, <3>1 DEF Grows, SamePlain
  <2>2. st.vals # {} => <<"sdata", 0>> \in m.shut /\ Owner(m, <<"sdata", 0>>) = 0
        BY <1>2 DEF Word
  <2>3. ASSUME NEW t \in Ids(q.n)
        PROVE  /\ Own(m, st.own, t)
               /\ \A f \in st.d[t] :
                      /\ Owner(m, f.to) = t /\ f.to \in m.shut
                      /\ f.from # {} => f.from = {f.left, f.right}
                      /\ \A c \in f.from : c \in m.open \/ Owner(m, c) = t
                      /\ \A g \in st.d[t] : g.to = f.to => g = f
    <3>1. Own(m, st.own, t)
          BY <1>9 DEF Own
    <3>2. ASSUME NEW f \in d[t], NEW g \in d[t], g.to = f.to PROVE g = f
      <4>1. PICK a \in arrs : f = Adding(a, t)
            BY <1>8
      <4>2. PICK b \in arrs : g = Adding(b, t)
            BY <1>8
      <4>3. a = b
            BY <1>7, <3>2, <4>1, <4>2
      <4> QED BY <4>1, <4>2, <4>3
    <3>3. ASSUME NEW f \in d[t]
          PROVE  /\ Owner(m, f.to) = t /\ f.to \in m.shut
                 /\ f.from = {f.left, f.right}
                 /\ \A c \in f.from : c \in m.open \/ Owner(m, c) = t
      <4>1. t \in Ids(s)
            BY <1>8, <3>3
      <4>2. PICK a \in arrs : f = Adding(a, t)
            BY <1>8
      <4>3. f.to = <<a, t>> /\ f.from = {<<a, t>>, <<a, t + s>>} /\ f.left = <<a, t>> /\ f.right = <<a, t + s>>
            BY <1>7, <4>2
      <4>4. <<a, t>> \in m.shut /\ <<a, t + s>> \in m.open /\ Owner(m, <<a, t>>) = t
            BY <1>2, <1>4, <4>1
      <4> QED BY <4>3, <4>4
    <3> QED BY <1>9, <3>1, <3>2, <3>3
  <2>4. ASSUME NEW c \in DOMAIN m.has
        PROVE  \E t \in Ids(q.n) : \E f \in st.d[t] : f.to = c /\ Stored(f, k, m, q.powers)
    <3>1. PICK a \in arrs, t \in Ids(s) : c = <<a, t>>
          BY <1>2, <1>5
    <3> DEFINE f == Adding(a, t)
    <3>2. f \in d[t] /\ t \in Ids(n)
          BY <1>4, <1>8
    <3>3. /\ f.to = <<a, t>> /\ f.from = {<<a, t>>, <<a, t + s>>}
          /\ f.left = <<a, t>> /\ f.right = <<a, t + s>> /\ f.twist = 0
          BY <1>7
    <3> HIDE DEF f
    <3>4. f.from \subseteq DOMAIN k.has
          BY <1>1, <1>4, <1>5, <3>3
    <3>5. f.from # {} /\ m.has[f.to] = k.has[f.left] (+) Twisted(k.has[f.right], f.twist, q.powers)
          BY <1>1, <1>2, <1>6, <3>3
    <3>6. Stored(f, k, m, q.powers)
          BY <3>4, <3>5 DEF Stored
    <3> QED BY <1>9, <3>1, <3>2, <3>3, <3>6
  <2> QED BY <2>1, <2>2, <2>3, <2>4 DEF SumFlow
<1>11. Path(Sum({}, d, vs), k, m, L, q)
      BY <1>10, SumPath DEF st
<1>12. Fold(arrs, n, s, vals) = Sum({}, d, vs)
      BY DEF Fold, d, Adding
<1>13. BarFlow(m, e, q)
  <2>1. \A c \in DOMAIN e.has : Owner(m, c) \in Ids(q.n)
        BY <1>2, <1>3, <1>4, <1>5
  <2> QED BY <1>2, <1>3, <2>1 DEF BarFlow, Keeps, Same
<1>14. Path(Bar, m, e, L, q)
      BY <1>13, BarPath
<1>15. Path(Fold(arrs, n, s, vals) \o Bar, k, e, L, q)
      BY <1>11, <1>12, <1>14, PathCat
<1> QED BY <1>15 DEF k, e

FoldsStep(arrs, n, vals, from, s) ==
    IF s = 0 THEN <<>> ELSE Fold(arrs, n, s, vals) \o Bar \o from[s \div 2]

\* The halving loop is well defined.
LEMMA FoldsDefined ==
    ASSUME NEW arrs, NEW n \in Nat, NEW vals
    PROVE  \E from : from = [s \in 0 .. n |-> FoldsStep(arrs, n, vals, from, s)]
<1> DEFINE Defined(m) == \E f : f = [s \in 0 .. m |-> FoldsStep(arrs, n, vals, f, s)]
           D == {m \in Nat : Defined(m)}
<1>1. ASSUME NEW m \in Nat, \A j \in 0 .. m - 1 : j \in D PROVE m \in D
  <2>1. CASE m = 0
    <3> DEFINE f == [s \in 0 .. 0 |-> <<>>]
    <3>1. f = [s \in 0 .. 0 |-> FoldsStep(arrs, n, vals, f, s)]
          BY DEF FoldsStep
    <3>2. Defined(0)
          BY <3>1
    <3> QED BY <2>1, <3>2
  <2>2. CASE m # 0
    <3>1. m - 1 \in 0 .. m - 1
          BY <2>2
    <3>2. PICK g : g = [s \in 0 .. m - 1 |-> FoldsStep(arrs, n, vals, g, s)]
          BY <1>1, <3>1
    <3> DEFINE f == [s \in 0 .. m |-> IF s = m THEN FoldsStep(arrs, n, vals, g, m) ELSE g[s]]
    <3>3. ASSUME NEW s \in 0 .. m PROVE FoldsStep(arrs, n, vals, f, s) = FoldsStep(arrs, n, vals, g, s)
      <4>1. s # 0 => f[s \div 2] = g[s \div 2]
            OBVIOUS
      <4> QED BY <4>1 DEF FoldsStep
    <3>4. ASSUME NEW s \in 0 .. m PROVE f[s] = FoldsStep(arrs, n, vals, g, s)
      <4>1. CASE s = m
            BY <4>1
      <4>2. CASE s # m
        <5>1. s \in 0 .. m - 1 /\ f[s] = g[s]
              BY <4>2
        <5>2. g[s] = FoldsStep(arrs, n, vals, g, s)
              BY <3>2, <5>1
        <5> QED BY <5>1, <5>2
      <4> QED BY <4>1, <4>2
    <3>5. f = [s \in 0 .. m |-> FoldsStep(arrs, n, vals, f, s)]
      <4>1. \A s \in 0 .. m : f[s] = FoldsStep(arrs, n, vals, f, s)
            BY <3>3, <3>4
      <4>2. f = [s \in 0 .. m |-> f[s]]
            OBVIOUS
      <4> HIDE DEF f
      <4> QED BY <4>1, <4>2
    <3> HIDE DEF f
    <3>6. Defined(m)
          BY <3>5
    <3> QED BY <3>6
  <2> QED BY <2>1, <2>2
<1> HIDE DEF D
<1>2. n \in D
      BY <1>1, Induct
<1> QED BY <1>2 DEF D

\* The function in Folds is defined by its recursion.
LEMMA FoldsExist ==
    ASSUME NEW arrs, NEW n \in Nat, NEW vals
    PROVE  \E from : /\ Folds(arrs, n, vals) = from[n \div 2]
                     /\ \A s \in 0 .. n : from[s] = FoldsStep(arrs, n, vals, from, s)
<1> DEFINE from == CHOOSE f : f = [s \in 0 .. n |-> FoldsStep(arrs, n, vals, f, s)]
<1>1. Folds(arrs, n, vals) = from[n \div 2]
      BY DEF Folds, FoldsStep
<1>2. from = [s \in 0 .. n |-> FoldsStep(arrs, n, vals, from, s)]
  <2>1. \E f : f = [s \in 0 .. n |-> FoldsStep(arrs, n, vals, f, s)]
        BY FoldsDefined
  <2> QED BY <2>1, Zenon
<1> HIDE DEF from
<1>3. \A s \in 0 .. n : from[s] = FoldsStep(arrs, n, vals, from, s)
      BY <1>2, Zenon
<1> QED BY <1>1, <1>3

\* The halving loop leaves the sum of everything in the first cell.
LEMMA FoldsPath ==
    ASSUME NEW L, NEW q, NEW n, PowerOfTwo(n), q.n = n, q.powers = 1, NEW arrs, NEW vals,
           NEW Q, Disjoint(Q, n), NEW live, NEW rep \in Plain
    PROVE  Path(Folds(arrs, n, vals), Left(arrs, Q, n, n, live, rep), Left(arrs, Q, n, 1, live, rep), L, q)
<1> DEFINE At2(s) == Left(arrs, Q, n, s, live, rep)
<1>1. n \in Nat \ {0}
      BY DEF PowerOfTwo
<1>2. PICK from : /\ Folds(arrs, n, vals) = from[n \div 2]
                  /\ \A s \in 0 .. n : from[s] = FoldsStep(arrs, n, vals, from, s)
      BY <1>1, FoldsExist
<1>3. from[0] = <<>>
      BY <1>1, <1>2 DEF FoldsStep
<1> HIDE DEF At2
<1>4. Path(from[0], At2(1), At2(1), L, q)
      BY <1>3, PathNone
<1> DEFINE D == {s \in Nat : s <= n /\ PowerOfTwo(s) => Path(from[s], At2(2 * s), At2(1), L, q)}
<1>5. ASSUME NEW s \in Nat, \A j \in 0 .. s - 1 : j \in D PROVE s \in D
  <2> SUFFICES ASSUME s <= n, PowerOfTwo(s) PROVE Path(from[s], At2(2 * s), At2(1), L, q)
      OBVIOUS
  <2>1. s \in Nat \ {0}
        BY DEF PowerOfTwo
  <2>2. from[s] = Fold(arrs, n, s, vals) \o Bar \o from[s \div 2]
    <3>1. s \in 0 .. n /\ s # 0
          BY <1>1, <2>1
    <3>2. from[s] = FoldsStep(arrs, n, vals, from, s)
          BY <1>2, <3>1, Zenon
    <3> QED BY <3>1, <3>2, Zenon DEF FoldsStep
  <2>3. Path(Fold(arrs, n, s, vals) \o Bar, At2(2 * s), At2(s), L, q)
        BY <1>1, <2>1, FoldPath DEF At2
  <2>4. Path(from[s \div 2], At2(s), At2(1), L, q)
    <3>1. CASE s = 1
      <4>1. s \div 2 = 0
            BY <3>1
      <4> QED BY <1>4, <3>1, <4>1
    <3>2. CASE s # 1
      <4>1. s \div 2 \in Nat \ {0} /\ s = 2 * (s \div 2) /\ PowerOfTwo(s \div 2)
            BY <3>2, Halved
      <4>2. s \div 2 \in 0 .. s - 1 /\ s \div 2 <= n
            BY <1>1, <4>1
      <4> QED BY <1>5, <4>1, <4>2
    <3> QED BY <3>1, <3>2
  <2>5. Path((Fold(arrs, n, s, vals) \o Bar) \o from[s \div 2], At2(2 * s), At2(1), L, q)
        BY <2>3, <2>4, PathCat
  <2> QED BY <2>2, <2>5
<1> HIDE DEF D
<1>6. Nat \subseteq D
      BY <1>5, Induct
<1>7. Path(from[n \div 2], At2(n), At2(1), L, q)
  <2>1. CASE n = 1
    <3>1. n \div 2 = 0
          BY <2>1
    <3> QED BY <1>4, <2>1, <3>1
  <2>2. CASE n # 1
    <3>1. n \div 2 \in Nat \ {0} /\ n = 2 * (n \div 2) /\ PowerOfTwo(n \div 2)
          BY <2>2, Halved
    <3>2. n \div 2 <= n /\ n \div 2 \in D
          BY <1>1, <1>6, <3>1
    <3> QED BY <3>1, <3>2 DEF D
  <2> QED BY <2>1, <2>2
<1> QED BY <1>2, <1>7 DEF At2

\* So does the tree, when each thread starts with terms of its own.
LEMMA TreePath ==
    ASSUME NEW L, NEW q, NEW n, PowerOfTwo(n), q.n = n, q.powers = 1, NEW own, NEW arrs, NEW partial, NEW vals,
           NEW Q, Disjoint(Q, n), AreSums(partial, Q, n),
           NEW X, NEW W, X \cap W = {}, X \cap arrs = {}, NEW live, NEW rep \in Plain
    PROVE  Path(Tree(own, arrs, n, partial, vals), At(X, W, live, rep), Left(arrs, Q, n, 1, live, rep), L, q)
<1> DEFINE first == Sum(own, Stores(arrs, n, partial), {}) \o Bar
           k == At(X, W, live, rep)
           h == Left(arrs, Q, n, n, live, rep)
           m == Left(arrs, Q, n, 1, live, rep)
<1>1. n \in Nat \ {0}
      BY DEF PowerOfTwo
<1>2. Path(first, k, h, L, q)
      BY <1>1, StorePath
<1>3. Path(Folds(arrs, n, vals), h, m, L, q)
      BY FoldsPath
<1>4. Tree(own, arrs, n, partial, vals) = first \o Folds(arrs, n, vals)
      BY DEF Tree, Stores
<1> HIDE DEF first, k, h, m
<1>5. Path(first \o Folds(arrs, n, vals), k, m, L, q)
      BY <1>2, <1>3, PathCat
<1> QED BY <1>4, <1>5 DEF k, m

\* The finished sums may be read.
LEMMA ResultPath ==
    ASSUME NEW L, NEW q, NEW n \in Nat \ {0}, q.n = n, NEW arrs, NEW Q,
           q.want = Totals(arrs, UnionOf(Q, n)),
           NEW cells, \A t \in Ids(n) : cells[t] \subseteq arrs \X {0}, NEW live, NEW rep
    PROVE  Path(Result(cells), Left(arrs, Q, n, 1, live, rep), At(arrs, {}, live, rep), L, q)
<1> DEFINE st == [op |-> "result", cells |-> cells]
           H == Held(arrs, Q, n, 1)
           k == Left(arrs, Q, n, 1, live, rep)
           m == At(arrs, {}, live, rep)
<1>1. k.open = {} /\ k.shut = {} /\ k.live = live /\ k.rep = rep /\ k.owner = None /\ k.has = H
      BY LeftFields
<1>2. /\ m.open = arrs \X Nat /\ m.shut = {} /\ m.live = live /\ m.rep = rep /\ m.owner = None
      /\ DOMAIN m.has = {}
      BY AtFields
<1>3. Ids(1) = {0}
      BY DEF Ids
<1>4. H = q.want
  <2>1. \A c \in arrs \X Ids(1) : Terms(Q, n, 1, c[2]) = UnionOf(Q, n)
        BY <1>3, TermsLast
  <2>2. H = [c \in arrs \X Ids(1) |-> SetToBag(UnionOf(Q, n) \X {0})]
        BY <2>1 DEF Held
  <2> HIDE DEF H
  <2> QED BY <1>3, <2>2 DEF Totals
<1>5. DOMAIN H = arrs \X {0}
      BY <1>3 DEF Held
<1>6. st.op = "result" /\ st.cells = cells
      OBVIOUS
<1> HIDE DEF k, m, H, st
<1>7. ResultFlow(st, k, m, q)
  <2>1. Quiet(k, m, {}, {}) /\ Same(k, m)
        BY <1>1, <1>2 DEF Quiet, Grows, Keeps, Same
  <2>2. ASSUME NEW t \in Ids(q.n), NEW c \in cells[t]
        PROVE c \in m.open /\ c \in DOMAIN k.has /\ k.has[c] = q.want[c]
    <3>1. c \in arrs \X {0}
          OBVIOUS
    <3> QED BY <1>1, <1>2, <1>4, <1>5, <3>1
  <2> QED BY <1>6, <2>1, <2>2 DEF ResultFlow
<1>8. Flow(st, k, m, L, q)
      BY <1>6, <1>7 DEF Flow
<1>9. Path(<<st>>, k, m, L, q)
      BY <1>8, PathOne
<1> QED BY <1>9 DEF st, k, m, Result

\* A kernel that sums terms has a certificate.
LEMMA TreeSumCertified ==
    ASSUME NEW n, PowerOfTwo(n), NEW arrs, NEW partial, NEW items,
           NEW Q, Disjoint(Q, n), AreSums(partial, Q, n),
           items = UnionOf(Q, n)
    PROVE  \E K, L : Certificate(TreeSum(arrs, n, partial, items), K, L)
<1> DEFINE q == TreeSum(arrs, n, partial, items)
           L == [l \in {} |-> 0]
           cells == [t \in Ids(n) |-> IF t = 0 THEN arrs \X {0} ELSE {}]
           tree == Tree({}, arrs, n, partial, {0})
           k == At({}, {}, TRUE, "none")
           h == Left(arrs, Q, n, 1, TRUE, "none")
           m == At(arrs, {}, TRUE, "none")
<1>1. n \in Nat \ {0} /\ "none" \in Plain
      BY DEF PowerOfTwo, Plain
<1>2. /\ q.n = n /\ q.powers = 1 /\ q.want = Totals(arrs, UnionOf(Q, n))
      /\ q.body = tree \o Result(cells)
      BY DEF TreeSum
<1>3. \A t \in Ids(n) : cells[t] \subseteq arrs \X {0}
      OBVIOUS
<1>4. k.open = {} /\ k.shut = {} /\ k.rep = "none" /\ DOMAIN k.has = {}
  <2>1. {} \X Nat = {}
        OBVIOUS
  <2> QED BY <2>1 DEF At, Know, None
<1> HIDE DEF q, cells, tree
<1>5. Path(tree, k, h, L, q)
  <2> HIDE DEF L
  <2> QED BY <1>1, <1>2, TreePath DEF tree
<1>6. Path(Result(cells), h, m, L, q)
  <2> HIDE DEF L
  <2> QED BY <1>1, <1>2, <1>3, ResultPath
<1>7. \A l \in DOMAIN L : Defines(q.body, l)
      OBVIOUS
<1> HIDE DEF k, h, m, L
<1>8. Path(tree \o Result(cells), k, m, L, q)
      BY <1>5, <1>6, PathCat
<1>9. \E K, M : Certificate(q, K, M)
      BY <1>1, <1>2, <1>4, <1>7, <1>8, PathCertifies DEF Fresh
<1> QED BY <1>9 DEF q

-----------------------------------------------------------------------------
(* What the threads of a block start with.                                   *)

StridedStep(n, f, t, before, i) ==
    IF i = 0 THEN EmptyBag
    ELSE IF (i - 1) % n = t THEN before[i - 1] (+) f[i - 1]
    ELSE before[i - 1]

\* The terms among the first i that thread t adds up, when F[j] are those of
\* the j-th.
Striding(n, F, t, i) == UNION {F[j] : j \in {j \in Ids(i) : j % n = t}}

\* Every thread adds up its own terms, each once.
LEMMA StridedSums ==
    ASSUME NEW n \in Nat \ {0}, NEW count_ \in Nat, NEW f, NEW F, Disjoint(F, count_),
           AreSums(f, F, count_), NEW t \in Ids(n)
    PROVE  Strided(n, count_, f)[t] = SetToBag(Striding(n, F, t, count_) \X {0})
<1> DEFINE V == [i \in 0 .. count_ |-> SetToBag(Striding(n, F, t, i) \X {0})]
           before == CHOOSE g : g = [i \in 0 .. count_ |-> StridedStep(n, f, t, g, i)]
<1>1. ASSUME NEW i \in 1 .. count_
      PROVE  V[i] = IF (i - 1) % n = t THEN V[i - 1] (+) f[i - 1] ELSE V[i - 1]
  <2> DEFINE A == Striding(n, F, t, i - 1)
  <2>1. /\ i - 1 \in Ids(count_) /\ i - 1 \in 0 .. count_ /\ i \in 0 .. count_
        /\ Ids(i - 1) \subseteq Ids(count_) /\ i - 1 \notin Ids(i - 1)
        /\ Ids(i) = Ids(i - 1) \cup {i - 1}
        BY DEF Ids
  <2>2. V[i] = SetToBag(Striding(n, F, t, i) \X {0}) /\ V[i - 1] = SetToBag(A \X {0})
        BY <2>1
  <2>3. CASE (i - 1) % n = t
    <3>1. {j \in Ids(i) : j % n = t} = {j \in Ids(i - 1) : j % n = t} \cup {i - 1}
          BY <2>1, <2>3
    <3>2. Striding(n, F, t, i) = A \cup F[i - 1]
          BY <3>1 DEF Striding
    <3>3. A \cap F[i - 1] = {}
          BY <2>1 DEF Disjoint, Striding
    <3> HIDE DEF A, V
    <3>4. (A \X {0}) \cap (F[i - 1] \X {0}) = {}
          BY <3>3
    <3>5. SetToBag(A \X {0}) (+) SetToBag(F[i - 1] \X {0}) = SetToBag((A \X {0}) \cup (F[i - 1] \X {0}))
          BY <3>4, AddBags
    <3>6. (A \X {0}) \cup (F[i - 1] \X {0}) = (A \cup F[i - 1]) \X {0}
          OBVIOUS
    <3>7. f[i - 1] = SetToBag(F[i - 1] \X {0})
          BY <2>1 DEF AreSums
    <3> QED BY <2>2, <2>3, <3>2, <3>5, <3>6, <3>7
  <2>4. CASE (i - 1) % n # t
    <3>1. {j \in Ids(i) : j % n = t} = {j \in Ids(i - 1) : j % n = t}
          BY <2>1, <2>4
    <3>2. Striding(n, F, t, i) = A
          BY <3>1 DEF Striding
    <3> HIDE DEF A, V
    <3> QED BY <2>2, <2>4, <3>2
  <2> QED BY <2>3, <2>4
<1>2. V[0] = EmptyBag
  <2>1. Ids(0) = {} /\ 0 \in 0 .. count_
        BY DEF Ids
  <2>2. Striding(n, F, t, 0) = {}
        BY <2>1 DEF Striding
  <2>3. {} \X {0} = {}
        OBVIOUS
  <2> QED BY <2>1, <2>2, <2>3 DEF EmptyBag
<1>3. V = [i \in 0 .. count_ |-> V[i]]
      OBVIOUS
<1>4. V[count_] = SetToBag(Striding(n, F, t, count_) \X {0})
      OBVIOUS
<1> HIDE DEF V
<1>5. \E g : g = [i \in 0 .. count_ |-> StridedStep(n, f, t, g, i)]
  <2>1. ASSUME NEW i \in 0 .. count_ PROVE V[i] = StridedStep(n, f, t, V, i)
    <3>1. CASE i = 0
          BY <1>2, <3>1 DEF StridedStep
    <3>2. CASE i # 0
      <4>1. i \in 1 .. count_
            BY <3>2
      <4> QED BY <1>1, <3>2, <4>1, Zenon DEF StridedStep
    <3> QED BY <3>1, <3>2
  <2>2. V = [i \in 0 .. count_ |-> StridedStep(n, f, t, V, i)]
        BY <1>3, <2>1
  <2> QED BY <2>2
<1>6. Strided(n, count_, f)[t] = before[count_]
      BY DEF Strided, StridedStep
<1>7. before = [i \in 0 .. count_ |-> StridedStep(n, f, t, before, i)]
      BY <1>5, Zenon
<1> HIDE DEF before
<1>8. \A i \in 0 .. count_ : before[i] = StridedStep(n, f, t, before, i)
      BY <1>7, Zenon
<1> DEFINE D == {i \in Nat : i <= count_ => before[i] = V[i]}
<1>9. ASSUME NEW i \in Nat, \A j \in 0 .. i - 1 : j \in D PROVE i \in D
  <2> SUFFICES ASSUME i <= count_ PROVE before[i] = V[i]
      OBVIOUS
  <2>1. i \in 0 .. count_
        OBVIOUS
  <2>2. before[i] = StridedStep(n, f, t, before, i)
        BY <1>8, <2>1
  <2>3. CASE i = 0
        BY <1>2, <2>2, <2>3 DEF StridedStep
  <2>4. CASE i # 0
    <3>1. i \in 1 .. count_ /\ i - 1 \in 0 .. i - 1 /\ i - 1 <= count_
          BY <2>4
    <3>2. before[i - 1] = V[i - 1]
          BY <1>9, <3>1
    <3>3. V[i] = IF (i - 1) % n = t THEN V[i - 1] (+) f[i - 1] ELSE V[i - 1]
          BY <1>1, <3>1
    <3>4. before[i] = IF (i - 1) % n = t THEN before[i - 1] (+) f[i - 1] ELSE before[i - 1]
          BY <2>2, <2>4, Zenon DEF StridedStep
    <3> QED BY <3>2, <3>3, <3>4
  <2> QED BY <2>3, <2>4
<1> HIDE DEF D
<1>10. count_ \in D
      BY <1>9, Induct
<1> QED BY <1>4, <1>6, <1>10 DEF D

\* A block that strides over sums of different terms ends with their sum.
LEMMA StridedCertified ==
    ASSUME NEW n, PowerOfTwo(n), NEW count_ \in Nat, NEW f, NEW F, Disjoint(F, count_),
           AreSums(f, F, count_), NEW arrs, NEW items,
           items = UnionOf(F, count_)
    PROVE  \E K, L : Certificate(TreeSum(arrs, n, Strided(n, count_, f), items), K, L)
<1> DEFINE Q == [t \in Ids(n) |-> Striding(n, F, t, count_)]
           partial == Strided(n, count_, f)
<1>1. n \in Nat \ {0}
      BY DEF PowerOfTwo
<1>2. AreSums(partial, Q, n)
  <2>1. ASSUME NEW t \in Ids(n) PROVE partial[t] = SetToBag(Q[t] \X {0})
    <3>1. Q[t] = Striding(n, F, t, count_)
          OBVIOUS
    <3>2. Strided(n, count_, f)[t] = SetToBag(Striding(n, F, t, count_) \X {0})
          BY <1>1, StridedSums
    <3> QED BY <3>1, <3>2
  <2> QED BY <2>1 DEF AreSums
<1> HIDE DEF partial
<1>3. Disjoint(Q, n)
  <2>1. ASSUME NEW t \in Ids(n), NEW u \in Ids(n), t # u, NEW x \in Q[t], x \in Q[u] PROVE FALSE
    <3>1. PICK i \in Ids(count_) : i % n = t /\ x \in F[i]
          BY <2>1 DEF Striding
    <3>2. PICK j \in Ids(count_) : j % n = u /\ x \in F[j]
          BY <2>1 DEF Striding
    <3> QED BY <2>1, <3>1, <3>2 DEF Disjoint
  <2> HIDE DEF Q
  <2> QED BY <2>1 DEF Disjoint
<1>4. items = UnionOf(Q, n)
  <2>1. ASSUME NEW i \in Ids(count_) PROVE i % n \in Ids(n) /\ F[i] \subseteq Q[i % n]
    <3>1. i % n \in Ids(n)
          BY <1>1 DEF Ids
    <3> QED BY <3>1 DEF Striding
  <2>2. ASSUME NEW t \in Ids(n), NEW x \in Q[t] PROVE \E i \in Ids(count_) : x \in F[i]
        BY DEF Striding
  <2> HIDE DEF Q
  <2> QED BY <2>1, <2>2 DEF UnionOf
<1> HIDE DEF Q
<1>5. \E K, L : Certificate(TreeSum(arrs, n, partial, items), K, L)
      BY <1>2, <1>3, <1>4, TreeSumCertified
<1> QED BY <1>5 DEF partial

\* The terms of block b of a grid, and of a thread of it.
GridTerms(b, blocks, n, terms) ==
    [t \in Ids(n) |-> {i \in Ids(terms) : i % (blocks * n) = b * n + t}]
BlockSet(b, blocks, n, terms) == UnionOf(GridTerms(b, blocks, n, terms), n)

\* What the threads of a block add up over a grid's terms are shares of the block's.
LEMMA GridFacts ==
    ASSUME NEW n \in Nat \ {0}, NEW b \in Nat, NEW blocks, NEW terms
    PROVE  /\ AreSums(GridStrided(b, blocks, n, terms), GridTerms(b, blocks, n, terms), n)
           /\ Disjoint(GridTerms(b, blocks, n, terms), n)
           /\ BlockTerms(b, blocks, n, terms) = BlockSet(b, blocks, n, terms) \X {0}
<1> DEFINE Q == GridTerms(b, blocks, n, terms)
           G == GridStrided(b, blocks, n, terms)
<1>1. \A t \in Ids(n) : G[t] = SetToBag(Q[t] \X {0})
      BY DEF GridStrided, GridTerms
<1>2. Disjoint(Q, n)
  <2>1. ASSUME NEW t \in Ids(n), NEW u \in Ids(n), b * n + t = b * n + u PROVE t = u
    <3>1. b * n \in Int /\ t \in Int /\ u \in Int
          BY DEF Ids
    <3> DEFINE p == b * n
    <3> HIDE DEF p
    <3> QED BY <2>1, <3>1 DEF p
  <2> QED BY <2>1, Zenon DEF Disjoint, GridTerms
<1>3. \A t \in Ids(n) : BagToSet(G[t]) = Q[t] \X {0}
      BY <1>1 DEF BagToSet, SetToBag
<1> HIDE DEF Q, G
<1>4. UNION {BagToSet(G[t]) : t \in Ids(n)} = UnionOf(Q, n) \X {0}
      BY <1>3 DEF UnionOf
<1> QED BY <1>1, <1>2, <1>4 DEF Q, G, BlockTerms, BlockSet, AreSums

\* The kernels that sum over a grid.
LEMMA GridCertified ==
    ASSUME NEW n, PowerOfTwo(n), NEW b \in Nat, NEW blocks, NEW terms
    PROVE  \E K, L : Certificate(GridSum(b, blocks, n, terms), K, L)
<1> DEFINE Q == GridTerms(b, blocks, n, terms)
           G == GridStrided(b, blocks, n, terms)
           S == BlockSet(b, blocks, n, terms)
           items == {i[1] : i \in BlockTerms(b, blocks, n, terms)}
<1>1. n \in Nat \ {0}
      BY DEF PowerOfTwo
<1>2. AreSums(G, Q, n) /\ Disjoint(Q, n) /\ BlockTerms(b, blocks, n, terms) = S \X {0}
      BY <1>1, GridFacts
<1>3. S = UnionOf(Q, n)
      BY DEF BlockSet
<1> HIDE DEF Q, G, S
<1>4. items = S
  <2>1. ASSUME NEW x \in S PROVE x \in {i[1] : i \in S \X {0}}
    <3>1. <<x, 0>> \in S \X {0} /\ <<x, 0>>[1] = x
          OBVIOUS
    <3> QED BY <3>1
  <2> QED BY <1>2, <2>1
<1> HIDE DEF items
<1>5. \E K, L : Certificate(TreeSum({"sdata"}, n, G, items), K, L)
      BY <1>2, <1>3, <1>4, TreeSumCertified
<1> QED BY <1>5 DEF GridSum, G, items

\* The blocks of a grid have every term between them, each once.
BlockSets(blocks, n, terms) == [b \in Ids(blocks) |-> BlockSet(b, blocks, n, terms)]

\* The blocks of a grid share its terms, each in one block.
LEMMA BlocksShare ==
    ASSUME NEW n \in Nat \ {0}, NEW blocks \in Nat \ {0}, NEW terms \in Nat
    PROVE  /\ Disjoint(BlockSets(blocks, n, terms), blocks)
           /\ UnionOf(BlockSets(blocks, n, terms), blocks) = Ids(terms)
<1> DEFINE w == blocks * n
           F == BlockSets(blocks, n, terms)
<1>1. w \in Nat \ {0}
      OBVIOUS
<1>2. ASSUME NEW b \in Ids(blocks), NEW i \in BlockSet(b, blocks, n, terms)
      PROVE  i \in Ids(terms) /\ (i % w) \div n = b
  <2>1. PICK t \in Ids(n) : i \in Ids(terms) /\ i % w = b * n + t
        BY DEF BlockSet, GridTerms, UnionOf
  <2>2. b \in Int /\ t \in 0 .. n - 1
        BY DEF Ids
  <2> QED BY <2>1, <2>2, DivMod
<1>3. ASSUME NEW i \in Ids(terms)
      PROVE  \E b \in Ids(blocks) : i \in BlockSet(b, blocks, n, terms)
  <2> DEFINE r == i % w
             b == r \div n
             t == r % n
  <2>1. i \in Int
        BY DEF Ids
  <2>2. r \in 0 .. w - 1
        BY <1>1, <2>1
  <2>3. r = b * n + t /\ b \in Int /\ t \in 0 .. n - 1
    <3>1. r \in Int
          BY <2>2
    <3> HIDE DEF r
    <3> QED BY <3>1, DivModExist
  <2>4. b \in 0 .. blocks - 1
    <3> HIDE DEF b, t, r
    <3>1. b >= 0
          BY <2>2, <2>3
    <3>2. b < blocks
      <4> SUFFICES ASSUME b >= blocks PROVE FALSE
          BY <2>3
      <4>1. b * n >= blocks * n
            BY <2>3
      <4>2. r >= w
            BY <2>3, <4>1
      <4> QED BY <2>2, <4>2
    <3> QED BY <2>3, <3>1, <3>2
  <2> HIDE DEF b, t
  <2>5. b \in Ids(blocks) /\ t \in Ids(n)
        BY <2>3, <2>4 DEF Ids
  <2>6. i \in GridTerms(b, blocks, n, terms)[t]
        BY <2>3, <2>5 DEF GridTerms
  <2> QED BY <2>5, <2>6 DEF BlockSet, UnionOf
<1>4. \A b \in Ids(blocks) : F[b] = BlockSet(b, blocks, n, terms)
      BY DEF BlockSets
<1> HIDE DEF w, F
<1>5. Disjoint(F, blocks)
      BY <1>2, <1>4 DEF Disjoint
<1>6. UnionOf(F, blocks) = Ids(terms)
      BY <1>2, <1>3, <1>4 DEF UnionOf
<1> QED BY <1>5, <1>6 DEF F

\* The kernel that folds the blocks of a grid.
LEMMA PartialsCertified ==
    ASSUME NEW n, PowerOfTwo(n), NEW blocks \in Nat \ {0}, NEW terms \in Nat
    PROVE  \E K, L : Certificate(reduce_partials_kernel(blocks, n, terms), K, L)
<1> DEFINE F == BlockSets(blocks, n, terms)
           f == [b \in Ids(blocks) |-> SetToBag(BlockTerms(b, blocks, n, terms))]
<1>1. n \in Nat \ {0}
      BY DEF PowerOfTwo
<1>2. AreSums(f, F, blocks)
  <2>1. ASSUME NEW b \in Ids(blocks) PROVE f[b] = SetToBag(F[b] \X {0})
    <3>1. b \in Nat
          BY DEF Ids
    <3>2. BlockTerms(b, blocks, n, terms) = BlockSet(b, blocks, n, terms) \X {0}
          BY <1>1, <3>1, GridFacts
    <3> QED BY <3>2 DEF BlockSets
  <2> QED BY <2>1 DEF AreSums
<1>3. Disjoint(F, blocks) /\ UnionOf(F, blocks) = Ids(terms)
      BY <1>1, BlocksShare
<1> HIDE DEF F, f
<1>4. \E K, L : Certificate(TreeSum({"sdata"}, n, Strided(n, blocks, f), Ids(terms)), K, L)
      BY <1>2, <1>3, StridedCertified
<1> QED BY <1>4 DEF reduce_partials_kernel, f

\* The segments of an option have every path between them, each once.
LEMMA SegmentIs ==
    ASSUME NEW paths \in Nat, NEW seg \in Nat, NEW p \in Int
    PROVE  p \in Segment(seg, paths) <=> p \in Ids(paths) /\ p \div SegPaths = seg
<1> DEFINE a == seg * SegPaths
           b == (seg + 1) * SegPaths
           m == Min({b, paths})
<1>1. SegPaths \in Nat \ {0} /\ a \in Nat /\ b \in Nat /\ b = a + SegPaths
      BY BlockAssumption
<1>2. m = IF b <= paths THEN b ELSE paths
      BY <1>1 DEF Min
<1>3. Segment(seg, paths) = a .. m - 1
      BY DEF Segment
<1>4. p \div SegPaths = seg <=> p \in a .. b - 1
  <2>1. ASSUME p \in a .. b - 1 PROVE p \div SegPaths = seg
    <3>1. p - a \in 0 .. SegPaths - 1 /\ seg \in Int
          BY <1>1, <2>1
    <3>2. (seg * SegPaths + (p - a)) \div SegPaths = seg
      <4> DEFINE r == p - a
      <4> HIDE DEF r, a
      <4>1. (seg * SegPaths + r) \div SegPaths = seg
            BY <1>1, <3>1, DivMod DEF r
      <4> QED BY <4>1 DEF r
    <3>3. seg * SegPaths + (p - a) = p
          BY <1>1
    <3> QED BY <3>2, <3>3
  <2>2. ASSUME p \div SegPaths = seg PROVE p \in a .. b - 1
    <3>1. p = (p \div SegPaths) * SegPaths + (p % SegPaths) /\ p % SegPaths \in 0 .. SegPaths - 1
          BY <1>1, DivModExist
    <3>2. p = a + (p % SegPaths)
          BY <2>2, <3>1
    <3> QED BY <1>1, <3>1, <3>2
  <2> QED BY <2>1, <2>2
<1> HIDE DEF a, b, m
<1> QED BY <1>1, <1>2, <1>3, <1>4 DEF Ids

Segments(paths, opt) == [i \in Ids(Nseg(paths)) |-> {opt} \X Segment(i, paths)]

\* The segments of an option share its paths, each in one segment.
LEMMA SegmentsShare ==
    ASSUME NEW paths \in Nat, NEW opt
    PROVE  /\ Nseg(paths) \in Nat
           /\ Disjoint(Segments(paths, opt), Nseg(paths))
           /\ UnionOf(Segments(paths, opt), Nseg(paths)) = {opt} \X Ids(paths)
<1> DEFINE N == Nseg(paths)
           a == paths + SegPaths - 1
<1>1. SegPaths \in Nat \ {0} /\ a \in Nat
      BY BlockAssumption
<1>2. N = a \div SegPaths
      BY DEF Nseg
<1> HIDE DEF N, a
<1>3. /\ a = N * SegPaths + (a % SegPaths) /\ a % SegPaths \in 0 .. SegPaths - 1 /\ N \in Int
      BY <1>1, <1>2, DivModExist
<1>4. N \in Nat
      BY <1>1, <1>2
<1>5. Ids(N) \subseteq Nat
      BY DEF Ids
<1>6. \A i : Segment(i, paths) \subseteq Int
  <2> SUFFICES ASSUME NEW i PROVE Segment(i, paths) \subseteq Int
      OBVIOUS
  <2> QED BY DEF Segment
<1>7. ASSUME NEW p \in Ids(paths) PROVE p \div SegPaths \in Ids(N) /\ p \in Segment(p \div SegPaths, paths)
  <2> DEFINE s == p \div SegPaths
  <2>1. p \in 0 .. paths - 1
        BY DEF Ids
  <2>2. /\ p = s * SegPaths + (p % SegPaths) /\ p % SegPaths \in 0 .. SegPaths - 1 /\ s \in Int
        BY <1>1, <2>1, DivModExist
  <2>3. s \in Nat
        BY <1>1, <2>1
  <2> HIDE DEF s
  <2>4. s < N
    <3> SUFFICES ASSUME s >= N PROVE FALSE
        BY <1>4, <2>3
    <3>1. s * SegPaths >= N * SegPaths
          BY <1>1, <1>4, <2>3
    <3>2. s * SegPaths \in Int /\ N * SegPaths \in Int
          BY <1>1, <1>4, <2>3
    <3> DEFINE S == s * SegPaths
               T == N * SegPaths
    <3> HIDE DEF S, T
    <3>3. S >= T /\ S \in Int /\ T \in Int /\ p = S + (p % SegPaths) /\ a = T + (a % SegPaths)
          BY <1>3, <2>2, <3>1, <3>2 DEF S, T
    <3>4. p >= S /\ a <= T + SegPaths - 1 /\ p <= paths - 1
          BY <1>1, <1>3, <2>1, <2>2, <3>3
    <3>5. a = paths + SegPaths - 1
          BY DEF a
    <3> QED BY <1>1, <2>1, <3>3, <3>4, <3>5
  <2>5. s \in Ids(N)
        BY <1>4, <2>3, <2>4 DEF Ids
  <2>6. p \in Segment(s, paths)
        BY <2>1, <2>3, SegmentIs DEF s
  <2> QED BY <2>5, <2>6 DEF s
<1>8. ASSUME NEW i \in Ids(N), NEW p \in Segment(i, paths) PROVE p \in Ids(paths) /\ p \div SegPaths = i
      BY <1>5, <1>6, SegmentIs
<1>9. \A i \in Ids(N) : Segments(paths, opt)[i] = {opt} \X Segment(i, paths)
      BY DEF Segments, N
<1>10. Disjoint(Segments(paths, opt), N)
  <2>1. ASSUME NEW i \in Ids(N), NEW j \in Ids(N), NEW x \in {opt} \X Segment(i, paths),
               x \in {opt} \X Segment(j, paths)
        PROVE  i = j
        BY <1>8, <2>1
  <2> QED BY <1>9, <2>1 DEF Disjoint
<1>11. UnionOf(Segments(paths, opt), N) = {opt} \X Ids(paths)
  <2>1. ASSUME NEW x \in {opt} \X Ids(paths) PROVE \E i \in Ids(N) : x \in Segments(paths, opt)[i]
    <3>1. PICK p \in Ids(paths) : x = <<opt, p>>
          OBVIOUS
    <3> QED BY <1>7, <1>9, <3>1
  <2>2. ASSUME NEW i \in Ids(N), NEW x \in Segments(paths, opt)[i] PROVE x \in {opt} \X Ids(paths)
    <3>1. PICK p \in Segment(i, paths) : x = <<opt, p>>
          BY <1>9
    <3> QED BY <1>8, <3>1
  <2> QED BY <2>1, <2>2 DEF UnionOf
<1> QED BY <1>4, <1>10, <1>11 DEF N

\* The kernels that sum the segments of an option.
LEMMA SegmentCertified ==
    ASSUME NEW arrs, NEW n, PowerOfTwo(n), NEW opts \in Nat, NEW opt \in Ids(opts), NEW paths \in Nat
    PROVE  \E K, L : Certificate(SegmentSum(arrs, opt, n, paths, mc_segment_kernel(opts, paths)), K, L)
<1> DEFINE N == Nseg(paths)
           psum == mc_segment_kernel(opts, paths)
           F == Segments(paths, opt)
           f == [i \in Ids(N) |-> psum[opt * N + i]]
<1>1. N \in Nat /\ Disjoint(F, N) /\ UnionOf(F, N) = {opt} \X Ids(paths)
      BY SegmentsShare
<1>2. psum = [idx \in Ids(opts * N) |->
                  SetToBag({<<<<idx \div N, p>>, 0>> : p \in Segment(idx - (idx \div N) * N, paths)})]
      BY DEF mc_segment_kernel
<1> HIDE DEF N, psum
<1>3. ASSUME NEW i \in Ids(N) PROVE f[i] = SetToBag(F[i] \X {0})
  <2> DEFINE idx == opt * N + i
  <2>1. i \in 0 .. N - 1 /\ opt \in 0 .. opts - 1 /\ opt \in Int /\ N \in Nat \ {0}
        BY <1>1 DEF Ids
  <2>2. idx \div N = opt
        BY <2>1, DivMod
  <2>3. opt * N \in Int /\ opt * N >= 0 /\ opts * N = opt * N + (opts - opt) * N /\ (opts - opt) * N >= N
    <3>1. \E d \in Nat : opts - opt = d + 1
      <4>1. opts - opt - 1 \in Nat /\ opts - opt = (opts - opt - 1) + 1
            BY <2>1
      <4> QED BY <4>1
    <3>2. PICK d \in Nat : opts - opt = d + 1
          BY <3>1
    <3>3. (d + 1) * N >= N
          BY <2>1
    <3>4. opts = opt + (d + 1)
          BY <2>1, <3>2
    <3>5. (opt + (d + 1)) * N = opt * N + (d + 1) * N
          BY <2>1
    <3> QED BY <2>1, <3>2, <3>3, <3>4, <3>5
  <2>4. idx \in Ids(opts * N)
    <3> DEFINE x == opt * N
               y == (opts - opt) * N
    <3>1. x \in Int /\ x >= 0 /\ opts * N = x + y /\ y >= N /\ y \in Int
          BY <2>1, <2>3
    <3> HIDE DEF x, y
    <3>2. x + i \in 0 .. (x + y) - 1
          BY <2>1, <3>1
    <3> QED BY <3>1, <3>2 DEF Ids, x
  <2>5. idx - (idx \div N) * N = i
    <3> DEFINE x == opt * N
    <3>1. x \in Int
          BY <2>3
    <3> HIDE DEF x
    <3>2. (x + i) - x = i
          BY <2>1, <3>1
    <3> QED BY <2>2, <3>2 DEF x
  <2> HIDE DEF idx
  <2>6. psum[idx] = SetToBag({<<<<opt, p>>, 0>> : p \in Segment(i, paths)})
        BY <1>2, <2>2, <2>4, <2>5
  <2>7. {<<<<opt, p>>, 0>> : p \in Segment(i, paths)} = ({opt} \X Segment(i, paths)) \X {0}
        OBVIOUS
  <2>8. f[i] = psum[idx]
        BY DEF idx
  <2>9. F[i] = {opt} \X Segment(i, paths)
        BY DEF Segments, N
  <2> QED BY <2>6, <2>7, <2>8, <2>9
<1>4. AreSums(f, F, N)
      BY <1>3 DEF AreSums
<1> DEFINE items == {opt} \X Ids(paths)
<1> HIDE DEF F, f, items
<1>5. items = UnionOf(F, N)
      BY <1>1 DEF items
<1>6. \E K, L : Certificate(TreeSum(arrs, n, Strided(n, N, f), items), K, L)
      BY <1>1, <1>4, <1>5, StridedCertified
<1> QED BY <1>6 DEF SegmentSum, N, f, psum, items

-----------------------------------------------------------------------------
(* The solvers.  One lemma for each statement: what is known of arrays after  *)
(* it, from what was known before.                                           *)

Fits(X, W, Y, Z) == X \subseteq Y /\ W \subseteq Z /\ Y \cap Z = {}

\* A statement may add to the arrays touched those it touches itself.
LEMMA AtGrows ==
    ASSUME NEW X, NEW W, NEW Y, NEW Z, Fits(X, W, Y, Z), NEW live, NEW live2, live2 => live, NEW rep, NEW rep2,
           NEW reads, NEW writes, reads \subseteq Y \X Nat, writes \subseteq Z \X Nat
    PROVE  /\ Grows(At(X, W, live, rep), At(Y, Z, live2, rep2), reads, writes)
           /\ Keeps(At(X, W, live, rep), At(Y, Z, live2, rep2))
           /\ Quiet(At(X, W, live, rep), At(Y, Z, live2, rep2), reads, writes)
<1> DEFINE k == At(X, W, live, rep)
           m == At(Y, Z, live2, rep2)
<1>1. k.open = X \X Nat /\ k.shut = W \X Nat /\ k.live = live /\ k.owner = None
      BY AtFields
<1>2. /\ m.open = Y \X Nat /\ m.shut = Z \X Nat /\ m.live = live2 /\ m.owner = None /\ DOMAIN m.has = {}
      BY AtFields
<1> HIDE DEF k, m
<1>3. m.open \cap m.shut = {}
      BY <1>2 DEF Fits
<1>4. k.open \cup reads \subseteq m.open /\ k.shut \cup writes \subseteq m.shut
      BY <1>1, <1>2 DEF Fits
<1>5. Grows(k, m, reads, writes) /\ Keeps(k, m)
      BY <1>1, <1>2, <1>3, <1>4 DEF Grows, Keeps
<1> QED BY <1>1, <1>2, <1>5 DEF Quiet, k, m

\* A barrier ends what is open and shut.
LEMMA AtBar ==
    ASSUME NEW L, NEW q, NEW X, NEW W, NEW live, NEW rep
    PROVE  Path(Bar, At(X, W, live, rep), At({}, {}, live, rep), L, q)
<1> DEFINE k == At(X, W, live, rep)
           m == At({}, {}, live, rep)
<1>1. k.live = live /\ k.rep = rep
      BY AtFields
<1>2. m.open = {} \X Nat /\ m.live = live /\ m.rep = rep /\ DOMAIN m.has = {}
      BY AtFields
<1> HIDE DEF k, m
<1>3. m.open \cap m.shut = {}
      BY <1>2
<1>4. BarFlow(k, m, q)
      BY <1>1, <1>2, <1>3 DEF BarFlow, Keeps, Same
<1> QED BY <1>4, BarPath DEF k, m

\* Every thread works on arrays.
LEMMA DoPath ==
    ASSUME NEW L, NEW q, q.n \in Nat, NEW own, NEW all, NEW w, NEW X, NEW W, NEW Y, NEW Z,
           Fits(X \cup all, W \cup w, Y, Z), NEW live, NEW rep
    PROVE  Path(Do(own, all, w), At(X, W, live, rep), At(Y, Z, live, rep), L, q)
<1> DEFINE st == [op |-> "do", own |-> own, all |-> all, w |-> w]
           k == At(X, W, live, rep)
           m == At(Y, Z, live, rep)
<1>1. all \X Ids(q.n) \subseteq Y \X Nat /\ w \X Ids(q.n) \subseteq Z \X Nat /\ Fits(X, W, Y, Z)
      BY DEF Fits, Ids
<1>2. Quiet(k, m, all \X Ids(q.n), w \X Ids(q.n))
      BY <1>1, AtGrows
<1>3. k.rep = rep /\ m.rep = rep /\ \A c : Owner(m, c) = c[2]
      BY AtFields
<1> HIDE DEF k, m
<1>4. DoFlow(st, k, m, q)
      BY <1>2, <1>3 DEF DoFlow, Same, Own
<1> HIDE DEF st
<1>5. Flow(st, k, m, L, q)
      BY <1>4 DEF Flow, st
<1>6. Path(<<st>>, k, m, L, q)
      BY <1>5, PathOne
<1> QED BY <1>6 DEF st, k, m, Do

\* Thread 0 stores a word: reg is its own from here.
LEMMA PublishPath ==
    ASSUME NEW L, NEW q, q.n \in Nat, NEW c \in Words, NEW vals, NEW words, NEW all,
           NEW X, NEW W, NEW Y, NEW Z, Fits(X \cup all, W \cup {c}, Y, Z), NEW live, NEW rep, NEW rep2,
           \/ rep \in Plain /\ rep2 = rep
           \/ rep = "before" /\ rep2 = "decided" /\ c = "status" /\ vals \subseteq {0, 2}
    PROVE  Path(Publish(c, vals, words, all), At(X, W, live, rep), At(Y, Z, FALSE, rep2), L, q)
<1> DEFINE st == [op |-> "publish", cell |-> c, vals |-> vals, words |-> words, all |-> all]
           k == At(X, W, live, rep)
           m == At(Y, Z, FALSE, rep2)
<1>1. all \X Ids(q.n) \subseteq Y \X Nat /\ {} \subseteq Z \X Nat /\ Fits(X, W, Y, Z) /\ c \in Z
      BY DEF Fits, Ids
<1>2. Grows(k, m, all \X Ids(q.n), {}) /\ Keeps(k, m)
      BY <1>1, AtGrows
<1>3. k.rep = rep /\ m.rep = rep2 /\ m.shut = Z \X Nat /\ m.live = FALSE /\ \A d : Owner(m, d) = d[2]
      BY DEF At, Know, Owner, None
<1> HIDE DEF k, m
<1>4. Alone(m, words, Word(c))
      BY <1>1, <1>3 DEF Alone, Word
<1>5. PublishFlow(st, k, m, q)
      BY <1>2, <1>3, <1>4 DEF PublishFlow, SamePlain
<1> HIDE DEF st
<1>6. Flow(st, k, m, L, q)
      BY <1>5 DEF Flow, st
<1>7. Path(<<st>>, k, m, L, q)
      BY <1>6, PathOne
<1> QED BY <1>7 DEF st, k, m, Publish

\* Every thread reads a word: reg is the same for all from here.
LEMMA ReadPath ==
    ASSUME NEW L, NEW q, NEW c \in Words, NEW X, NEW W, NEW Y, NEW Z, Fits(X \cup {c}, W, Y, Z),
           NEW live, NEW rep, NEW rep2,
           \/ rep \in Plain /\ rep2 = rep
           \/ rep = "status" /\ rep2 = "reg" /\ c = "status"
    PROVE  Path(Read(c), At(X, W, live, rep), At(Y, Z, TRUE, rep2), L, q)
<1> DEFINE st == [op |-> "read", cell |-> c]
           k == At(X, W, live, rep)
           m == At(Y, Z, TRUE, rep2)
<1>1. Word(c) \subseteq Y \X Nat /\ {} \subseteq Z \X Nat /\ Fits(X, W, Y, Z)
      BY DEF Fits, Word
<1>2. Grows(k, m, Word(c), {}) /\ Keeps(k, m)
  <2>1. Grows(At(X, W, TRUE, rep), m, Word(c), {}) /\ Keeps(At(X, W, TRUE, rep), m)
        BY <1>1, AtGrows
  <2> QED BY <2>1 DEF Grows, Keeps, At, Know
<1>3. k.rep = rep /\ m.rep = rep2
      BY DEF At, Know, None
<1> HIDE DEF k, m
<1>4. ReadFlow(st, k, m)
      BY <1>2, <1>3 DEF ReadFlow, SamePlain
<1> HIDE DEF st
<1>5. Flow(st, k, m, L, q)
      BY <1>4 DEF Flow, st
<1>6. Path(<<st>>, k, m, L, q)
      BY <1>5, PathOne
<1> QED BY <1>6 DEF st, k, m, Read

\* A comparison of two words that are not being written.
LEMMA ComparePath ==
    ASSUME NEW L, NEW q, NEW c \in Words, NEW d \in Words, NEW X, NEW W, NEW Y, NEW Z, Fits(X \cup {c, d}, W, Y, Z),
           NEW live, NEW rep \in Plain
    PROVE  Path(Compare(c, d), At(X, W, live, rep), At(Y, Z, TRUE, rep), L, q)
<1> DEFINE st == [op |-> "compare", left |-> c, right |-> d]
           k == At(X, W, live, rep)
           m == At(Y, Z, TRUE, rep)
           both == Word(c) \cup Word(d)
<1>1. both \subseteq Y \X Nat /\ {} \subseteq Z \X Nat /\ Fits(X, W, Y, Z)
      BY DEF Fits, Word
<1>2. Grows(k, m, both, {}) /\ Keeps(k, m)
  <2> HIDE DEF both
  <2>1. Grows(At(X, W, TRUE, rep), m, both, {}) /\ Keeps(At(X, W, TRUE, rep), m)
        BY <1>1, AtGrows
  <2> QED BY <2>1 DEF Grows, Keeps, At, Know
<1>3. k.rep = rep /\ m.rep = rep
      BY DEF At, Know, None
<1> HIDE DEF k, m
<1>4. CompareFlow(st, k, m)
      BY <1>2, <1>3 DEF CompareFlow, SamePlain
<1> HIDE DEF st
<1>5. Flow(st, k, m, L, q)
      BY <1>4 DEF Flow, st
<1>6. Path(<<st>>, k, m, L, q)
      BY <1>5, PathOne
<1> QED BY <1>6 DEF st, k, m, Compare

\* A branch on what all threads have read; the one out of the report.
LEMMA BranchPath ==
    ASSUME NEW L, NEW q, NEW on, NEW l \in DOMAIN L, NEW X, NEW W, NEW Y, NEW Z, Fits(X, W, Y, Z),
           NEW rep, NEW rep2, NEW rep3, L[l] = At(Y, Z, FALSE, rep2),
           \/ rep \in Plain /\ rep2 = rep /\ rep3 = rep
           \/ rep = "reg" /\ on = {2} /\ rep2 = "after" /\ rep3 = "before"
    PROVE  Path(Branch(on, l), At(X, W, TRUE, rep), At(X, W, TRUE, rep3), L, q)
<1> DEFINE st == [op |-> "branch", on |-> on, to |-> l]
           k == At(X, W, TRUE, rep)
           m == At(X, W, TRUE, rep3)
           h == At(Y, Z, FALSE, rep2)
<1>1. Fits(X, W, X, W)
      BY DEF Fits
<1>2. Quiet(k, h, {}, {})
      BY AtGrows
<1>3. Quiet(k, m, {}, {})
      BY <1>1, AtGrows
<1>4. k.live = TRUE /\ k.rep = rep /\ h.rep = rep2 /\ m.rep = rep3
      BY DEF At, Know, None
<1> HIDE DEF k, m, h
<1>5. L[l] = h
      BY DEF h
<1>6. st.op = "branch" /\ st.on = on /\ st.to = l
      OBVIOUS
<1> HIDE DEF st
<1>7. BranchFlow(st, k, m, L)
      BY <1>2, <1>3, <1>4, <1>5, <1>6 DEF BranchFlow, Hop, SamePlain
<1>8. Flow(st, k, m, L, q)
      BY <1>6, <1>7 DEF Flow
<1>9. Path(<<st>>, k, m, L, q)
      BY <1>8, PathOne
<1> QED BY <1>9 DEF st, k, m, Branch

\* Thread 0 reports.
LEMMA ReportPath ==
    ASSUME NEW L, NEW q, NEW off, NEW words, NEW X, NEW W, X \cap W = {}, NEW live, NEW rep, NEW rep2,
           \/ rep = "before" /\ off = {} /\ rep2 = "after"
           \/ rep = "decided" /\ off = {0} /\ rep2 = "status"
    PROVE  Path(Report(off, words), At(X, W, live, rep), At(X, W, live, rep2), L, q)
<1> DEFINE st == [op |-> "report", off |-> off, words |-> words]
           k == At(X, W, live, rep)
           m == At(X, W, live, rep2)
<1>1. Fits(X, W, X, W)
      BY DEF Fits
<1>2. Quiet(k, m, {}, {})
      BY <1>1, AtGrows
<1>3. k.rep = rep /\ m.rep = rep2 /\ \A c : Owner(m, c) = c[2]
      BY AtFields
<1> HIDE DEF k, m
<1>4. ReportFlow(st, k, m)
      BY <1>2, <1>3 DEF ReportFlow, Alone
<1> HIDE DEF st
<1>5. Flow(st, k, m, L, q)
      BY <1>4 DEF Flow, st
<1>6. Path(<<st>>, k, m, L, q)
      BY <1>5, PathOne
<1> QED BY <1>6 DEF st, k, m, Report

\* Thread 0 changes the damping.
LEMMA RaisePath ==
    ASSUME NEW L, NEW q, NEW X, NEW W, NEW Y, NEW Z, Fits(X, W \cup {"lambda"}, Y, Z), NEW live, NEW rep \in Plain
    PROVE  Path(Raise, At(X, W, live, rep), At(Y, Z, live, rep), L, q)
<1> DEFINE st == [op |-> "raise"]
           k == At(X, W, live, rep)
           m == At(Y, Z, live, rep)
<1>1. Fits(X, W, Y, Z) /\ "lambda" \in Z
      BY DEF Fits
<1>2. Quiet(k, m, {}, {})
      BY <1>1, AtGrows
<1>3. k.rep = rep /\ m.rep = rep /\ m.shut = Z \X Nat /\ \A c : Owner(m, c) = c[2]
      BY AtFields
<1> HIDE DEF k, m
<1>4. SamePlain(k, m) /\ Alone(m, {}, Word("lambda"))
      BY <1>1, <1>3 DEF SamePlain, Alone, Word
<1>5. Flow(st, k, m, L, q)
      BY <1>2, <1>4 DEF Flow
<1> HIDE DEF st
<1>6. Path(<<st>>, k, m, L, q)
      BY <1>5, PathOne
<1> QED BY <1>6 DEF st, k, m, Raise

\* Accept, by thread 0, writes the cost and the damping.
LEMMA AcceptPath ==
    ASSUME NEW L, NEW q, NEW X, NEW W, NEW Y, NEW Z, Fits(X, W \cup {"lambda", "fnorm2"}, Y, Z),
           NEW live, NEW rep \in Plain
    PROVE  Path(Accept, At(X, W, live, rep), At(Y, Z, live, rep), L, q)
<1> DEFINE st == [op |-> "accept"]
           k == At(X, W, live, rep)
           m == At(Y, Z, live, rep)
<1>1. Fits(X, W, Y, Z) /\ "lambda" \in Z /\ "fnorm2" \in Z
      BY DEF Fits
<1>2. Quiet(k, m, {}, {})
      BY <1>1, AtGrows
<1>3. k.rep = rep /\ m.rep = rep /\ m.shut = Z \X Nat /\ \A c : Owner(m, c) = c[2]
      BY AtFields
<1> HIDE DEF k, m
<1>4. SamePlain(k, m) /\ Alone(m, {"fn_try2"}, Word("lambda") \cup Word("fnorm2"))
      BY <1>1, <1>3 DEF SamePlain, Alone, Word
<1>5. Flow(st, k, m, L, q)
      BY <1>2, <1>4 DEF Flow
<1> HIDE DEF st
<1>6. Path(<<st>>, k, m, L, q)
      BY <1>5, PathOne
<1> QED BY <1>6 DEF st, k, m, Accept

\* Loops: a counter starts, a label, the test, and the way back.
LEMMA StartPath ==
    ASSUME NEW L, NEW q, NEW c \in Counters, NEW X, NEW W, NEW Y, NEW Z, Fits(X, W, Y, Z),
           NEW live, NEW live2, live2 => live, NEW rep, NEW rep2,
           IF c = "sys" THEN rep = "none" /\ rep2 = "before" ELSE rep \in Plain /\ rep2 = rep
    PROVE  Path(Start(c), At(X, W, live, rep), At(Y, Z, live2, rep2), L, q)
<1> DEFINE st == [op |-> "start", counter |-> c]
           k == At(X, W, live, rep)
           m == At(Y, Z, live2, rep2)
<1>1. Quiet(k, m, {}, {})
      BY AtGrows
<1>2. k.rep = rep /\ m.rep = rep2
      BY AtFields
<1> HIDE DEF k, m
<1>3. StartFlow(st, k, m)
      BY <1>1, <1>2 DEF StartFlow, SamePlain
<1> HIDE DEF st
<1>4. Flow(st, k, m, L, q)
      BY <1>3 DEF Flow, st
<1>5. Path(<<st>>, k, m, L, q)
      BY <1>4, PathOne
<1> QED BY <1>5 DEF st, k, m, Start

\* A label whose knowledge is the one on arrival.
LEMMA LabelPath ==
    ASSUME NEW L, NEW q, NEW l \in DOMAIN L, NEW X, NEW W, X \cap W = {}, NEW live, NEW rep \in Plain,
           L[l] = At(X, W, live, rep)
    PROVE  Path(Label(l), At(X, W, live, rep), At(X, W, live, rep), L, q)
<1> DEFINE st == [op |-> "label", name |-> l]
           k == At(X, W, live, rep)
<1>1. Fits(X, W, X, W)
      BY DEF Fits
<1>2. Quiet(k, k, {}, {})
      BY <1>1, AtGrows
<1>3. k.rep = rep
      BY AtFields
<1> HIDE DEF k
<1>4. Flow(st, k, k, L, q)
      BY <1>2, <1>3 DEF Flow, SamePlain, k
<1> HIDE DEF st
<1>5. Path(<<st>>, k, k, L, q)
      BY <1>4, PathOne
<1> QED BY <1>5 DEF st, k, Label

\* The head of a loop; its exit forgets the register.
LEMMA WhilePath ==
    ASSUME NEW L, NEW q, NEW c \in Counters, NEW max, NEW l \in DOMAIN L, NEW X, NEW W, NEW Y, NEW Z,
           Fits(X, W, Y, Z), NEW live, NEW rep \in Plain, L[l] = At(Y, Z, FALSE, rep)
    PROVE  Path(While(c, max, l), At(X, W, live, rep), At(X, W, live, rep), L, q)
<1> DEFINE st == [op |-> "while", counter |-> c, max |-> max, to |-> l]
           k == At(X, W, live, rep)
           h == At(Y, Z, FALSE, rep)
<1>1. Fits(X, W, X, W)
      BY DEF Fits
<1>2. Quiet(k, k, {}, {})
      BY <1>1, AtGrows
<1>3. Quiet(k, h, {}, {})
      BY AtGrows
<1>4. k.rep = rep /\ h.rep = rep
      BY DEF At, Know, None
<1>5. L[l] = h
      OBVIOUS
<1>6. st.op = "while" /\ st.counter = c /\ st.to = l
      OBVIOUS
<1> HIDE DEF k, h, st
<1>7. Flow(st, k, k, L, q)
      BY <1>2, <1>3, <1>4, <1>5, <1>6 DEF Flow, SamePlain, Hop
<1>8. Path(<<st>>, k, k, L, q)
      BY <1>7, PathOne
<1> QED BY <1>8 DEF st, k, While

\* Nothing follows on a jump: m is any.
LEMMA AgainPath ==
    ASSUME NEW L, NEW q, NEW c \in Counters, NEW l \in DOMAIN L, NEW X, NEW W, NEW Y, NEW Z,
           Fits(X, W, Y, Z), NEW live, NEW rep, NEW rep2, L[l] = At(Y, Z, FALSE, rep2),
           IF c = "sys" THEN rep = "after" /\ rep2 = "before" ELSE rep \in Plain /\ rep2 = rep,
           NEW m
    PROVE  Path(Again(c, l), At(X, W, live, rep), m, L, q)
<1> DEFINE st == [op |-> "again", counter |-> c, to |-> l]
           k == At(X, W, live, rep)
           h == At(Y, Z, FALSE, rep2)
<1>1. Quiet(k, h, {}, {})
      BY AtGrows
<1>2. k.rep = rep /\ h.rep = rep2
      BY DEF At, Know, None
<1>3. L[l] = h
      OBVIOUS
<1>4. st.op = "again" /\ st.counter = c /\ st.to = l
      OBVIOUS
<1> HIDE DEF k, h, st
<1>5. Flow(st, k, m, L, q)
      BY <1>1, <1>2, <1>3, <1>4 DEF Flow, AgainFlow, SamePlain, Hop
<1>6. Path(<<st>>, k, m, L, q)
      BY <1>5, PathOne
<1> QED BY <1>6 DEF st, k, Again

\* After a goto anything may be said.
LEMMA GotoPath ==
    ASSUME NEW L, NEW q, NEW l \in DOMAIN L, NEW X, NEW W, NEW Y, NEW Z, Fits(X, W, Y, Z), NEW live,
           NEW rep \in Plain, L[l] = At(Y, Z, FALSE, rep), NEW m
    PROVE  Path(Goto(l), At(X, W, live, rep), m, L, q)
<1> DEFINE st == [op |-> "goto", to |-> l]
           k == At(X, W, live, rep)
           h == At(Y, Z, FALSE, rep)
<1>1. Quiet(k, h, {}, {})
      BY AtGrows
<1>2. k.rep = rep /\ h.rep = rep
      BY DEF At, Know, None
<1>3. L[l] = h
      OBVIOUS
<1>4. st.op = "goto" /\ st.to = l
      OBVIOUS
<1> HIDE DEF k, h, st
<1>5. Flow(st, k, m, L, q)
      BY <1>1, <1>2, <1>3, <1>4 DEF Flow, SamePlain, Hop
<1>6. Path(<<st>>, k, m, L, q)
      BY <1>5, PathOne
<1> QED BY <1>6 DEF st, k, Goto

-----------------------------------------------------------------------------
(* A dot product: whatever was open or shut, nothing is after it.            *)

Ready(q, n) ==
    /\ PowerOfTwo(n) /\ q.n = n /\ q.powers = 1
    /\ q.want = Totals({"sdata"}, Ids(n))

\* A dot product leads to a point just after a barrier, with the register alike.
LEMMA DotPath ==
    ASSUME NEW L, NEW q, NEW n, Ready(q, n), NEW arrs, NEW vals, NEW X, NEW W, X \cap W = {}, "sdata" \notin X,
           NEW live, NEW rep \in Plain
    PROVE  Path(block_dot(arrs, n, vals), At(X, W, live, rep), At({}, {}, TRUE, rep), L, q)
<1> DEFINE Q == [t \in Ids(n) |-> {t}]
           cells == [t \in Ids(n) |-> Word("sdata")]
           k0 == At(X, W, live, rep)
           k1 == Left({"sdata"}, Q, n, 1, live, rep)
           k2 == At({"sdata"}, {}, live, rep)
           k3 == At({"sdata"}, {}, TRUE, rep)
           k4 == At({}, {}, TRUE, rep)
           s1 == Tree(arrs, {"sdata"}, n, DotTerms(n), vals)
           s2 == Result(cells)
           s3 == Read("sdata")
<1>1. n \in Nat \ {0} /\ PowerOfTwo(n) /\ q.n = n /\ q.powers = 1
      BY DEF Ready, PowerOfTwo
<1>2. AreSums(DotTerms(n), Q, n)
  <2>1. \A t \in Ids(n) : {t} \X {0} = {<<t, 0>>}
        OBVIOUS
  <2> QED BY <2>1 DEF DotTerms, AreSums
<1>3. Disjoint(Q, n)
      BY DEF Disjoint
<1>4. UnionOf(Q, n) = Ids(n)
      BY DEF UnionOf
<1>5. q.want = Totals({"sdata"}, UnionOf(Q, n))
      BY <1>4, Zenon DEF Ready
<1>6. \A t \in Ids(n) : cells[t] \subseteq {"sdata"} \X {0}
      BY DEF Word
<1>7. "sdata" \in Words /\ Fits({"sdata"} \cup {"sdata"}, {}, {"sdata"}, {}) /\ X \cap {"sdata"} = {}
      BY DEF Words, Fits
<1> HIDE DEF Q, cells
<1>8. Path(s1, k0, k1, L, q)
      BY <1>1, <1>2, <1>3, <1>7, TreePath
<1>9. Path(s2, k1, k2, L, q)
      BY <1>1, <1>5, <1>6, ResultPath
<1>10. Path(s3, k2, k3, L, q)
      BY <1>7, ReadPath
<1>11. Path(Bar, k3, k4, L, q)
      BY AtBar
<1> HIDE DEF k0, k1, k2, k3, k4, s1, s2, s3
<1>12. Path(s1 \o s2 \o s3 \o Bar, k0, k4, L, q)
      BY <1>8, <1>9, <1>10, <1>11, PathCat4
<1> QED BY <1>12 DEF block_dot, s1, s2, s3, k0, k4, cells

\* A path that passes labels.
Route(s, k, m, L, q, D) == Path(s, k, m, L, q) /\ \A l \in D : Defines(s, l)

\* Routes are put together as paths are; the labels they define add up.
LEMMA RouteCat ==
    ASSUME NEW s, NEW u, NEW k, NEW m, NEW n, NEW L, NEW q, NEW D, NEW E, NEW F, F \subseteq D \cup E,
           Route(s, k, m, L, q, D), Route(u, m, n, L, q, E)
    PROVE  Route(s \o u, k, n, L, q, F)
<1>1. Path(s \o u, k, n, L, q)
      BY PathCat DEF Route
<1>2. PICK S : s \in Seq(S)
      BY DEF Route, Path
<1>3. PICK T : u \in Seq(T)
      BY DEF Route, Path
<1>4. ASSUME NEW l \in F PROVE Defines(s \o u, l)
  <2>1. Defines(s, l) \/ Defines(u, l)
        BY DEF Route
  <2> QED BY <1>2, <1>3, <2>1, DefinesCat
<1> QED BY <1>1, <1>4 DEF Route

\* A route goes on by a path, ...
LEMMA RouteOn ==
    ASSUME NEW s, NEW u, NEW k, NEW m, NEW n, NEW L, NEW q, NEW D,
           Route(s, k, m, L, q, D), Path(u, m, n, L, q)
    PROVE  Route(s \o u, k, n, L, q, D)
<1>1. Route(u, m, n, L, q, {}) /\ D \subseteq D \cup {}
      BY DEF Route
<1> QED BY <1>1, RouteCat

\* ... or begins with one.
LEMMA RouteFrom ==
    ASSUME NEW s, NEW u, NEW k, NEW m, NEW n, NEW L, NEW q, NEW D,
           Path(s, k, m, L, q), Route(u, m, n, L, q, D)
    PROVE  Route(s \o u, k, n, L, q, D)
<1>1. Route(s, k, m, L, q, {}) /\ D \subseteq {} \cup D
      BY DEF Route
<1> QED BY <1>1, RouteCat

\* A label is a route that defines it.
LEMMA LabelRoute ==
    ASSUME NEW L, NEW q, NEW l \in DOMAIN L, NEW X, NEW W, X \cap W = {}, NEW live, NEW rep \in Plain,
           L[l] = At(X, W, live, rep)
    PROVE  Route(Label(l), At(X, W, live, rep), At(X, W, live, rep), L, q, {l})
BY LabelPath, LabelDefines DEF Route

\* Names.
LEMMA Facts ==
    /\ "before" \in Plain /\ "after" \in Plain /\ "none" \in Plain
    /\ {"sys", "it", "inner"} \subseteq Counters
    /\ {"lambda", "fnorm2", "status", "fn_try2", "sh_delta", "sh_g", "sh_A", "sdata"} \subseteq Words
BY DEF Plain, Counters, Words

\* The loop over the systems: nothing follows the jump that ends it.
LEMMA SystemsRoute ==
    ASSUME NEW L, NEW q, NEW body, "system" \in DOMAIN L, "end" \in DOMAIN L, NEW live, NEW live3, NEW D,
           L["system"] = At({}, {}, FALSE, "before"), L["end"] = At({}, {}, FALSE, "before"),
           Route(body, At({}, {}, FALSE, "before"), At({}, {}, live3, "after"), L, q, D), NEW m,
           NEW F, F \subseteq {"system"} \cup D
    PROVE  Route(For("sys", Systems, "system", "end", body), At({}, {}, live, "none"), m, L, q, F)
<1> DEFINE k == At({}, {}, live, "none")
           h == At({}, {}, FALSE, "before")
           e == At({}, {}, live3, "after")
           s1 == Start("sys")
           s2 == Label("system")
           s3 == While("sys", Systems, "end")
           s5 == Again("sys", "system")
<1>1. Fits({}, {}, {}, {})
      BY DEF Fits
<1>2. Path(s1, k, h, L, q)
      BY <1>1, StartPath, Facts
<1>3. Route(s2, h, h, L, q, {"system"})
      BY LabelRoute, Facts
<1>4. Path(s3, h, h, L, q)
      BY <1>1, WhilePath, Facts
<1>5. Path(s5, e, m, L, q)
      BY <1>1, AgainPath, Facts
<1> HIDE DEF k, h, e, s1, s2, s3, s5
<1>6. Route(body, h, e, L, q, D)
      BY DEF h, e
<1>7. Route(s1 \o s2, k, h, L, q, {"system"})
      BY <1>2, <1>3, RouteFrom
<1>8. Route(s1 \o s2 \o s3, k, h, L, q, {"system"})
      BY <1>4, <1>7, RouteOn
<1>9. Route(s1 \o s2 \o s3 \o body, k, e, L, q, F)
      BY <1>6, <1>8, RouteCat
<1>10. Route(s1 \o s2 \o s3 \o body \o s5, k, m, L, q, F)
      BY <1>5, <1>9, RouteOn
<1> QED BY <1>10 DEF For, s1, s2, s3, s5, k

\* The loop of a solver.
LEMMA IterationsRoute ==
    ASSUME NEW L, NEW q, NEW body, NEW exit, "iteration" \in DOMAIN L, exit \in DOMAIN L, NEW live, NEW live3, NEW D,
           L["iteration"] = At({}, {}, FALSE, "before"), L[exit] = At({}, {}, FALSE, "before"),
           Route(body, At({}, {}, FALSE, "before"), At({}, {}, live3, "before"), L, q, D), NEW m,
           NEW F, F \subseteq {"iteration"} \cup D
    PROVE  Route(For("it", MaxIter, "iteration", exit, body), At({}, {}, live, "before"), m, L, q, F)
<1> DEFINE k == At({}, {}, live, "before")
           h == At({}, {}, FALSE, "before")
           e == At({}, {}, live3, "before")
           s1 == Start("it")
           s2 == Label("iteration")
           s3 == While("it", MaxIter, exit)
           s5 == Again("it", "iteration")
<1>1. Fits({}, {}, {}, {})
      BY DEF Fits
<1>2. Path(s1, k, h, L, q)
      BY <1>1, StartPath, Facts
<1>3. Route(s2, h, h, L, q, {"iteration"})
      BY LabelRoute, Facts
<1>4. Path(s3, h, h, L, q)
      BY <1>1, WhilePath, Facts
<1>5. Path(s5, e, m, L, q)
      BY <1>1, AgainPath, Facts
<1> HIDE DEF k, h, e, s1, s2, s3, s5
<1>6. Route(body, h, e, L, q, D)
      BY DEF h, e
<1>7. Route(s1 \o s2, k, h, L, q, {"iteration"})
      BY <1>2, <1>3, RouteFrom
<1>8. Route(s1 \o s2 \o s3, k, h, L, q, {"iteration"})
      BY <1>4, <1>7, RouteOn
<1>9. Route(s1 \o s2 \o s3 \o body, k, e, L, q, F)
      BY <1>6, <1>8, RouteCat
<1>10. Route(s1 \o s2 \o s3 \o body \o s5, k, m, L, q, F)
      BY <1>5, <1>9, RouteOn
<1> QED BY <1>10 DEF For, s1, s2, s3, s5, k

\* A kernel that goes through systems, and its labels.
LEMMA SystemsCertified ==
    ASSUME NEW q, NEW n, PowerOfTwo(n), NEW body, q = ASystemEach(n, body),
           NEW L, NEW D, NEW live, DOMAIN L = D \cup {"system", "end"},
           L["system"] = At({}, {}, FALSE, "before"), L["end"] = At({}, {}, FALSE, "before"),
           Route(body, At({}, {}, FALSE, "before"), At({}, {}, live, "after"), L, q, D)
    PROVE  \E K, M : Certificate(q, K, M)
<1> DEFINE s1 == For("sys", Systems, "system", "end", body)
           s2 == Label("end")
           k == At({}, {}, TRUE, "none")
           m == At({}, {}, FALSE, "before")
<1>1. /\ q.n = n /\ n \in Nat \ {0} /\ q.body = s1 \o s2
      /\ "before" \in Plain /\ "sys" \in Counters /\ "system" \in DOMAIN L /\ "end" \in DOMAIN L
      BY DEF ASystemEach, PowerOfTwo, Plain, Counters
<1>2. k.open = {} \X Nat /\ k.rep = "none" /\ DOMAIN k.has = {}
      BY DEF At, Know, None
<1>3. Fresh(k)
      BY <1>2 DEF Fresh
<1>4. Route(s1, k, m, L, q, {"system"} \cup D)
  <2> DEFINE F == {"system"} \cup D
  <2>1. F \subseteq {"system"} \cup D
        OBVIOUS
  <2> HIDE DEF F
  <2>2. Route(s1, k, m, L, q, F)
        BY <1>1, <2>1, SystemsRoute
  <2> QED BY <2>2 DEF F
<1>5. Route(s2, m, m, L, q, {"end"})
      BY <1>1, LabelRoute
<1> HIDE DEF s1, s2, k, m
<1>6. Route(q.body, k, m, L, q, DOMAIN L)
  <2>1. Route(s1 \o s2, k, m, L, q, DOMAIN L)
        BY <1>4, <1>5, RouteCat
  <2> QED BY <1>1, <2>1
<1> QED BY <1>1, <1>3, <1>6, PathCertifies DEF Route

\* The labels of batched_cg_kernel: nothing is open or shut there.
CgLabels == [l \in {"system", "iteration", "true_residual", "end"} |-> At({}, {}, FALSE, "before")]

\* One iteration of conjugate gradients.
LEMMA CgIterationPath ==
    ASSUME NEW q, NEW n, Ready(q, n)
    PROVE  Path(CgIteration(n), At({}, {}, FALSE, "before"), At({}, {}, TRUE, "before"), CgLabels, q)
<1> DEFINE k0 == At({}, {}, FALSE, "before")
           k1 == At({"p"}, {"ap"}, FALSE, "before")
           k2 == At({}, {}, TRUE, "before")
           k3 == At({}, {"x", "r"}, TRUE, "before")
           k4 == At({}, {"p"}, TRUE, "before")
           s1 == Do({}, {"p"}, {"ap"})
           s2 == Bar
           s3 == block_dot({"p", "ap"}, n, {0, 1})
           s4 == Branch({0}, "true_residual")
           s5 == Do({"x", "r", "p", "ap"}, {}, {"x", "r"})
           s6 == Bar
           s7 == block_dot({"r"}, n, {0, 1})
           s8 == Branch({1}, "true_residual")
           s9 == Do({"r", "p"}, {}, {"p"})
           s10 == Bar
<1>1. q.n \in Nat
      BY DEF Ready, PowerOfTwo
<1>2. \A l \in {"system", "iteration", "true_residual", "end"} :
          l \in DOMAIN CgLabels /\ CgLabels[l] = At({}, {}, FALSE, "before")
      BY DEF CgLabels
<1>3. Path(s1, k0, k1, CgLabels, q)
      BY <1>1, <1>2, DoPath DEF Fits
<1>4. Path(s2, k1, k0, CgLabels, q)
      BY <1>1, <1>2, AtBar
<1>5. Path(s3, k0, k2, CgLabels, q)
      BY <1>1, <1>2, DotPath, Facts
<1>6. Path(s4, k2, k2, CgLabels, q)
      BY <1>1, <1>2, BranchPath, Facts DEF Fits
<1>7. Path(s5, k2, k3, CgLabels, q)
      BY <1>1, <1>2, DoPath DEF Fits
<1>8. Path(s6, k3, k2, CgLabels, q)
      BY <1>1, <1>2, AtBar
<1>9. Path(s7, k2, k2, CgLabels, q)
      BY <1>1, <1>2, DotPath, Facts
<1>10. Path(s8, k2, k2, CgLabels, q)
      BY <1>1, <1>2, BranchPath, Facts DEF Fits
<1>11. Path(s9, k2, k4, CgLabels, q)
      BY <1>1, <1>2, DoPath DEF Fits
<1>12. Path(s10, k4, k2, CgLabels, q)
      BY <1>1, <1>2, AtBar
<1> HIDE DEF k0, k1, k2, k3, k4, s1, s2, s3, s4, s5, s6, s7, s8, s9, s10
<1>13. Path(s1 \o s2, k0, k0, CgLabels, q)
      BY <1>3, <1>4, PathCat
<1>14. Path(s1 \o s2 \o s3, k0, k2, CgLabels, q)
      BY <1>13, <1>5, PathCat
<1>15. Path(s1 \o s2 \o s3 \o s4, k0, k2, CgLabels, q)
      BY <1>14, <1>6, PathCat
<1>16. Path(s1 \o s2 \o s3 \o s4 \o s5, k0, k3, CgLabels, q)
      BY <1>15, <1>7, PathCat
<1>17. Path(s1 \o s2 \o s3 \o s4 \o s5 \o s6, k0, k2, CgLabels, q)
      BY <1>16, <1>8, PathCat
<1>18. Path(s1 \o s2 \o s3 \o s4 \o s5 \o s6 \o s7, k0, k2, CgLabels, q)
      BY <1>17, <1>9, PathCat
<1>19. Path(s1 \o s2 \o s3 \o s4 \o s5 \o s6 \o s7 \o s8, k0, k2, CgLabels, q)
      BY <1>18, <1>10, PathCat
<1>20. Path(s1 \o s2 \o s3 \o s4 \o s5 \o s6 \o s7 \o s8 \o s9, k0, k4, CgLabels, q)
      BY <1>19, <1>11, PathCat
<1>21. Path(s1 \o s2 \o s3 \o s4 \o s5 \o s6 \o s7 \o s8 \o s9 \o s10, k0, k2, CgLabels, q)
      BY <1>20, <1>12, PathCat
<1> QED BY <1>21 DEF CgIteration, k0, k1, k2, k3, k4, s1, s2, s3, s4, s5, s6, s7, s8, s9, s10

\* The true residual, and the report.
LEMMA CgResidualRoute ==
    ASSUME NEW q, NEW n, Ready(q, n)
    PROVE  Route(CgResidual(n), At({}, {}, FALSE, "before"), At({}, {}, TRUE, "after"), CgLabels, q, {"true_residual"})
<1> DEFINE k0 == At({}, {}, FALSE, "before")
           k1 == At({"x"}, {"ap"}, FALSE, "before")
           k2 == At({}, {"ap"}, FALSE, "before")
           k3 == At({}, {}, TRUE, "before")
           k4 == At({}, {}, TRUE, "after")
           s1 == Label("true_residual")
           s2 == Do({}, {"x"}, {"ap"})
           s3 == Bar
           s4 == Do({"b", "ap"}, {}, {"ap"})
           s5 == Bar
           s6 == block_dot({"ap"}, n, {0, 1})
           s7 == Report({}, {})
           s8 == Bar
<1>1. q.n \in Nat
      BY DEF Ready, PowerOfTwo
<1>2. \A l \in {"system", "iteration", "true_residual", "end"} :
          l \in DOMAIN CgLabels /\ CgLabels[l] = At({}, {}, FALSE, "before")
      BY DEF CgLabels
<1>3. Route(s1, k0, k0, CgLabels, q, {"true_residual"})
      BY <1>1, <1>2, LabelRoute, Facts
<1>4. Path(s2, k0, k1, CgLabels, q)
      BY <1>1, <1>2, DoPath DEF Fits
<1>5. Path(s3, k1, k0, CgLabels, q)
      BY <1>1, <1>2, AtBar
<1>6. Path(s4, k0, k2, CgLabels, q)
      BY <1>1, <1>2, DoPath DEF Fits
<1>7. Path(s5, k2, k0, CgLabels, q)
      BY <1>1, <1>2, AtBar
<1>8. Path(s6, k0, k3, CgLabels, q)
      BY <1>1, <1>2, DotPath, Facts
<1>9. Path(s7, k3, k4, CgLabels, q)
      BY <1>1, <1>2, ReportPath
<1>10. Path(s8, k4, k4, CgLabels, q)
      BY <1>1, <1>2, AtBar
<1> HIDE DEF k0, k1, k2, k3, k4, s1, s2, s3, s4, s5, s6, s7, s8
<1>11. Route(s1 \o s2, k0, k1, CgLabels, q, {"true_residual"})
      BY <1>3, <1>4, RouteOn
<1>12. Route(s1 \o s2 \o s3, k0, k0, CgLabels, q, {"true_residual"})
      BY <1>11, <1>5, RouteOn
<1>13. Route(s1 \o s2 \o s3 \o s4, k0, k2, CgLabels, q, {"true_residual"})
      BY <1>12, <1>6, RouteOn
<1>14. Route(s1 \o s2 \o s3 \o s4 \o s5, k0, k0, CgLabels, q, {"true_residual"})
      BY <1>13, <1>7, RouteOn
<1>15. Route(s1 \o s2 \o s3 \o s4 \o s5 \o s6, k0, k3, CgLabels, q, {"true_residual"})
      BY <1>14, <1>8, RouteOn
<1>16. Route(s1 \o s2 \o s3 \o s4 \o s5 \o s6 \o s7, k0, k4, CgLabels, q, {"true_residual"})
      BY <1>15, <1>9, RouteOn
<1>17. Route(s1 \o s2 \o s3 \o s4 \o s5 \o s6 \o s7 \o s8, k0, k4, CgLabels, q, {"true_residual"})
      BY <1>16, <1>10, RouteOn
<1> QED BY <1>17 DEF CgResidual, k0, k1, k2, k3, k4, s1, s2, s3, s4, s5, s6, s7, s8

CgBody(n) ==
    Do({"b"}, {}, {"x", "r", "p"}) \o Bar
    \o block_dot({"b"}, n, {0}) \o block_dot({"r"}, n, {0, 1}) \o Branch({1}, "true_residual")
    \o For("it", MaxIter, "iteration", "true_residual", CgIteration(n))
    \o CgResidual(n)

\* A system of batched_cg_kernel.
LEMMA CgBodyRoute ==
    ASSUME NEW q, NEW n, Ready(q, n)
    PROVE  Route(CgBody(n), At({}, {}, FALSE, "before"), At({}, {}, TRUE, "after"), CgLabels, q, {"iteration", "true_residual"})
<1> DEFINE k0 == At({}, {}, FALSE, "before")
           k1 == At({}, {"x", "r", "p"}, FALSE, "before")
           k2 == At({}, {}, TRUE, "before")
           k3 == At({}, {}, TRUE, "after")
           s1 == Do({"b"}, {}, {"x", "r", "p"})
           s2 == Bar
           s3 == block_dot({"b"}, n, {0})
           s4 == block_dot({"r"}, n, {0, 1})
           s5 == Branch({1}, "true_residual")
           s6 == For("it", MaxIter, "iteration", "true_residual", CgIteration(n))
           s7 == CgResidual(n)
<1>1. q.n \in Nat
      BY DEF Ready, PowerOfTwo
<1>2. \A l \in {"system", "iteration", "true_residual", "end"} :
          l \in DOMAIN CgLabels /\ CgLabels[l] = At({}, {}, FALSE, "before")
      BY DEF CgLabels
<1>3. Path(s1, k0, k1, CgLabels, q)
      BY <1>1, <1>2, DoPath DEF Fits
<1>4. Path(s2, k1, k0, CgLabels, q)
      BY <1>1, <1>2, AtBar
<1>5. Path(s3, k0, k2, CgLabels, q)
      BY <1>1, <1>2, DotPath, Facts
<1>6. Path(s4, k2, k2, CgLabels, q)
      BY <1>1, <1>2, DotPath, Facts
<1>7. Path(s5, k2, k2, CgLabels, q)
      BY <1>1, <1>2, BranchPath, Facts DEF Fits
<1>8. Route(s6, k2, k0, CgLabels, q, {"iteration"})
  <2>1. Route(CgIteration(n), At({}, {}, FALSE, "before"), At({}, {}, TRUE, "before"), CgLabels, q, {})
        BY CgIterationPath DEF Route
  <2>2. {"iteration"} \subseteq {"iteration"} \cup {}
        OBVIOUS
  <2> QED BY <1>2, <2>1, <2>2, IterationsRoute
<1>9. Route(s7, k0, k3, CgLabels, q, {"true_residual"})
      BY <1>1, <1>2, CgResidualRoute
<1> HIDE DEF k0, k1, k2, k3, s1, s2, s3, s4, s5, s6, s7
<1>10. Path(s1 \o s2, k0, k0, CgLabels, q)
      BY <1>3, <1>4, PathCat
<1>11. Path(s1 \o s2 \o s3, k0, k2, CgLabels, q)
      BY <1>10, <1>5, PathCat
<1>12. Path(s1 \o s2 \o s3 \o s4, k0, k2, CgLabels, q)
      BY <1>11, <1>6, PathCat
<1>13. Path(s1 \o s2 \o s3 \o s4 \o s5, k0, k2, CgLabels, q)
      BY <1>12, <1>7, PathCat
<1>14. Route(s1 \o s2 \o s3 \o s4 \o s5 \o s6, k0, k0, CgLabels, q, {"iteration"})
      BY <1>13, <1>8, RouteFrom
<1>15. Route(s1 \o s2 \o s3 \o s4 \o s5 \o s6 \o s7, k0, k3, CgLabels, q, {"iteration", "true_residual"})
      BY <1>14, <1>9, RouteCat
<1> QED BY <1>15 DEF CgBody, k0, k1, k2, k3, s1, s2, s3, s4, s5, s6, s7

\* The batched conjugate gradients have a certificate.
LEMMA CgCertified ==
    ASSUME NEW n, PowerOfTwo(n)
    PROVE  \E K, L : Certificate(batched_cg_kernel(n), K, L)
<1> DEFINE q == ASystemEach(n, CgBody(n))
<1>1. Ready(q, n)
      BY DEF Ready, ASystemEach
<1>2. batched_cg_kernel(n) = q
      BY DEF batched_cg_kernel, CgBody
<1> HIDE DEF q
<1>3. /\ DOMAIN CgLabels = {"iteration", "true_residual"} \cup {"system", "end"}
      /\ \A l \in DOMAIN CgLabels : CgLabels[l] = At({}, {}, FALSE, "before")
      BY DEF CgLabels
<1>4. Route(CgBody(n), At({}, {}, FALSE, "before"), At({}, {}, TRUE, "after"), CgLabels, q,
            {"iteration", "true_residual"})
      BY <1>1, CgBodyRoute
<1>5. q = ASystemEach(n, CgBody(n))
      BY DEF q
<1>6. \E K, L : Certificate(q, K, L)
      BY <1>3, <1>4, <1>5, SystemsCertified
<1> QED BY <1>2, <1>6

\* The labels of batched_lm_kernel: a word that was read last may be open.
LmOpen(l) ==
    IF l \in {"damping", "give_up", "write_exit"} THEN {"lambda"}
    ELSE IF l \in {"try", "evaluate"} THEN {"status"}
    ELSE IF l = "compare" THEN {"fn_try2"} ELSE {}
LmLabels ==
    [l \in {"iteration", "exhausted", "damping", "try", "evaluate", "compare", "accept",
            "give_up", "write_exit"} \cup {"system", "end"} |->
        At(LmOpen(l), {}, FALSE, IF l = "write_exit" THEN "after" ELSE "before")]

\* What is known at each label of the Levenberg-Marquardt kernel.
LEMMA LmFacts ==
    /\ DOMAIN LmLabels = {"iteration", "exhausted", "damping", "try", "evaluate", "compare", "accept",
                          "give_up", "write_exit"} \cup {"system", "end"}
    /\ \A l \in {"system", "iteration", "exhausted", "accept", "end"} : LmLabels[l] = At({}, {}, FALSE, "before")
    /\ \A l \in {"damping", "give_up"} : LmLabels[l] = At({"lambda"}, {}, FALSE, "before")
    /\ \A l \in {"try", "evaluate"} : LmLabels[l] = At({"status"}, {}, FALSE, "before")
    /\ LmLabels["compare"] = At({"fn_try2"}, {}, FALSE, "before")
    /\ LmLabels["write_exit"] = At({"lambda"}, {}, FALSE, "after")
BY DEF LmLabels, LmOpen

\* The residuals at a point, which must be complete.
LEMMA LmResidualsPath ==
    ASSUME NEW L, NEW q, q.n \in Nat, NEW theta, NEW r, theta # r, NEW X, r \notin X, NEW live, NEW rep
    PROVE  Path(LmResiduals(theta, r), At(X, {}, live, rep), At({}, {}, live, rep), L, q)
<1> DEFINE k0 == At(X, {}, live, rep)
           k1 == At(X \cup {theta}, {r}, live, rep)
           k2 == At({}, {}, live, rep)
           s1 == Do({}, {theta}, {r})
<1>1. Path(s1, k0, k1, L, q)
      BY DoPath DEF Fits
<1>2. Path(Bar, k1, k2, L, q)
      BY AtBar
<1> HIDE DEF k0, k1, k2, s1
<1>3. Path(s1 \o Bar, k0, k2, L, q)
      BY <1>1, <1>2, PathCat
<1> QED BY <1>3 DEF LmResiduals, k0, k2, s1

\* The start of a problem.
LEMMA LmStartPath ==
    ASSUME NEW q, NEW n, Ready(q, n)
    PROVE  Path(LmStart(n), At({}, {}, FALSE, "before"), At({}, {}, FALSE, "before"), LmLabels, q)
<1> DEFINE k0 == At({}, {}, FALSE, "before")
           k1 == At({}, {"sh_theta"}, FALSE, "before")
           k2 == At({}, {"sh_theta", "lambda"}, FALSE, "before")
           k3 == At({}, {}, TRUE, "before")
           k4 == At({}, {"fnorm2"}, FALSE, "before")
           s1 == Do({"theta_out"}, {}, {"sh_theta"})
           s2 == Publish("lambda", {0}, {}, {})
           s3 == Bar
           s4 == LmResiduals("sh_theta", "r")
           s5 == block_dot({"r"}, n, {0})
           s6 == Publish("fnorm2", {1}, {}, {})
           s7 == Bar
<1>1. q.n \in Nat
      BY DEF Ready, PowerOfTwo
<1>2. Path(s1, k0, k1, LmLabels, q)
      BY <1>1, DoPath DEF Fits
<1>3. Path(s2, k1, k2, LmLabels, q)
      BY <1>1, PublishPath, Facts DEF Fits
<1>4. Path(s3, k2, k0, LmLabels, q)
      BY <1>1, AtBar
<1>5. Path(s4, k0, k0, LmLabels, q)
      BY <1>1, LmResidualsPath
<1>6. Path(s5, k0, k3, LmLabels, q)
      BY <1>1, DotPath, Facts
<1>7. Path(s6, k3, k4, LmLabels, q)
      BY <1>1, PublishPath, Facts DEF Fits
<1>8. Path(s7, k4, k0, LmLabels, q)
      BY <1>1, AtBar
<1> HIDE DEF k0, k1, k2, k3, k4, s1, s2, s3, s4, s5, s6, s7
<1>9. Path(s1 \o s2, k0, k2, LmLabels, q)
      BY <1>2, <1>3, PathCat
<1>10. Path(s1 \o s2 \o s3, k0, k0, LmLabels, q)
      BY <1>9, <1>4, PathCat
<1>11. Path(s1 \o s2 \o s3 \o s4, k0, k0, LmLabels, q)
      BY <1>10, <1>5, PathCat
<1>12. Path(s1 \o s2 \o s3 \o s4 \o s5, k0, k3, LmLabels, q)
      BY <1>11, <1>6, PathCat
<1>13. Path(s1 \o s2 \o s3 \o s4 \o s5 \o s6, k0, k4, LmLabels, q)
      BY <1>12, <1>7, PathCat
<1>14. Path(s1 \o s2 \o s3 \o s4 \o s5 \o s6 \o s7, k0, k0, LmLabels, q)
      BY <1>13, <1>8, PathCat
<1> QED BY <1>14 DEF LmStart, k0, k1, k2, k3, k4, s1, s2, s3, s4, s5, s6, s7

\* The normal equations.
LEMMA LmNormalPath ==
    ASSUME NEW q, NEW n, Ready(q, n)
    PROVE  Path(LmNormalEquations(n), At({}, {}, FALSE, "before"), At({}, {}, FALSE, "before"), LmLabels, q)
<1> DEFINE k0 == At({}, {}, FALSE, "before")
           k1 == At({"sh_theta"}, {"J"}, FALSE, "before")
           k2 == At({}, {}, TRUE, "before")
           k3 == At({}, {"sh_g"}, FALSE, "before")
           k4 == At({}, {"sh_A"}, FALSE, "before")
           s1 == Do({"r"}, {"sh_theta"}, {"J"})
           s2 == Bar
           s3 == block_dot({"J", "r"}, n, {0})
           s4 == Publish("sh_g", {0}, {}, {})
           s5 == block_dot({"J"}, n, {0})
           s6 == Publish("sh_A", {0}, {}, {})
           s7 == Bar
<1>1. q.n \in Nat
      BY DEF Ready, PowerOfTwo
<1>2. Path(s1, k0, k1, LmLabels, q)
      BY <1>1, DoPath DEF Fits
<1>3. Path(s2, k1, k0, LmLabels, q)
      BY <1>1, AtBar
<1>4. Path(s3, k0, k2, LmLabels, q)
      BY <1>1, DotPath, Facts
<1>5. Path(s4, k2, k3, LmLabels, q)
      BY <1>1, PublishPath, Facts DEF Fits
<1>6. Path(s5, k3, k2, LmLabels, q)
      BY <1>1, DotPath, Facts
<1>7. Path(s6, k2, k4, LmLabels, q)
      BY <1>1, PublishPath, Facts DEF Fits
<1>8. Path(s7, k4, k0, LmLabels, q)
      BY <1>1, AtBar
<1> HIDE DEF k0, k1, k2, k3, k4, s1, s2, s3, s4, s5, s6, s7
<1>9. Path(s1 \o s2, k0, k0, LmLabels, q)
      BY <1>2, <1>3, PathCat
<1>10. Path(s1 \o s2 \o s3, k0, k2, LmLabels, q)
      BY <1>9, <1>4, PathCat
<1>11. Path(s1 \o s2 \o s3 \o s4, k0, k3, LmLabels, q)
      BY <1>10, <1>5, PathCat
<1>12. Path(s1 \o s2 \o s3 \o s4 \o s5, k0, k2, LmLabels, q)
      BY <1>11, <1>6, PathCat
<1>13. Path(s1 \o s2 \o s3 \o s4 \o s5 \o s6, k0, k4, LmLabels, q)
      BY <1>12, <1>7, PathCat
<1>14. Path(s1 \o s2 \o s3 \o s4 \o s5 \o s6 \o s7, k0, k0, LmLabels, q)
      BY <1>13, <1>8, PathCat
<1> QED BY <1>14 DEF LmNormalEquations, k0, k1, k2, k3, k4, s1, s2, s3, s4, s5, s6, s7

\* Thread 0 asks whether the normal equations are finite, and all threads hear.
LEMMA LmGuardPath ==
    ASSUME NEW q, q.n \in Nat
    PROVE  Path(LmGuard, At({}, {}, FALSE, "before"), At({}, {}, TRUE, "before"), LmLabels, q)
<1> DEFINE k0 == At({}, {}, FALSE, "before")
           k1 == At({}, {"status"}, FALSE, "before")
           k2 == At({"status"}, {}, TRUE, "before")
           k3 == At({}, {}, TRUE, "before")
           s1 == Publish("status", {0, 1}, {"sh_g", "sh_A"}, {})
           s2 == Bar
           s3 == Read("status")
           s4 == Bar
           s5 == Branch({0}, "give_up")
<1>1. Path(s1, k0, k1, LmLabels, q)
      BY PublishPath, Facts DEF Fits
<1>2. Path(s2, k1, k0, LmLabels, q)
      BY AtBar
<1>3. Path(s3, k0, k2, LmLabels, q)
      BY ReadPath, Facts DEF Fits
<1>4. Path(s4, k2, k3, LmLabels, q)
      BY AtBar
<1>5. Path(s5, k3, k3, LmLabels, q)
  <2>1. "give_up" \in DOMAIN LmLabels /\ LmLabels["give_up"] = At({"lambda"}, {}, FALSE, "before")
        BY LmFacts
  <2>2. Fits({}, {}, {"lambda"}, {})
        BY DEF Fits
  <2> QED BY <2>1, <2>2, BranchPath, Facts
<1> HIDE DEF k0, k1, k2, k3, s1, s2, s3, s4, s5
<1>6. Path(s1 \o s2, k0, k0, LmLabels, q)
      BY <1>1, <1>2, PathCat
<1>7. Path(s1 \o s2 \o s3, k0, k2, LmLabels, q)
      BY <1>6, <1>3, PathCat
<1>8. Path(s1 \o s2 \o s3 \o s4, k0, k3, LmLabels, q)
      BY <1>7, <1>4, PathCat
<1>9. Path(s1 \o s2 \o s3 \o s4 \o s5, k0, k3, LmLabels, q)
      BY <1>8, <1>5, PathCat
<1> QED BY <1>9 DEF LmGuard, PublishAndLatch, k0, k1, k2, k3, s1, s2, s3, s4, s5

\* Thread 0 decides that a problem has converged and reports it, and all threads hear.
LEMMA LmConvergedPath ==
    ASSUME NEW q, q.n \in Nat
    PROVE  Path(LmConverged, At({}, {}, TRUE, "before"), At({}, {}, TRUE, "before"), LmLabels, q)
<1> DEFINE k0 == At({}, {}, TRUE, "before")
           k1 == At({}, {"status"}, FALSE, "decided")
           k2 == At({}, {"status"}, FALSE, "status")
           k3 == At({}, {}, FALSE, "status")
           k4 == At({"status"}, {}, TRUE, "reg")
           k5 == At({}, {}, TRUE, "reg")
           s1 == Publish("status", {0, 2}, {"sh_g", "fnorm2"}, {})
           s2 == Report({0}, {})
           s3 == Bar
           s4 == Read("status")
           s5 == Bar
           s6 == Branch({2}, "write_exit")
<1>1. Path(s1, k0, k1, LmLabels, q)
      BY PublishPath, Facts DEF Fits
<1>2. Path(s2, k1, k2, LmLabels, q)
      BY ReportPath
<1>3. Path(s3, k2, k3, LmLabels, q)
      BY AtBar
<1>4. Path(s4, k3, k4, LmLabels, q)
      BY ReadPath, Facts DEF Fits
<1>5. Path(s5, k4, k5, LmLabels, q)
      BY AtBar
<1>6. Path(s6, k5, k0, LmLabels, q)
  <2>1. "write_exit" \in DOMAIN LmLabels /\ LmLabels["write_exit"] = At({"lambda"}, {}, FALSE, "after")
        BY LmFacts
  <2>2. Fits({}, {}, {"lambda"}, {})
        BY DEF Fits
  <2> QED BY <2>1, <2>2, BranchPath, Facts
<1> HIDE DEF k0, k1, k2, k3, k4, k5, s1, s2, s3, s4, s5, s6
<1>7. Path(s1 \o s2, k0, k2, LmLabels, q)
      BY <1>1, <1>2, PathCat
<1>8. Path(s1 \o s2 \o s3, k0, k3, LmLabels, q)
      BY <1>7, <1>3, PathCat
<1>9. Path(s1 \o s2 \o s3 \o s4, k0, k4, LmLabels, q)
      BY <1>8, <1>4, PathCat
<1>10. Path(s1 \o s2 \o s3 \o s4 \o s5, k0, k5, LmLabels, q)
      BY <1>9, <1>5, PathCat
<1>11. Path(s1 \o s2 \o s3 \o s4 \o s5 \o s6, k0, k0, LmLabels, q)
      BY <1>10, <1>6, PathCat
<1> QED BY <1>11 DEF LmConverged, k0, k1, k2, k3, k4, k5, s1, s2, s3, s4, s5, s6

\* The damping is raised and the step tried again, or the problem given up.
LEMMA RaiseAndRetryPath ==
    ASSUME NEW q, NEW X, "lambda" \notin X, NEW m
    PROVE  Path(RaiseAndRetry, At(X, {}, TRUE, "before"), m, LmLabels, q)
<1> DEFINE on == {v \in Numbers : v >= Huge}
           k0 == At(X, {}, TRUE, "before")
           k1 == At(X, {"lambda"}, TRUE, "before")
           k2 == At({}, {}, TRUE, "before")
           k3 == At({"lambda"}, {}, TRUE, "before")
           s3 == Read("lambda")
           s4 == Branch(on, "give_up")
           s5 == Again("inner", "damping")
<1>1. Path(Raise, k0, k1, LmLabels, q)
      BY RaisePath, Facts DEF Fits
<1>2. Path(Bar, k1, k2, LmLabels, q)
      BY AtBar
<1>3. Path(s3, k2, k3, LmLabels, q)
      BY ReadPath, Facts DEF Fits
<1>4. Path(s4, k3, k3, LmLabels, q)
  <2> HIDE DEF on
  <2>1. "give_up" \in DOMAIN LmLabels /\ LmLabels["give_up"] = At({"lambda"}, {}, FALSE, "before")
        BY LmFacts
  <2>2. Fits({"lambda"}, {}, {"lambda"}, {})
        BY DEF Fits
  <2> QED BY <2>1, <2>2, BranchPath, Facts
<1>5. Path(s5, k3, m, LmLabels, q)
  <2>1. "damping" \in DOMAIN LmLabels /\ LmLabels["damping"] = At({"lambda"}, {}, FALSE, "before")
        BY LmFacts
  <2>2. Fits({"lambda"}, {}, {"lambda"}, {})
        BY DEF Fits
  <2> QED BY <2>1, <2>2, AgainPath, Facts
<1> HIDE DEF k0, k1, k2, k3, s3, s4, s5
<1>6. Path(Raise \o Bar \o s3 \o s4, k0, k3, LmLabels, q)
      BY <1>1, <1>2, <1>3, <1>4, PathCat4
<1>7. Path(Raise \o Bar \o s3 \o s4 \o s5, k0, m, LmLabels, q)
      BY <1>5, <1>6, PathCat
<1> QED BY <1>7 DEF RaiseAndRetry, on, k0, s3, s4, s5

\* The damped system is solved by thread 0.
LEMMA LmSolvePath ==
    ASSUME NEW q, q.n \in Nat, NEW m
    PROVE  Path(LmSolve, At({"lambda"}, {}, FALSE, "before"), m, LmLabels, q)
<1> DEFINE k0 == At({"lambda"}, {}, FALSE, "before")
           k1 == At({"lambda"}, {"sh_delta"}, FALSE, "before")
           k2 == At({"lambda"}, {"sh_delta", "status"}, FALSE, "before")
           k3 == At({}, {}, FALSE, "before")
           k4 == At({"status"}, {}, TRUE, "before")
           s1 == Publish("sh_delta", {0}, {"lambda", "sh_A", "sh_g"}, {})
           s2 == Publish("status", {0, 1}, {"sh_delta"}, {})
           s3 == Bar
           s4 == Read("status")
           s5 == Branch({1}, "try")
           s6 == RaiseAndRetry
<1>1. Path(s1, k0, k1, LmLabels, q)
      BY PublishPath, Facts DEF Fits
<1>2. Path(s2, k1, k2, LmLabels, q)
      BY PublishPath, Facts DEF Fits
<1>3. Path(s3, k2, k3, LmLabels, q)
      BY AtBar
<1>4. Path(s4, k3, k4, LmLabels, q)
      BY ReadPath, Facts DEF Fits
<1>5. Path(s5, k4, k4, LmLabels, q)
  <2>1. "try" \in DOMAIN LmLabels /\ LmLabels["try"] = At({"status"}, {}, FALSE, "before")
        BY LmFacts
  <2>2. Fits({"status"}, {}, {"status"}, {})
        BY DEF Fits
  <2> QED BY <2>1, <2>2, BranchPath, Facts
<1>6. Path(s6, k4, m, LmLabels, q)
      BY RaiseAndRetryPath
<1> HIDE DEF k0, k1, k2, k3, k4, s1, s2, s3, s4, s5, s6
<1>7. Path(s1 \o s2, k0, k2, LmLabels, q)
      BY <1>1, <1>2, PathCat
<1>8. Path(s1 \o s2 \o s3, k0, k3, LmLabels, q)
      BY <1>7, <1>3, PathCat
<1>9. Path(s1 \o s2 \o s3 \o s4, k0, k4, LmLabels, q)
      BY <1>8, <1>4, PathCat
<1>10. Path(s1 \o s2 \o s3 \o s4 \o s5, k0, k4, LmLabels, q)
      BY <1>9, <1>5, PathCat
<1>11. Path(s1 \o s2 \o s3 \o s4 \o s5 \o s6, k0, m, LmLabels, q)
      BY <1>10, <1>6, PathCat
<1> QED BY <1>11 DEF LmSolve, k0, k1, k2, k3, k4, s1, s2, s3, s4, s5, s6

\* The parameters that are tried.
LEMMA LmTryRoute ==
    ASSUME NEW q, q.n \in Nat, NEW m
    PROVE  Route(LmTry, At({"status"}, {}, FALSE, "before"), m, LmLabels, q, {"try"})
<1> DEFINE k0 == At({"status"}, {}, FALSE, "before")
           k1 == At({"status", "sh_delta"}, {"sh_theta_try"}, FALSE, "before")
           k2 == At({}, {}, FALSE, "before")
           k3 == At({"sh_theta_try"}, {"status"}, FALSE, "before")
           k4 == At({"status"}, {}, TRUE, "before")
           k5 == At({"status"}, {"lambda"}, TRUE, "before")
           k6 == At({}, {}, TRUE, "before")
           s1 == Label("try")
           s2 == Do({"sh_theta"}, {"sh_delta"}, {"sh_theta_try"})
           s3 == Bar
           s4 == Publish("status", {0, 1}, {}, {"sh_theta_try"})
           s5 == Bar
           s6 == Read("status")
           s7 == Branch({1}, "evaluate")
           s8 == Raise
           s9 == Bar
           s10 == Again("inner", "damping")
<1>1. Route(s1, k0, k0, LmLabels, q, {"try"})
      BY LabelRoute, Facts, LmFacts
<1>2. Path(s2, k0, k1, LmLabels, q)
      BY DoPath DEF Fits
<1>3. Path(s3, k1, k2, LmLabels, q)
      BY AtBar
<1>4. Path(s4, k2, k3, LmLabels, q)
      BY PublishPath, Facts DEF Fits
<1>5. Path(s5, k3, k2, LmLabels, q)
      BY AtBar
<1>6. Path(s6, k2, k4, LmLabels, q)
      BY ReadPath, Facts DEF Fits
<1>7. Path(s7, k4, k4, LmLabels, q)
  <2>1. "evaluate" \in DOMAIN LmLabels /\ LmLabels["evaluate"] = At({"status"}, {}, FALSE, "before")
        BY LmFacts
  <2>2. Fits({"status"}, {}, {"status"}, {})
        BY DEF Fits
  <2> QED BY <2>1, <2>2, BranchPath, Facts
<1>8. Path(s8, k4, k5, LmLabels, q)
      BY RaisePath, Facts DEF Fits
<1>9. Path(s9, k5, k6, LmLabels, q)
      BY AtBar
<1>10. Path(s10, k6, m, LmLabels, q)
  <2>1. "damping" \in DOMAIN LmLabels /\ LmLabels["damping"] = At({"lambda"}, {}, FALSE, "before")
        BY LmFacts
  <2>2. Fits({}, {}, {"lambda"}, {})
        BY DEF Fits
  <2> QED BY <2>1, <2>2, AgainPath, Facts
<1> HIDE DEF k0, k1, k2, k3, k4, k5, k6, s1, s2, s3, s4, s5, s6, s7, s8, s9, s10
<1>11. Route(s1 \o s2, k0, k1, LmLabels, q, {"try"})
      BY <1>1, <1>2, RouteOn
<1>12. Route(s1 \o s2 \o s3, k0, k2, LmLabels, q, {"try"})
      BY <1>11, <1>3, RouteOn
<1>13. Route(s1 \o s2 \o s3 \o s4, k0, k3, LmLabels, q, {"try"})
      BY <1>12, <1>4, RouteOn
<1>14. Route(s1 \o s2 \o s3 \o s4 \o s5, k0, k2, LmLabels, q, {"try"})
      BY <1>13, <1>5, RouteOn
<1>15. Route(s1 \o s2 \o s3 \o s4 \o s5 \o s6, k0, k4, LmLabels, q, {"try"})
      BY <1>14, <1>6, RouteOn
<1>16. Route(s1 \o s2 \o s3 \o s4 \o s5 \o s6 \o s7, k0, k4, LmLabels, q, {"try"})
      BY <1>15, <1>7, RouteOn
<1>17. Route(s1 \o s2 \o s3 \o s4 \o s5 \o s6 \o s7 \o s8, k0, k5, LmLabels, q, {"try"})
      BY <1>16, <1>8, RouteOn
<1>18. Route(s1 \o s2 \o s3 \o s4 \o s5 \o s6 \o s7 \o s8 \o s9, k0, k6, LmLabels, q, {"try"})
      BY <1>17, <1>9, RouteOn
<1>19. Route(s1 \o s2 \o s3 \o s4 \o s5 \o s6 \o s7 \o s8 \o s9 \o s10, k0, m, LmLabels, q, {"try"})
      BY <1>18, <1>10, RouteOn
<1> QED BY <1>19 DEF LmTry, k0, k1, k2, k3, k4, k5, k6, s1, s2, s3, s4, s5, s6, s7, s8, s9, s10

\* Their cost.
LEMMA LmEvaluateRoute ==
    ASSUME NEW q, NEW n, Ready(q, n), NEW m
    PROVE  Route(LmEvaluate(n), At({"status"}, {}, FALSE, "before"), m, LmLabels, q, {"evaluate"})
<1> DEFINE k0 == At({"status"}, {}, FALSE, "before")
           k1 == At({}, {}, FALSE, "before")
           k2 == At({}, {}, TRUE, "before")
           k3 == At({}, {"fn_try2"}, FALSE, "before")
           k4 == At({"fn_try2"}, {}, TRUE, "before")
           s1 == Label("evaluate")
           s2 == LmResiduals("sh_theta_try", "rt")
           s3 == block_dot({"rt"}, n, {0})
           s4 == Publish("fn_try2", {0, 1, Infinite}, {}, {})
           s5 == Bar
           s6 == Read("fn_try2")
           s7 == Branch({0, 1}, "compare")
           s8 == RaiseAndRetry
<1>1. q.n \in Nat
      BY DEF Ready, PowerOfTwo
<1>2. Route(s1, k0, k0, LmLabels, q, {"evaluate"})
      BY <1>1, LabelRoute, Facts, LmFacts
<1>3. Path(s2, k0, k1, LmLabels, q)
      BY <1>1, LmResidualsPath
<1>4. Path(s3, k1, k2, LmLabels, q)
      BY <1>1, DotPath, Facts
<1>5. Path(s4, k2, k3, LmLabels, q)
      BY <1>1, PublishPath, Facts DEF Fits
<1>6. Path(s5, k3, k1, LmLabels, q)
      BY <1>1, AtBar
<1>7. Path(s6, k1, k4, LmLabels, q)
      BY <1>1, ReadPath, Facts DEF Fits
<1>8. Path(s7, k4, k4, LmLabels, q)
  <2>1. "compare" \in DOMAIN LmLabels /\ LmLabels["compare"] = At({"fn_try2"}, {}, FALSE, "before")
        BY LmFacts
  <2>2. Fits({"fn_try2"}, {}, {"fn_try2"}, {})
        BY DEF Fits
  <2> QED BY <1>1, <2>1, <2>2, BranchPath, Facts
<1>9. Path(s8, k4, m, LmLabels, q)
      BY <1>1, RaiseAndRetryPath
<1> HIDE DEF k0, k1, k2, k3, k4, s1, s2, s3, s4, s5, s6, s7, s8
<1>10. Route(s1 \o s2, k0, k1, LmLabels, q, {"evaluate"})
      BY <1>2, <1>3, RouteOn
<1>11. Route(s1 \o s2 \o s3, k0, k2, LmLabels, q, {"evaluate"})
      BY <1>10, <1>4, RouteOn
<1>12. Route(s1 \o s2 \o s3 \o s4, k0, k3, LmLabels, q, {"evaluate"})
      BY <1>11, <1>5, RouteOn
<1>13. Route(s1 \o s2 \o s3 \o s4 \o s5, k0, k1, LmLabels, q, {"evaluate"})
      BY <1>12, <1>6, RouteOn
<1>14. Route(s1 \o s2 \o s3 \o s4 \o s5 \o s6, k0, k4, LmLabels, q, {"evaluate"})
      BY <1>13, <1>7, RouteOn
<1>15. Route(s1 \o s2 \o s3 \o s4 \o s5 \o s6 \o s7, k0, k4, LmLabels, q, {"evaluate"})
      BY <1>14, <1>8, RouteOn
<1>16. Route(s1 \o s2 \o s3 \o s4 \o s5 \o s6 \o s7 \o s8, k0, m, LmLabels, q, {"evaluate"})
      BY <1>15, <1>9, RouteOn
<1> QED BY <1>16 DEF LmEvaluate, k0, k1, k2, k3, k4, s1, s2, s3, s4, s5, s6, s7, s8

\* The comparison with the accepted cost.
LEMMA LmCompareRoute ==
    ASSUME NEW q, q.n \in Nat, NEW m
    PROVE  Route(LmCompare, At({"fn_try2"}, {}, FALSE, "before"), m, LmLabels, q, {"compare"})
<1> DEFINE k0 == At({"fn_try2"}, {}, FALSE, "before")
           k1 == At({"fn_try2", "fnorm2"}, {}, TRUE, "before")
           k2 == At({}, {}, TRUE, "before")
           s1 == Label("compare")
           s2 == Compare("fn_try2", "fnorm2")
           s3 == Bar
           s4 == Branch({1}, "accept")
           s5 == RaiseAndRetry
<1>1. Route(s1, k0, k0, LmLabels, q, {"compare"})
      BY LabelRoute, Facts, LmFacts
<1>2. Path(s2, k0, k1, LmLabels, q)
      BY ComparePath, Facts DEF Fits
<1>3. Path(s3, k1, k2, LmLabels, q)
      BY AtBar
<1>4. Path(s4, k2, k2, LmLabels, q)
  <2>1. "accept" \in DOMAIN LmLabels /\ LmLabels["accept"] = At({}, {}, FALSE, "before")
        BY LmFacts
  <2>2. Fits({}, {}, {}, {})
        BY DEF Fits
  <2> QED BY <2>1, <2>2, BranchPath, Facts
<1>5. Path(s5, k2, m, LmLabels, q)
      BY RaiseAndRetryPath
<1> HIDE DEF k0, k1, k2, s1, s2, s3, s4, s5
<1>6. Route(s1 \o s2, k0, k1, LmLabels, q, {"compare"})
      BY <1>1, <1>2, RouteOn
<1>7. Route(s1 \o s2 \o s3, k0, k2, LmLabels, q, {"compare"})
      BY <1>6, <1>3, RouteOn
<1>8. Route(s1 \o s2 \o s3 \o s4, k0, k2, LmLabels, q, {"compare"})
      BY <1>7, <1>4, RouteOn
<1>9. Route(s1 \o s2 \o s3 \o s4 \o s5, k0, m, LmLabels, q, {"compare"})
      BY <1>8, <1>5, RouteOn
<1> QED BY <1>9 DEF LmCompare, k0, k1, k2, s1, s2, s3, s4, s5

\* The step is accepted.
LEMMA LmAcceptRoute ==
    ASSUME NEW q, q.n \in Nat
    PROVE  Route(LmAccept, At({}, {}, FALSE, "before"), At({}, {}, FALSE, "before"), LmLabels, q, {"accept"})
<1> DEFINE k0 == At({}, {}, FALSE, "before")
           k1 == At({}, {"r"}, FALSE, "before")
           k2 == At({}, {"r", "sh_theta"}, FALSE, "before")
           k3 == At({}, {"r", "sh_theta", "lambda", "fnorm2"}, FALSE, "before")
           s1 == Label("accept")
           s2 == Do({"rt"}, {}, {"r"})
           s3 == Do({"sh_theta_try"}, {}, {"sh_theta"})
           s4 == Accept
           s5 == Bar
<1>1. Route(s1, k0, k0, LmLabels, q, {"accept"})
      BY LabelRoute, Facts, LmFacts
<1>2. Path(s2, k0, k1, LmLabels, q)
      BY DoPath DEF Fits
<1>3. Path(s3, k1, k2, LmLabels, q)
      BY DoPath DEF Fits
<1>4. Path(s4, k2, k3, LmLabels, q)
      BY AcceptPath, Facts DEF Fits
<1>5. Path(s5, k3, k0, LmLabels, q)
      BY AtBar
<1> HIDE DEF k0, k1, k2, k3, s1, s2, s3, s4, s5
<1>6. Route(s1 \o s2, k0, k1, LmLabels, q, {"accept"})
      BY <1>1, <1>2, RouteOn
<1>7. Route(s1 \o s2 \o s3, k0, k2, LmLabels, q, {"accept"})
      BY <1>6, <1>3, RouteOn
<1>8. Route(s1 \o s2 \o s3 \o s4, k0, k3, LmLabels, q, {"accept"})
      BY <1>7, <1>4, RouteOn
<1>9. Route(s1 \o s2 \o s3 \o s4 \o s5, k0, k0, LmLabels, q, {"accept"})
      BY <1>8, <1>5, RouteOn
<1> QED BY <1>9 DEF LmAccept, k0, k1, k2, k3, s1, s2, s3, s4, s5

\* Steps are tried until one is accepted.
LEMMA LmDampingRoute ==
    ASSUME NEW q, NEW n, Ready(q, n)
    PROVE  Route(LmDamping(n), At({}, {}, TRUE, "before"), At({}, {}, FALSE, "before"), LmLabels, q, {"damping", "try", "evaluate", "compare", "accept"})
<1> DEFINE k0 == At({}, {}, TRUE, "before")
           k1 == At({"lambda"}, {}, FALSE, "before")
           k2 == At({"status"}, {}, FALSE, "before")
           k3 == At({"fn_try2"}, {}, FALSE, "before")
           k4 == At({}, {}, FALSE, "before")
           s1 == Start("inner")
           s2 == Label("damping")
           s3 == While("inner", MaxInner, "give_up")
           s4 == LmSolve
           s5 == LmTry
           s6 == LmEvaluate(n)
           s7 == LmCompare
           s8 == LmAccept
<1>1. q.n \in Nat
      BY DEF Ready, PowerOfTwo
<1>2. Path(s1, k0, k1, LmLabels, q)
      BY <1>1, StartPath, Facts DEF Fits
<1>3. Route(s2, k1, k1, LmLabels, q, {"damping"})
      BY <1>1, LabelRoute, Facts, LmFacts
<1>4. Path(s3, k1, k1, LmLabels, q)
  <2>1. "give_up" \in DOMAIN LmLabels /\ LmLabels["give_up"] = At({"lambda"}, {}, FALSE, "before")
        BY LmFacts
  <2>2. Fits({"lambda"}, {}, {"lambda"}, {})
        BY DEF Fits
  <2> QED BY <1>1, <2>1, <2>2, WhilePath, Facts
<1>5. Path(s4, k1, k2, LmLabels, q)
      BY <1>1, LmSolvePath
<1>6. Route(s5, k2, k2, LmLabels, q, {"try"})
      BY <1>1, LmTryRoute
<1>7. Route(s6, k2, k3, LmLabels, q, {"evaluate"})
      BY <1>1, LmEvaluateRoute
<1>8. Route(s7, k3, k4, LmLabels, q, {"compare"})
      BY <1>1, LmCompareRoute
<1>9. Route(s8, k4, k4, LmLabels, q, {"accept"})
      BY <1>1, LmAcceptRoute
<1> HIDE DEF k0, k1, k2, k3, k4, s1, s2, s3, s4, s5, s6, s7, s8
<1>10. Route(s1 \o s2, k0, k1, LmLabels, q, {"damping"})
      BY <1>2, <1>3, RouteFrom
<1>11. Route(s1 \o s2 \o s3, k0, k1, LmLabels, q, {"damping"})
      BY <1>10, <1>4, RouteOn
<1>12. Route(s1 \o s2 \o s3 \o s4, k0, k2, LmLabels, q, {"damping"})
      BY <1>11, <1>5, RouteOn
<1>13. Route(s1 \o s2 \o s3 \o s4 \o s5, k0, k2, LmLabels, q, {"damping", "try"})
      BY <1>12, <1>6, RouteCat
<1>14. Route(s1 \o s2 \o s3 \o s4 \o s5 \o s6, k0, k3, LmLabels, q, {"damping", "try", "evaluate"})
      BY <1>13, <1>7, RouteCat
<1>15. Route(s1 \o s2 \o s3 \o s4 \o s5 \o s6 \o s7, k0, k4, LmLabels, q, {"damping", "try", "evaluate", "compare"})
      BY <1>14, <1>8, RouteCat
<1>16. Route(s1 \o s2 \o s3 \o s4 \o s5 \o s6 \o s7 \o s8, k0, k4, LmLabels, q, {"damping", "try", "evaluate", "compare", "accept"})
      BY <1>15, <1>9, RouteCat
<1> QED BY <1>16 DEF LmDamping, k0, k1, k2, k3, k4, s1, s2, s3, s4, s5, s6, s7, s8

\* The ways out.
LEMMA LmExitRoute ==
    ASSUME NEW q, NEW n, Ready(q, n)
    PROVE  Route(LmExit(n), At({}, {}, FALSE, "before"), At({}, {}, TRUE, "after"), LmLabels, q, {"exhausted", "give_up", "write_exit"})
<1> DEFINE k0 == At({}, {}, FALSE, "before")
           k1 == At({}, {}, FALSE, "after")
           k2 == At({"lambda"}, {}, FALSE, "before")
           k3 == At({"lambda"}, {}, FALSE, "after")
           k4 == At({}, {}, TRUE, "after")
           k5 == At({}, {"theta_out"}, TRUE, "after")
           s1 == Label("exhausted")
           s2 == Report({}, {"fnorm2"})
           s3 == Goto("write_exit")
           s4 == Label("give_up")
           s5 == Report({}, {})
           s6 == Label("write_exit")
           s7 == LmResiduals("sh_theta", "r")
           s8 == block_dot({"r"}, n, {0})
           s9 == Do({"sh_theta"}, {}, {"theta_out"})
           s10 == Bar
<1>1. q.n \in Nat
      BY DEF Ready, PowerOfTwo
<1>2. Route(s1, k0, k0, LmLabels, q, {"exhausted"})
      BY <1>1, LabelRoute, Facts, LmFacts
<1>3. Path(s2, k0, k1, LmLabels, q)
      BY <1>1, ReportPath
<1>4. Path(s3, k1, k2, LmLabels, q)
  <2>1. "write_exit" \in DOMAIN LmLabels /\ LmLabels["write_exit"] = At({"lambda"}, {}, FALSE, "after")
        BY LmFacts
  <2>2. Fits({}, {}, {"lambda"}, {})
        BY DEF Fits
  <2> QED BY <1>1, <2>1, <2>2, GotoPath, Facts
<1>5. Route(s4, k2, k2, LmLabels, q, {"give_up"})
      BY <1>1, LabelRoute, Facts, LmFacts
<1>6. Path(s5, k2, k3, LmLabels, q)
      BY <1>1, ReportPath
<1>7. Route(s6, k3, k3, LmLabels, q, {"write_exit"})
      BY <1>1, LabelRoute, Facts, LmFacts
<1>8. Path(s7, k3, k1, LmLabels, q)
      BY <1>1, LmResidualsPath
<1>9. Path(s8, k1, k4, LmLabels, q)
      BY <1>1, DotPath, Facts
<1>10. Path(s9, k4, k5, LmLabels, q)
      BY <1>1, DoPath DEF Fits
<1>11. Path(s10, k5, k4, LmLabels, q)
      BY <1>1, AtBar
<1> HIDE DEF k0, k1, k2, k3, k4, k5, s1, s2, s3, s4, s5, s6, s7, s8, s9, s10
<1>12. Route(s1 \o s2, k0, k1, LmLabels, q, {"exhausted"})
      BY <1>2, <1>3, RouteOn
<1>13. Route(s1 \o s2 \o s3, k0, k2, LmLabels, q, {"exhausted"})
      BY <1>12, <1>4, RouteOn
<1>14. Route(s1 \o s2 \o s3 \o s4, k0, k2, LmLabels, q, {"exhausted", "give_up"})
      BY <1>13, <1>5, RouteCat
<1>15. Route(s1 \o s2 \o s3 \o s4 \o s5, k0, k3, LmLabels, q, {"exhausted", "give_up"})
      BY <1>14, <1>6, RouteOn
<1>16. Route(s1 \o s2 \o s3 \o s4 \o s5 \o s6, k0, k3, LmLabels, q, {"exhausted", "give_up", "write_exit"})
      BY <1>15, <1>7, RouteCat
<1>17. Route(s1 \o s2 \o s3 \o s4 \o s5 \o s6 \o s7, k0, k1, LmLabels, q, {"exhausted", "give_up", "write_exit"})
      BY <1>16, <1>8, RouteOn
<1>18. Route(s1 \o s2 \o s3 \o s4 \o s5 \o s6 \o s7 \o s8, k0, k4, LmLabels, q, {"exhausted", "give_up", "write_exit"})
      BY <1>17, <1>9, RouteOn
<1>19. Route(s1 \o s2 \o s3 \o s4 \o s5 \o s6 \o s7 \o s8 \o s9, k0, k5, LmLabels, q, {"exhausted", "give_up", "write_exit"})
      BY <1>18, <1>10, RouteOn
<1>20. Route(s1 \o s2 \o s3 \o s4 \o s5 \o s6 \o s7 \o s8 \o s9 \o s10, k0, k4, LmLabels, q, {"exhausted", "give_up", "write_exit"})
      BY <1>19, <1>11, RouteOn
<1> QED BY <1>20 DEF LmExit, k0, k1, k2, k3, k4, k5, s1, s2, s3, s4, s5, s6, s7, s8, s9, s10

LmIteration(n) == LmNormalEquations(n) \o LmGuard \o LmConverged \o LmDamping(n)
LmBody(n) ==
    LmStart(n) \o For("it", MaxIter, "iteration", "exhausted", LmIteration(n)) \o LmExit(n)

\* One iteration.
LEMMA LmIterationRoute ==
    ASSUME NEW q, NEW n, Ready(q, n)
    PROVE  Route(LmIteration(n), At({}, {}, FALSE, "before"), At({}, {}, FALSE, "before"), LmLabels, q, {"damping", "try", "evaluate", "compare", "accept"})
<1> DEFINE k0 == At({}, {}, FALSE, "before")
           k1 == At({}, {}, TRUE, "before")
           s1 == LmNormalEquations(n)
           s2 == LmGuard
           s3 == LmConverged
           s4 == LmDamping(n)
<1>1. q.n \in Nat
      BY DEF Ready, PowerOfTwo
<1>2. Path(s1, k0, k0, LmLabels, q)
      BY <1>1, LmNormalPath
<1>3. Path(s2, k0, k1, LmLabels, q)
      BY <1>1, LmGuardPath
<1>4. Path(s3, k1, k1, LmLabels, q)
      BY <1>1, LmConvergedPath
<1>5. Route(s4, k1, k0, LmLabels, q, {"damping", "try", "evaluate", "compare", "accept"})
      BY <1>1, LmDampingRoute
<1> HIDE DEF k0, k1, s1, s2, s3, s4
<1>6. Path(s1 \o s2, k0, k1, LmLabels, q)
      BY <1>2, <1>3, PathCat
<1>7. Path(s1 \o s2 \o s3, k0, k1, LmLabels, q)
      BY <1>6, <1>4, PathCat
<1>8. Route(s1 \o s2 \o s3 \o s4, k0, k0, LmLabels, q, {"damping", "try", "evaluate", "compare", "accept"})
      BY <1>7, <1>5, RouteFrom
<1> QED BY <1>8 DEF LmIteration, k0, k1, s1, s2, s3, s4

\* A problem of batched_lm_kernel.
LEMMA LmBodyRoute ==
    ASSUME NEW q, NEW n, Ready(q, n)
    PROVE  Route(LmBody(n), At({}, {}, FALSE, "before"), At({}, {}, TRUE, "after"), LmLabels, q, {"iteration", "damping", "try", "evaluate", "compare", "accept", "exhausted", "give_up", "write_exit"})
<1> DEFINE k0 == At({}, {}, FALSE, "before")
           k1 == At({}, {}, TRUE, "after")
           s1 == LmStart(n)
           s2 == For("it", MaxIter, "iteration", "exhausted", LmIteration(n))
           s3 == LmExit(n)
<1>1. q.n \in Nat
      BY DEF Ready, PowerOfTwo
<1>2. Path(s1, k0, k0, LmLabels, q)
      BY <1>1, LmStartPath
<1>3. Route(s2, k0, k0, LmLabels, q, {"iteration", "damping", "try", "evaluate", "compare", "accept"})
  <2>1. Route(LmIteration(n), At({}, {}, FALSE, "before"), At({}, {}, FALSE, "before"), LmLabels, q,
              {"damping", "try", "evaluate", "compare", "accept"})
        BY LmIterationRoute
  <2>2. /\ "iteration" \in DOMAIN LmLabels /\ LmLabels["iteration"] = At({}, {}, FALSE, "before")
        /\ "exhausted" \in DOMAIN LmLabels /\ LmLabels["exhausted"] = At({}, {}, FALSE, "before")
        BY LmFacts
  <2>3. {"iteration", "damping", "try", "evaluate", "compare", "accept"}
            \subseteq {"iteration"} \cup {"damping", "try", "evaluate", "compare", "accept"}
        OBVIOUS
  <2> QED BY <2>1, <2>2, <2>3, IterationsRoute
<1>4. Route(s3, k0, k1, LmLabels, q, {"exhausted", "give_up", "write_exit"})
      BY <1>1, LmExitRoute
<1> HIDE DEF k0, k1, s1, s2, s3
<1>5. Route(s1 \o s2, k0, k0, LmLabels, q, {"iteration", "damping", "try", "evaluate", "compare", "accept"})
      BY <1>2, <1>3, RouteFrom
<1>6. Route(s1 \o s2 \o s3, k0, k1, LmLabels, q, {"iteration", "damping", "try", "evaluate", "compare", "accept", "exhausted", "give_up", "write_exit"})
      BY <1>5, <1>4, RouteCat
<1> QED BY <1>6 DEF LmBody, k0, k1, s1, s2, s3

\* The batched Levenberg-Marquardt kernel has a certificate.
LEMMA LmCertified ==
    ASSUME NEW n, PowerOfTwo(n)
    PROVE  \E K, L : Certificate(batched_lm_kernel(n), K, L)
<1> DEFINE q == ASystemEach(n, LmBody(n))
           labels == {"iteration", "damping", "try", "evaluate", "compare", "accept", "exhausted",
                      "give_up", "write_exit"}
<1>1. Ready(q, n)
      BY DEF Ready, ASystemEach
<1>2. batched_lm_kernel(n) = q
      BY DEF batched_lm_kernel, LmBody, LmIteration
<1> HIDE DEF q
<1>3. Route(LmBody(n), At({}, {}, FALSE, "before"), At({}, {}, TRUE, "after"), LmLabels, q, labels)
      BY <1>1, LmBodyRoute
<1>4. /\ DOMAIN LmLabels = labels \cup {"system", "end"}
      /\ LmLabels["system"] = At({}, {}, FALSE, "before") /\ LmLabels["end"] = At({}, {}, FALSE, "before")
      BY LmFacts
<1>5. q = ASystemEach(n, LmBody(n))
      BY DEF q
<1> HIDE DEF labels
<1>6. \E K, L : Certificate(q, K, L)
      BY <1>3, <1>4, <1>5, SystemsCertified
<1> QED BY <1>2, <1>6

-----------------------------------------------------------------------------
(* The transform.  reverse turns the bits of a number round, and turning      *)
(* twice gives the number back.                                              *)

\* Multiples of N, and remainders taken early, do not matter.
LEMMA ModAdd ==
    ASSUME NEW N \in Nat \ {0}, NEW x \in Int, NEW y \in Int, NEW z \in Int
    PROVE  (x + z * N) % N = x % N /\ ((x % N) + y) % N = (x + y) % N /\ x % N \in 0 .. N - 1
<1>1. ASSUME NEW c \in Int, NEW w \in Int PROVE (w + c * N) % N = w % N
  <2> DEFINE a == w \div N
             r == w % N
             ac == a + c
  <2>1. w = a * N + r /\ a \in Int /\ r \in 0 .. N - 1
        BY DivModExist
  <2> HIDE DEF a, r
  <2>2. ac \in Int /\ ac * N = a * N + c * N
        BY <2>1
  <2> HIDE DEF ac
  <2>3. w + c * N = ac * N + r
    <3> DEFINE p == a * N
               s == c * N
    <3>1. p \in Int /\ s \in Int
          BY <2>1
    <3> HIDE DEF p, s
    <3>2. w = p + r /\ ac * N = p + s /\ r \in Int
          BY <2>1, <2>2 DEF p, s
    <3>3. w + s = (p + s) + r
          BY <3>1, <3>2
    <3> QED BY <3>2, <3>3 DEF s
  <2>4. (ac * N + r) % N = r
        BY <2>1, <2>2, DivMod
  <2> QED BY <2>3, <2>4 DEF r
<1>2. (x + z * N) % N = x % N
      BY <1>1
<1>3. x % N \in 0 .. N - 1 /\ x \div N \in Int /\ x = (x \div N) * N + (x % N)
      BY DivModExist
<1>4. ((x % N) + y) % N = (x + y) % N
  <2> DEFINE a == x \div N
             r == x % N
             p == a * N
  <2>1. a \in Int /\ r \in Int /\ p \in Int
        BY <1>3
  <2> HIDE DEF p
  <2>2. x + y = (r + y) + p
    <3>1. x = p + r
          BY <1>3 DEF p
    <3> HIDE DEF r
    <3> QED BY <2>1, <3>1
  <2> HIDE DEF a, r
  <2>3. r + y \in Int
        BY <2>1
  <2>4. ((r + y) + a * N) % N = (r + y) % N
        BY <1>1, <2>1, <2>3
  <2> QED BY <2>2, <2>4 DEF p, r
<1> QED BY <1>2, <1>3, <1>4

ReverseStep(reverse, m) ==
    [x \in Ids(m) |-> IF m = 1 THEN 0 ELSE (x % 2) * (m \div 2) + reverse[m \div 2][x \div 2]]
Reverses(reverse, N) == \A m \in 1 .. N : reverse[m] = ReverseStep(reverse, m)

\* The recursion of fft_bit_reverse has a function that satisfies it.
LEMMA ReverseDefined ==
    ASSUME NEW N \in Nat
    PROVE  \E f : f = [m \in 1 .. N |-> ReverseStep(f, m)]
<1> DEFINE Defined(k) == \E f : f = [m \in 1 .. k |-> ReverseStep(f, m)]
           D == {k \in Nat : Defined(k)}
<1>1. ASSUME NEW k \in Nat, \A j \in 0 .. k - 1 : j \in D PROVE k \in D
  <2>1. CASE k = 0
    <3> DEFINE f == [m \in 1 .. 0 |-> 0]
    <3>1. \A m \in 1 .. 0 : f[m] = ReverseStep(f, m)
          OBVIOUS
    <3>2. f = [m \in 1 .. 0 |-> ReverseStep(f, m)]
          OBVIOUS
    <3>3. Defined(0)
          BY <3>2
    <3> QED BY <2>1, <3>3
  <2>2. CASE k # 0
    <3>1. k - 1 \in 0 .. k - 1
          BY <2>2
    <3>2. PICK g : g = [m \in 1 .. k - 1 |-> ReverseStep(g, m)]
          BY <1>1, <3>1
    <3> DEFINE f == [m \in 1 .. k |-> IF m = k THEN ReverseStep(g, k) ELSE g[m]]
    <3>3. ASSUME NEW m \in 1 .. k PROVE ReverseStep(f, m) = ReverseStep(g, m)
      <4>1. m # 1 => f[m \div 2] = g[m \div 2]
            OBVIOUS
      <4> HIDE DEF f
      <4>2. CASE m = 1
            BY <4>2 DEF ReverseStep
      <4>3. CASE m # 1
        <5>1. f[m \div 2] = g[m \div 2]
              BY <4>1, <4>3
        <5> QED BY <5>1, Zenon DEF ReverseStep
      <4> QED BY <4>2, <4>3
    <3>4. ASSUME NEW m \in 1 .. k PROVE f[m] = ReverseStep(g, m)
      <4>1. CASE m = k
            BY <4>1
      <4>2. CASE m # k
        <5>1. m \in 1 .. k - 1 /\ f[m] = g[m]
              BY <4>2
        <5>2. g[m] = ReverseStep(g, m)
              BY <3>2, <5>1
        <5> QED BY <5>1, <5>2
      <4> QED BY <4>1, <4>2
    <3>5. f = [m \in 1 .. k |-> ReverseStep(f, m)]
      <4>1. \A m \in 1 .. k : f[m] = ReverseStep(f, m)
            BY <3>3, <3>4
      <4>2. f = [m \in 1 .. k |-> f[m]]
            OBVIOUS
      <4> HIDE DEF f
      <4> QED BY <4>1, <4>2
    <3> HIDE DEF f
    <3>6. Defined(k)
          BY <3>5
    <3> QED BY <3>6
  <2> QED BY <2>1, <2>2
<1> HIDE DEF D
<1>2. N \in D
      BY <1>1, Induct
<1> QED BY <1>2 DEF D

\* fft_bit_reverse is that function's value.
LEMMA ReverseExists ==
    ASSUME NEW N \in Nat \ {0}
    PROVE  \E reverse : Reverses(reverse, N) /\ fft_bit_reverse(N) = reverse[N]
<1> DEFINE reverse == CHOOSE f : f = [m \in 1 .. N |-> ReverseStep(f, m)]
<1>1. fft_bit_reverse(N) = reverse[N]
      BY DEF fft_bit_reverse, ReverseStep
<1>2. reverse = [m \in 1 .. N |-> ReverseStep(reverse, m)]
  <2>1. \E f : f = [m \in 1 .. N |-> ReverseStep(f, m)]
        BY ReverseDefined
  <2> QED BY <2>1, Zenon
<1> HIDE DEF reverse
<1>3. \A m \in 1 .. N : reverse[m] = ReverseStep(reverse, m)
      BY <1>2, Zenon
<1> QED BY <1>1, <1>3 DEF Reverses

\* The low bit of a number becomes the high one.
LEMMA LowBit ==
    ASSUME NEW N, NEW R, Reverses(R, N), NEW h \in Nat \ {0}, 2 * h \in 1 .. N, NEW x \in 0 .. 2 * h - 1
    PROVE  x \div 2 \in 0 .. h - 1 /\ x % 2 \in 0 .. 1 /\ R[2 * h][x] = (x % 2) * h + R[h][x \div 2]
<1> DEFINE m == 2 * h
<1>1. m # 1 /\ m \div 2 = h /\ x \in Ids(m)
      BY DEF Ids
<1>2. R[m] = ReverseStep(R, m)
      BY DEF Reverses
<1> HIDE DEF m
<1>3. R[m][x] = (x % 2) * h + R[h][x \div 2]
      BY <1>1, <1>2 DEF ReverseStep
<1> QED BY <1>3 DEF m

\* Of one sample there is nothing to reverse.
LEMMA OneBit ==
    ASSUME NEW N \in Nat \ {0}, NEW R, Reverses(R, N)
    PROVE  R[1][0] = 0
<1>1. R[1] = ReverseStep(R, 1) /\ 0 \in Ids(1)
      BY DEF Reverses, Ids
<1> QED BY <1>1 DEF ReverseStep

\* Reversed numbers stay in range.
LEMMA ReverseRange ==
    ASSUME NEW N \in Nat \ {0}, NEW R, Reverses(R, N), NEW m, PowerOfTwo(m), m <= N, NEW x \in 0 .. m - 1
    PROVE  R[m][x] \in 0 .. m - 1
<1> DEFINE D == {k \in Nat : PowerOfTwo(k) /\ k <= N => \A y \in 0 .. k - 1 : R[k][y] \in 0 .. k - 1}
<1>1. ASSUME NEW k \in Nat, \A j \in 0 .. k - 1 : j \in D PROVE k \in D
  <2> SUFFICES ASSUME PowerOfTwo(k), k <= N, NEW y \in 0 .. k - 1 PROVE R[k][y] \in 0 .. k - 1
      OBVIOUS
  <2>1. CASE k = 1
        BY <2>1, OneBit
  <2>2. CASE k # 1
    <3> DEFINE h == k \div 2
    <3>1. h \in Nat \ {0} /\ k = 2 * h /\ PowerOfTwo(h)
          BY <2>2, Halved
    <3> HIDE DEF h
    <3>2. y \div 2 \in 0 .. h - 1 /\ y % 2 \in 0 .. 1 /\ R[2 * h][y] = (y % 2) * h + R[h][y \div 2]
      <4>1. 2 * h \in 1 .. N /\ y \in 0 .. 2 * h - 1
            BY <3>1
      <4> QED BY <3>1, <4>1, LowBit
    <3>3. R[h][y \div 2] \in 0 .. h - 1
          BY <1>1, <3>1, <3>2
    <3>4. (y % 2) * h \in {0, h}
          BY <3>1, <3>2
    <3> QED BY <3>1, <3>2, <3>3, <3>4
  <2> QED BY <2>1, <2>2
<1> HIDE DEF D
<1>2. m \in D
      BY <1>1, Induct DEF PowerOfTwo
<1> QED BY <1>2 DEF D

\* The high bit becomes the low one.
LEMMA HighBit ==
    ASSUME NEW N \in Nat \ {0}, NEW R, Reverses(R, N), NEW h, PowerOfTwo(h), 2 * h <= N,
           NEW hi \in 0 .. 1, NEW lo \in 0 .. h - 1
    PROVE  R[2 * h][hi * h + lo] = 2 * R[h][lo] + hi
<1> DEFINE D == {k \in Nat : PowerOfTwo(k) /\ 2 * k <= N =>
                     \A y \in 0 .. k - 1 : R[2 * k][hi * k + y] = 2 * R[k][y] + hi}
<1>1. ASSUME NEW k \in Nat, \A j \in 0 .. k - 1 : j \in D PROVE k \in D
  <2> SUFFICES ASSUME PowerOfTwo(k), 2 * k <= N, NEW y \in 0 .. k - 1
               PROVE  R[2 * k][hi * k + y] = 2 * R[k][y] + hi
      OBVIOUS
  <2>1. CASE k = 1
    <3>1. 2 * 1 \in 1 .. N /\ hi \in 0 .. 2 * 1 - 1 /\ hi * 1 + 0 = hi /\ hi % 2 = hi /\ hi \div 2 = 0
          BY <2>1
    <3>2. R[2 * 1][hi] = (hi % 2) * 1 + R[1][hi \div 2]
          BY <3>1, LowBit
    <3>3. R[1][0] = 0
          BY OneBit
    <3>4. y = 0
          BY <2>1
    <3> QED BY <2>1, <3>1, <3>2, <3>3, <3>4
  <2>2. CASE k # 1
    <3> DEFINE g == k \div 2
               x == hi * k + y
               z == hi * g + (y \div 2)
    <3>1. g \in Nat \ {0} /\ k = 2 * g /\ PowerOfTwo(g)
          BY <2>2, Halved
    <3> HIDE DEF g
    <3>2. 2 * k \in 1 .. N /\ 2 * g \in 1 .. N /\ k \in Nat \ {0}
          BY <3>1
    <3>3. x \in 0 .. 2 * k - 1 /\ y \in 0 .. 2 * g - 1
          BY <3>1
    <3>4. x \div 2 = z /\ x % 2 = y % 2
      <4>1. CASE hi = 0
            BY <3>1, <4>1
      <4>2. CASE hi = 1
            BY <3>1, <4>2
      <4> QED BY <4>1, <4>2
    <3>5. R[2 * k][x] = (y % 2) * k + R[k][z]
      <4>1. x \in 0 .. 2 * k - 1 /\ 2 * k \in 1 .. N /\ k \in Nat \ {0}
            BY <3>2, <3>3
      <4> HIDE DEF x, D
      <4>2. R[2 * k][x] = (x % 2) * k + R[k][x \div 2]
            BY <4>1, LowBit
      <4> QED BY <3>4, <4>2
    <3>6. y \div 2 \in 0 .. g - 1 /\ y % 2 \in 0 .. 1 /\ R[k][y] = (y % 2) * g + R[g][y \div 2]
          BY <3>1, <3>2, <3>3, LowBit
    <3>7. R[k][z] = 2 * R[g][y \div 2] + hi
      <4>1. g \in D /\ 2 * g <= N
            BY <1>1, <3>1, <3>2
      <4> QED BY <3>1, <3>6, <4>1
    <3>8. R[g][y \div 2] \in 0 .. g - 1
          BY <3>1, <3>2, <3>6, ReverseRange
    <3> DEFINE w == R[g][y \div 2]
    <3>9. (y % 2) * k + (2 * w + hi) = 2 * ((y % 2) * g + w) + hi
      <4> HIDE DEF w
      <4>1. CASE y % 2 = 0
            BY <3>1, <3>8, <4>1 DEF w
      <4>2. CASE y % 2 = 1
            BY <3>1, <3>8, <4>2 DEF w
      <4> QED BY <3>6, <4>1, <4>2
    <3> HIDE DEF x, z
    <3>10. R[2 * k][x] = 2 * R[k][y] + hi
          BY <3>5, <3>6, <3>7, <3>9
    <3> QED BY <3>10 DEF x
  <2> QED BY <2>1, <2>2
<1> HIDE DEF D
<1>2. h \in D
      BY <1>1, Induct DEF PowerOfTwo
<1> QED BY <1>2 DEF D

\* To reverse twice is to do nothing.
THEOREM ReverseTwice ==
    ASSUME NEW N \in Nat \ {0}, NEW R, Reverses(R, N), NEW m, PowerOfTwo(m), m <= N, NEW x \in 0 .. m - 1
    PROVE  R[m][R[m][x]] = x
<1> DEFINE D == {k \in Nat : PowerOfTwo(k) /\ k <= N => \A y \in 0 .. k - 1 : R[k][R[k][y]] = y}
<1>1. ASSUME NEW k \in Nat, \A j \in 0 .. k - 1 : j \in D PROVE k \in D
  <2> SUFFICES ASSUME PowerOfTwo(k), k <= N, NEW y \in 0 .. k - 1 PROVE R[k][R[k][y]] = y
      OBVIOUS
  <2>1. CASE k = 1
        BY <2>1, OneBit
  <2>2. CASE k # 1
    <3> DEFINE h == k \div 2
               lo == R[h][y \div 2]
    <3>1. h \in Nat \ {0} /\ k = 2 * h /\ PowerOfTwo(h)
          BY <2>2, Halved
    <3> HIDE DEF h
    <3>2. 2 * h \in 1 .. N /\ y \in 0 .. 2 * h - 1 /\ h <= N /\ 2 * h <= N
          BY <3>1
    <3>3. y \div 2 \in 0 .. h - 1 /\ y % 2 \in 0 .. 1 /\ R[k][y] = (y % 2) * h + lo
          BY <3>1, <3>2, LowBit
    <3>4. lo \in 0 .. h - 1
          BY <3>1, <3>2, <3>3, ReverseRange
    <3>5. R[h][lo] = y \div 2
          BY <1>1, <3>1, <3>2, <3>3
    <3> HIDE DEF lo
    <3>6. R[2 * h][(y % 2) * h + lo] = 2 * R[h][lo] + (y % 2)
          BY <3>1, <3>2, <3>3, <3>4, HighBit
    <3>7. 2 * (y \div 2) + (y % 2) = y
          OBVIOUS
    <3> QED BY <3>1, <3>3, <3>5, <3>6, <3>7
  <2> QED BY <2>1, <2>2
<1> HIDE DEF D
<1>2. m \in D
      BY <1>1, Induct DEF PowerOfTwo
<1> QED BY <1>2 DEF D

\* What a transform of size samples, every M-th from r on, has in element k.
Freq(size, M, r, k, N) == {<<i * M + r, (i * (k * M)) % N>> : i \in Ids(size)}

\* A butterfly makes a transform of two of half its size.
Joins(half, e, r, k, tw, kk, N) ==
    SetToBag(Freq(half, 2 * e, r, k, N)) (+) Twisted(SetToBag(Freq(half, 2 * e, e + r, k, N)), tw, N)
    = SetToBag(Freq(2 * half, e, r, kk, N))

\* The twiddle of a butterfly joins the frequencies of its two halves.
LEMMA FreqSplit ==
    ASSUME NEW half \in Nat \ {0}, NEW e \in Nat \ {0}, NEW N \in Nat \ {0}, N = 2 * (half * e),
           NEW r \in 0 .. e - 1, NEW k \in 0 .. half - 1, NEW s \in 0 .. 1
    PROVE  Joins(half, e, r, k, k * e + s * (half * e), k + s * half, N)
<1> DEFINE tw == k * e + s * (half * e)
           KE == (k + s * half) * e
           A == Freq(half, 2 * e, r, k, N)
           B == Freq(half, 2 * e, e + r, k, N)
           T == Turned(B, tw, N)
           C == Freq(2 * half, e, r, k + s * half, N)
<1>1. k * e \in Int /\ half * e \in Int /\ s * (half * e) \in Int /\ tw \in Int
      OBVIOUS
<1>2. KE = tw /\ KE \in Int
      OBVIOUS
\* The even terms.
<1>3. ASSUME NEW i \in Int
      PROVE  i * (2 * e) + r = (2 * i) * e + r /\ (i * (k * (2 * e))) % N = ((2 * i) * KE) % N
  <2> DEFINE x == i * (k * (2 * e))
             z == i * s
  <2>1. x \in Int /\ z \in Int
        OBVIOUS
  <2>2. (2 * i) * KE = x + z * N
    <3> DEFINE p == k * e
               c == half * e
    <3>1. p \in Int /\ c \in Int /\ KE = p + s * c /\ k * (2 * e) = 2 * p /\ N = 2 * c
          OBVIOUS
    <3>2. i * (2 * p) = 2 * (i * p) /\ (2 * i) * (p + s * c) = 2 * (i * p) + (2 * i) * (s * c)
      <4> HIDE DEF p, c
      <4> QED BY <3>1
    <3>3. (2 * i) * (s * c) = (i * s) * (2 * c)
      <4> HIDE DEF p, c
      <4> QED BY <3>1
    <3> HIDE DEF p, c, KE
    <3> QED BY <3>1, <3>2, <3>3
  <2> HIDE DEF x, z, KE
  <2>3. (x + z * N) % N = x % N
        BY <2>1, ModAdd
  <2> QED BY <2>2, <2>3 DEF x
\* The odd terms.
<1>4. ASSUME NEW i \in Int
      PROVE  /\ i * (2 * e) + (e + r) = (2 * i + 1) * e + r
             /\ (((i * (k * (2 * e))) % N) + tw) % N = ((2 * i + 1) * KE) % N
  <2> DEFINE x == i * (k * (2 * e))
             y == (2 * i) * KE
  <2>1. x \in Int /\ y \in Int
        BY <1>2
  <2>2. x % N = y % N
        BY <1>3
  <2>3. (2 * i + 1) * KE = y + tw
    <3> HIDE DEF KE, tw
    <3> QED BY <1>1, <1>2 DEF y
  <2>4. i * (2 * e) + (e + r) = (2 * i + 1) * e + r
        OBVIOUS
  <2> HIDE DEF x, y, tw, KE
  <2>5. ((x % N) + tw) % N = (x + tw) % N /\ ((y % N) + tw) % N = (y + tw) % N
    <3>1. \A w \in Int : ((w % N) + tw) % N = (w + tw) % N
      <4>1. tw \in Int
            BY <1>1
      <4>2. 0 \in Int
            OBVIOUS
      <4> QED BY <4>1, <4>2, ModAdd, Zenon
    <3> QED BY <2>1, <3>1, Zenon
  <2>6. ((x % N) + tw) % N = (y + tw) % N
        BY <2>2, <2>5
  <2> QED BY <2>3, <2>4, <2>6 DEF x
<1>5. A = {<<(2 * i) * e + r, ((2 * i) * KE) % N>> : i \in Ids(half)}
  <2>1. \A i \in Ids(half) :
            <<i * (2 * e) + r, (i * (k * (2 * e))) % N>> = <<(2 * i) * e + r, ((2 * i) * KE) % N>>
        BY <1>3 DEF Ids
  <2> QED BY <2>1 DEF Freq
<1>6. T = {<<(2 * i + 1) * e + r, ((2 * i + 1) * KE) % N>> : i \in Ids(half)}
  <2>1. B = {<<i * (2 * e) + (e + r), (i * (k * (2 * e))) % N>> : i \in Ids(half)}
        BY DEF Freq
  <2>2. T = {<<i * (2 * e) + (e + r), (((i * (k * (2 * e))) % N) + tw) % N>> : i \in Ids(half)}
    <3> DEFINE t(i) == <<i * (2 * e) + (e + r), (((i * (k * (2 * e))) % N) + tw) % N>>
               b(i) == <<i * (2 * e) + (e + r), (i * (k * (2 * e))) % N>>
    <3>1. \A i : <<b(i)[1], (b(i)[2] + tw) % N>> = t(i)
          OBVIOUS
    <3>2. B = {b(i) : i \in Ids(half)}
          BY <2>1
    <3> HIDE DEF B, tw, t, b
    <3>3. T = {t(i) : i \in Ids(half)}
          BY <3>1, <3>2 DEF Turned
    <3> QED BY <3>3 DEF t
  <2>3. \A i \in Ids(half) :
            <<i * (2 * e) + (e + r), (((i * (k * (2 * e))) % N) + tw) % N>>
            = <<(2 * i + 1) * e + r, ((2 * i + 1) * KE) % N>>
        BY <1>4 DEF Ids
  <2> HIDE DEF T, tw, KE
  <2> QED BY <2>2, <2>3
<1>7. C = {<<i * e + r, (i * KE) % N>> : i \in Ids(2 * half)}
      BY DEF Freq
<1>8. AreTerms(B, N)
  <2>1. \A i \in Ids(half) : (i * (k * (2 * e))) % N \in Ids(N)
    <3>1. ASSUME NEW i \in Ids(half) PROVE (i * (k * (2 * e))) % N \in Ids(N)
      <4> DEFINE x == i * (k * (2 * e))
      <4>1. x \in Int
            BY DEF Ids
      <4> HIDE DEF x
      <4>2. x % N \in 0 .. N - 1
            BY <4>1, DivModExist
      <4> QED BY <4>2 DEF x, Ids
    <3> QED BY <3>1
  <2> QED BY <2>1 DEF AreTerms, Freq
<1> HIDE DEF A, B, T, C, tw, KE
<1>9. A \cup T = C
  <2>1. A \subseteq C
    <3>1. \A i \in Ids(half) : 2 * i \in Ids(2 * half)
          BY DEF Ids
    <3> QED BY <1>5, <1>7, <3>1
  <2>2. T \subseteq C
    <3>1. \A i \in Ids(half) : 2 * i + 1 \in Ids(2 * half)
          BY DEF Ids
    <3> QED BY <1>6, <1>7, <3>1
  <2>3. ASSUME NEW c \in C PROVE c \in A \cup T
    <3>1. PICK i \in Ids(2 * half) : c = <<i * e + r, (i * KE) % N>>
          BY <1>7
    <3> DEFINE j == i \div 2
    <3>2. j \in Ids(half) /\ (i = 2 * j \/ i = 2 * j + 1)
          BY DEF Ids
    <3> HIDE DEF j
    <3>3. CASE i = 2 * j
          BY <1>5, <3>1, <3>2, <3>3
    <3>4. CASE i = 2 * j + 1
          BY <1>6, <3>1, <3>2, <3>4
    <3> QED BY <3>2, <3>3, <3>4
  <2> QED BY <2>1, <2>2, <2>3
<1>10. A \cap T = {}
  <2> SUFFICES ASSUME NEW c \in A, c \in T PROVE FALSE
      OBVIOUS
  <2>1. PICK i \in Ids(half) : c[1] = (2 * i) * e + r
        BY <1>5
  <2>2. PICK j \in Ids(half) : c[1] = (2 * j + 1) * e + r
        BY <1>6
  <2>3. 2 * i \in Int /\ 2 * j + 1 \in Int
        BY DEF Ids
  <2>4. ((2 * i) * e + r) \div e = 2 * i /\ ((2 * j + 1) * e + r) \div e = 2 * j + 1
        BY <2>3, DivMod
  <2>5. 2 * i = 2 * j + 1
        BY <2>1, <2>2, <2>4
  <2> QED BY <2>5 DEF Ids
<1>11. SetToBag(A) (+) SetToBag(T) = SetToBag(C)
       BY <1>9, <1>10, AddBags
<1>12. Twisted(SetToBag(B), tw, N) = SetToBag(T)
       BY <1>1, <1>8, TurnBag DEF T
<1>13. SetToBag(A) (+) Twisted(SetToBag(B), tw, N) = SetToBag(C)
       BY <1>11, <1>12
<1> QED BY <1>13 DEF A, B, C, tw, Joins

-----------------------------------------------------------------------------
(* The stages.  After those up to size, cell p holds element p % size of the  *)
(* transform of the samples that agree on their low bits.                    *)

Top(len, b) == (b \div (len \div 2)) * len + (b % (len \div 2))
Twist(len, samples, b) == (b % (len \div 2)) * (samples \div len)
Butterfly(len, samples, b) ==
    {Add(<<"s", Top(len, b)>>, <<"s", Top(len, b)>>, <<"s", Top(len, b) + (len \div 2)>>,
         Twist(len, samples, b)),
     Add(<<"s", Top(len, b) + (len \div 2)>>, <<"s", Top(len, b)>>, <<"s", Top(len, b) + (len \div 2)>>,
         Twist(len, samples, b) + samples \div 2)}
Butterflies(len, samples, n) ==
    [t \in Ids(n) |-> UNION {Butterfly(len, samples, b) : b \in {b \in Ids(samples \div 2) : b % n = t}}]

Cells(N) == {"s"} \X Ids(N)
Has(R, N, half, M) ==
    [c \in Cells(N) |-> SetToBag(Freq(half, M, R[M][c[2] \div half], c[2] % half, N))]

\* The butterfly of a cell.
Pair(half, p) == (p \div (2 * half)) * half + (p % half)

\* Where the two cells of a butterfly are.
Placed(half, e, N, b, g, k, u) ==
    /\ g \in 0 .. e - 1 /\ k \in 0 .. half - 1
    /\ u \in Ids(N) /\ u + half \in Ids(N) /\ u + half # u
    /\ Pair(half, u) = b /\ Pair(half, u + half) = b
    /\ u \div half = 2 * g /\ u % half = k
    /\ (u + half) \div half = 2 * g + 1 /\ (u + half) % half = k
    /\ u \div (2 * half) = g /\ u % (2 * half) = k
    /\ (u + half) \div (2 * half) = g /\ (u + half) % (2 * half) = k + half

\* Where a butterfly's top and bottom cells are, and which samples they hold.
LEMMA TopIs ==
    ASSUME NEW half \in Nat \ {0}, NEW e \in Nat \ {0}, NEW N \in Nat \ {0}, N = 2 * (half * e),
           NEW b \in Ids(half * e), NEW g, g = b \div half, NEW k, k = b % half,
           NEW u, u = Top(2 * half, b)
    PROVE  Placed(half, e, N, b, g, k, u)
<1> DEFINE c == g * half
<1>1. b = g * half + k /\ g \in Int /\ k \in 0 .. half - 1 /\ b \in Int
  <2>1. b \in Int /\ half \in Nat \ {0}
        BY DEF Ids
  <2>2. b = (b \div half) * half + (b % half) /\ b \div half \in Int /\ b % half \in 0 .. half - 1
        BY <2>1, DivModExist, Zenon
  <2> QED BY <2>1, <2>2, Zenon
<1>2. g \in 0 .. e - 1
  <2>1. b >= 0 /\ b < half * e
        BY DEF Ids
  <2>2. g >= 0
    <3> SUFFICES ASSUME g <= -1 PROVE FALSE
        BY <1>1
    <3>1. g * half <= (-1) * half
          BY <1>1
    <3> QED BY <1>1, <2>1, <3>1
  <2>3. g < e
    <3> SUFFICES ASSUME g >= e PROVE FALSE
        BY <1>1
    <3>1. g * half >= e * half
          BY <1>1
    <3>2. e * half = half * e /\ half * e \in Int /\ g * half \in Int
          BY <1>1
    <3> QED BY <1>1, <2>1, <3>1, <3>2
  <2> QED BY <1>1, <2>2, <2>3
<1>3. (2 * half) \div 2 = half
      OBVIOUS
<1>4. u = g * (2 * half) + k
      BY <1>3 DEF Top
<1>5. c \in Nat /\ g * (2 * half) = 2 * c /\ (2 * g) * half = 2 * c /\ (2 * g + 1) * half = 2 * c + half
      BY <1>2
<1>6. u = (2 * g) * half + k /\ u + half = (2 * g + 1) * half + k /\ u + half = g * (2 * half) + (k + half)
  <2> HIDE DEF c
  <2> QED BY <1>1, <1>4, <1>5
<1>7. u \div half = 2 * g /\ u % half = k
  <2>1. 2 * g \in Int
        BY <1>2
  <2>2. ((2 * g) * half + k) \div half = 2 * g /\ ((2 * g) * half + k) % half = k
        BY <1>1, <2>1, DivMod, Zenon
  <2> QED BY <1>6, <2>2, Zenon
<1>8. (u + half) \div half = 2 * g + 1 /\ (u + half) % half = k
  <2>1. 2 * g + 1 \in Int
        BY <1>2
  <2>2. ((2 * g + 1) * half + k) \div half = 2 * g + 1 /\ ((2 * g + 1) * half + k) % half = k
        BY <1>1, <2>1, DivMod, Zenon
  <2> QED BY <1>6, <2>2, Zenon
<1>9. u \div (2 * half) = g /\ u % (2 * half) = k
  <2>1. 2 * half \in Nat \ {0} /\ k \in 0 .. 2 * half - 1 /\ g \in Int
        BY <1>1
  <2>2. (g * (2 * half) + k) \div (2 * half) = g /\ (g * (2 * half) + k) % (2 * half) = k
        BY <1>1, <2>1, DivMod, Zenon
  <2> QED BY <1>4, <2>2, Zenon
<1>10. (u + half) \div (2 * half) = g /\ (u + half) % (2 * half) = k + half
  <2>1. 2 * half \in Nat \ {0} /\ k + half \in 0 .. 2 * half - 1
        BY <1>1
  <2>2. (g * (2 * half) + (k + half)) \div (2 * half) = g /\ (g * (2 * half) + (k + half)) % (2 * half) = k + half
        BY <1>1, <2>1, DivMod, Zenon
  <2> QED BY <1>6, <2>2, Zenon
<1>11. u \in Ids(N) /\ u + half \in Ids(N) /\ u + half # u
  <2> DEFINE d == e * half
             f == (e - 1) * half
  <2>1. c <= f /\ f = d - half /\ half * e = d /\ d \in Int
        BY <1>2
  <2> HIDE DEF c, d, f
  <2> QED BY <1>1, <1>4, <1>5, <2>1 DEF Ids
<1>12. Pair(half, u) = b /\ Pair(half, u + half) = b
       BY <1>1, <1>7, <1>8, <1>9, <1>10 DEF Pair
<1> QED BY <1>1, <1>2, <1>7, <1>8, <1>9, <1>10, <1>11, <1>12 DEF Placed

\* Every cell has its butterfly.
LEMMA CellTop ==
    ASSUME NEW half \in Nat \ {0}, NEW e \in Nat \ {0}, NEW N \in Nat \ {0}, N = 2 * (half * e), NEW p \in Ids(N)
    PROVE  /\ Pair(half, p) \in Ids(half * e)
           /\ p = Top(2 * half, Pair(half, p)) \/ p = Top(2 * half, Pair(half, p)) + half
<1> DEFINE g == p \div (2 * half)
           x == p % (2 * half)
           k == p % half
           c == g * half
           b == Pair(half, p)
<1>1. p = g * (2 * half) + x /\ g \in Int /\ x \in 0 .. 2 * half - 1 /\ p \in Int
  <2>1. 2 * half \in Nat \ {0} /\ p \in Int
        BY DEF Ids
  <2> QED BY <2>1, DivModExist
<1>2. c \in Int /\ g * (2 * half) = 2 * c /\ (2 * g) * half = 2 * c /\ (2 * g + 1) * half = 2 * c + half
  <2> HIDE DEF g
  <2> QED BY <1>1
<1>3. g \in 0 .. e - 1
  <2>1. p >= 0 /\ p < 2 * (half * e) /\ half * e \in Int
        BY DEF Ids
  <2> HIDE DEF g, x
  <2>2. g >= 0
    <3> SUFFICES ASSUME g <= -1 PROVE FALSE
        BY <1>1
    <3>1. g * half <= (-1) * half
          BY <1>1
    <3> HIDE DEF c
    <3> QED BY <1>1, <1>2, <2>1, <3>1 DEF c
  <2>3. g < e
    <3> SUFFICES ASSUME g >= e PROVE FALSE
        BY <1>1
    <3>1. g * half >= e * half /\ e * half = half * e
          BY <1>1
    <3> QED BY <1>1, <1>2, <2>1, <3>1
  <2> QED BY <1>1, <2>2, <2>3
<1>4. \/ x = k /\ k \in 0 .. half - 1
      \/ x = k + half /\ k \in 0 .. half - 1
  <2>1. CASE x < half
    <3>1. p = (2 * g) * half + x /\ 2 * g \in Int /\ x \in 0 .. half - 1
      <4> HIDE DEF g, x, c
      <4> QED BY <1>1, <1>2, <2>1
    <3>2. p % half = x
      <4> HIDE DEF g, x
      <4> QED BY <3>1, DivMod
    <3> QED BY <3>1, <3>2
  <2>2. CASE ~(x < half)
    <3>1. p = (2 * g + 1) * half + (x - half) /\ 2 * g + 1 \in Int /\ x - half \in 0 .. half - 1
      <4> HIDE DEF g, x, c
      <4> QED BY <1>1, <1>2, <2>2
    <3>2. p % half = x - half
      <4> HIDE DEF g, x
      <4> QED BY <3>1, DivMod
    <3> HIDE DEF x
    <3> QED BY <1>1, <3>1, <3>2
  <2> QED BY <2>1, <2>2
<1>5. b = g * half + k
      BY DEF Pair
<1> HIDE DEF g, x, k, b
<1>6. b \div half = g /\ b % half = k
      BY <1>1, <1>4, <1>5, DivMod
<1>7. Top(2 * half, b) = g * (2 * half) + k
  <2>1. (2 * half) \div 2 = half
        OBVIOUS
  <2> QED BY <1>6, <2>1 DEF Top
<1>8. b \in Ids(half * e)
  <2> DEFINE d == half * e
             f == (e - 1) * half
  <2>1. c <= f /\ f = d - half /\ d \in Int /\ 0 <= c
        BY <1>3
  <2> HIDE DEF c, d, f
  <2>2. b \in Ids(d)
        BY <1>2, <1>4, <1>5, <2>1 DEF Ids, c
  <2> QED BY <2>2 DEF d
<1>9. p = Top(2 * half, b) \/ p = Top(2 * half, b) + half
  <2> HIDE DEF c
  <2> QED BY <1>1, <1>2, <1>4, <1>7
<1> QED BY <1>8, <1>9 DEF b

\* Neighbours are reversed to numbers e apart.
Neighbours(R, e, g) == R[2 * e][2 * g] = R[e][g] /\ R[2 * e][2 * g + 1] = e + R[e][g]

\* Samples that agree on their low bits end up next to each other.
LEMMA LowBits ==
    ASSUME NEW N \in Nat \ {0}, NEW R, Reverses(R, N), NEW e, PowerOfTwo(e), 2 * e <= N, NEW g \in 0 .. e - 1
    PROVE  Neighbours(R, e, g)
<1>1. e \in Nat \ {0} /\ 2 * e \in 1 .. N /\ e <= N
      BY DEF PowerOfTwo
<1>2. 2 * g \in 0 .. 2 * e - 1 /\ 2 * g + 1 \in 0 .. 2 * e - 1
      BY <1>1
<1>3. (2 * g) % 2 = 0 /\ (2 * g) \div 2 = g /\ (2 * g + 1) % 2 = 1 /\ (2 * g + 1) \div 2 = g
      OBVIOUS
<1>4. R[2 * e][2 * g] = ((2 * g) % 2) * e + R[e][(2 * g) \div 2]
      BY <1>1, <1>2, LowBit
<1>5. R[2 * e][2 * g + 1] = ((2 * g + 1) % 2) * e + R[e][(2 * g + 1) \div 2]
  <2> DEFINE x == 2 * g + 1
  <2>1. x \in 0 .. 2 * e - 1
        BY <1>2
  <2> HIDE DEF x
  <2>2. R[2 * e][x] = (x % 2) * e + R[e][x \div 2]
        BY <1>1, <2>1, LowBit
  <2> QED BY <2>2 DEF x
<1>6. R[e][g] \in 0 .. e - 1
      BY <1>1, ReverseRange
<1> QED BY <1>1, <1>3, <1>4, <1>5, <1>6 DEF Neighbours

\* The stage leaves in the two cells of a butterfly what it should.
LEMMA ButterflySums ==
    ASSUME NEW half \in Nat \ {0}, NEW e \in Nat \ {0}, NEW N \in Nat \ {0}, N = 2 * (half * e), PowerOfTwo(e),
           NEW R, Reverses(R, N), NEW b \in Ids(half * e), NEW u, u = Top(2 * half, b),
           NEW tw, tw = Twist(2 * half, N, b),
           NEW G, G = Has(R, N, half, 2 * e), NEW H, H = Has(R, N, 2 * half, e)
    PROVE  /\ H[<<"s", u>>] = G[<<"s", u>>] (+) Twisted(G[<<"s", u + half>>], tw, N)
           /\ H[<<"s", u + half>>] = G[<<"s", u>>] (+) Twisted(G[<<"s", u + half>>], tw + N \div 2, N)
<1> DEFINE g == b \div half
           k == b % half
           r == R[e][g]
           M == 2 * e
<1> HIDE DEF g, k
<1>1. /\ g \in 0 .. e - 1 /\ k \in 0 .. half - 1
      /\ u \in Ids(N) /\ u + half \in Ids(N) /\ u + half # u
      /\ Pair(half, u) = b /\ Pair(half, u + half) = b
      /\ u \div half = 2 * g /\ u % half = k
      /\ (u + half) \div half = 2 * g + 1 /\ (u + half) % half = k
      /\ u \div (2 * half) = g /\ u % (2 * half) = k
      /\ (u + half) \div (2 * half) = g /\ (u + half) % (2 * half) = k + half
  <2>1. g = b \div half /\ k = b % half
        BY DEF g, k
  <2>2. Placed(half, e, N, b, g, k, u)
        BY <2>1, TopIs
  <2> QED BY <2>2, Zenon DEF Placed
<1>2. M \in 1 .. N /\ e \in Nat \ {0} /\ e <= N
  <2> DEFINE p == half * e
  <2>1. p \in Nat /\ e <= p
        OBVIOUS
  <2> HIDE DEF p
  <2>2. N = 2 * p
        BY DEF p
  <2> QED BY <2>1, <2>2
<1>3. r \in 0 .. e - 1
      BY <1>1, <1>2, ReverseRange
<1>4. R[M][2 * g] = r /\ R[M][2 * g + 1] = e + r
  <2>1. 2 * e <= N
        BY <1>2
  <2>2. Neighbours(R, e, g)
        BY <1>1, <2>1, LowBits
  <2> QED BY <2>2 DEF Neighbours
<1>5. tw = k * e /\ N \div 2 = half * e
  <2> DEFINE p == half * e
  <2>1. p \in Int /\ N = 2 * p /\ N = e * (2 * half)
        OBVIOUS
  <2>2. N \div 2 = p
    <3> HIDE DEF p
    <3> QED BY <2>1
  <2>3. N \div (2 * half) = e
    <3>1. (e * (2 * half) + 0) \div (2 * half) = e
      <4>1. 2 * half \in Nat \ {0} /\ 0 \in 0 .. 2 * half - 1 /\ e \in Int
            OBVIOUS
      <4> QED BY <4>1, DivMod, Zenon
    <3>2. e * (2 * half) + 0 = e * (2 * half)
          OBVIOUS
    <3> QED BY <2>1, <3>1, <3>2, Zenon
  <2>4. (2 * half) \div 2 = half
        OBVIOUS
  <2> QED BY <2>2, <2>3, <2>4, Zenon DEF Twist, k
<1>6. /\ G[<<"s", u>>] = SetToBag(Freq(half, M, r, k, N))
      /\ G[<<"s", u + half>>] = SetToBag(Freq(half, M, e + r, k, N))
  <2>1. <<"s", u>> \in Cells(N) /\ <<"s", u + half>> \in Cells(N)
        BY <1>1 DEF Cells
  <2>2. \A c \in Cells(N) : G[c] = SetToBag(Freq(half, M, R[M][c[2] \div half], c[2] % half, N))
        BY DEF Has
  <2> HIDE DEF r, M
  <2>3. /\ G[<<"s", u>>] = SetToBag(Freq(half, M, R[M][u \div half], u % half, N))
        /\ G[<<"s", u + half>>] = SetToBag(Freq(half, M, R[M][(u + half) \div half], (u + half) % half, N))
        BY <2>1, <2>2
  <2> QED BY <1>1, <1>4, <2>3, Zenon
<1>7. /\ H[<<"s", u>>] = SetToBag(Freq(2 * half, e, r, k, N))
      /\ H[<<"s", u + half>>] = SetToBag(Freq(2 * half, e, r, k + half, N))
  <2>1. <<"s", u>> \in Cells(N) /\ <<"s", u + half>> \in Cells(N)
        BY <1>1 DEF Cells
  <2>2. \A c \in Cells(N) : H[c] = SetToBag(Freq(2 * half, e, R[e][c[2] \div (2 * half)], c[2] % (2 * half), N))
        BY DEF Has
  <2>3. /\ H[<<"s", u>>] = SetToBag(Freq(2 * half, e, R[e][u \div (2 * half)], u % (2 * half), N))
        /\ H[<<"s", u + half>>]
           = SetToBag(Freq(2 * half, e, R[e][(u + half) \div (2 * half)], (u + half) % (2 * half), N))
    <3> DEFINE w == 2 * half
    <3> HIDE DEF w
    <3>1. \A c \in Cells(N) : H[c] = SetToBag(Freq(w, e, R[e][c[2] \div w], c[2] % w, N))
          BY <2>2 DEF w
    <3>2. /\ H[<<"s", u>>] = SetToBag(Freq(w, e, R[e][u \div w], u % w, N))
          /\ H[<<"s", u + half>>] = SetToBag(Freq(w, e, R[e][(u + half) \div w], (u + half) % w, N))
          BY <2>1, <3>1
    <3> QED BY <3>2 DEF w
  <2> QED BY <1>1, <2>3, Zenon DEF r
<1> HIDE DEF r
<1>8. SetToBag(Freq(half, M, r, k, N)) (+) Twisted(SetToBag(Freq(half, M, e + r, k, N)), tw, N)
      = SetToBag(Freq(2 * half, e, r, k, N))
  <2>1. 0 \in 0 .. 1 /\ k * e + 0 * (half * e) = tw /\ k + 0 * half = k
        BY <1>1, <1>5
  <2>2. r \in 0 .. e - 1 /\ k \in 0 .. half - 1
        BY <1>1, <1>3
  <2>3. Joins(half, e, r, k, k * e + 0 * (half * e), k + 0 * half, N)
        BY <2>1, <2>2, FreqSplit
  <2>4. Joins(half, e, r, k, tw, k, N)
        BY <2>1, <2>3, Zenon
  <2> QED BY <2>4, Zenon DEF Joins
<1>9. SetToBag(Freq(half, M, r, k, N)) (+) Twisted(SetToBag(Freq(half, M, e + r, k, N)), tw + N \div 2, N)
      = SetToBag(Freq(2 * half, e, r, k + half, N))
  <2>1. 1 \in 0 .. 1 /\ k * e + 1 * (half * e) = tw + N \div 2 /\ k + 1 * half = k + half
        BY <1>1, <1>5
  <2>2. r \in 0 .. e - 1 /\ k \in 0 .. half - 1
        BY <1>1, <1>3
  <2>3. Joins(half, e, r, k, k * e + 1 * (half * e), k + 1 * half, N)
        BY <2>1, <2>2, FreqSplit
  <2>4. Joins(half, e, r, k, tw + N \div 2, k + half, N)
        BY <2>1, <2>3, Zenon
  <2> QED BY <2>4, Zenon DEF Joins
<1> QED BY <1>6, <1>7, <1>8, <1>9, Zenon

-----------------------------------------------------------------------------
(* The paths of the transform; owner says which thread has a cell meanwhile.  *)

KnowBy(owner, open, shut, has) ==
    [open |-> open, shut |-> shut, owner |-> owner, live |-> TRUE, rep |-> "none", has |-> has]
ScatterOwner(R, N, n) == [c \in Cells(N) |-> R[N][c[2]] % n]
StageOwner(half, N, n) == [c \in Cells(N) |-> Pair(half, c[2]) % n]

\* A barrier after all cells were written.
LEMMA CellsBar ==
    ASSUME NEW L, NEW q, NEW n \in Nat \ {0}, q.n = n, NEW N, NEW owner, DOMAIN owner = Cells(N),
           \A c \in Cells(N) : owner[c] \in Ids(n), NEW has, DOMAIN has = Cells(N), NEW other
    PROVE  Path(Bar, KnowBy(owner, {}, Cells(N), has), KnowBy(other, {}, {}, has), L, q)
<1> DEFINE k == KnowBy(owner, {}, Cells(N), has)
           m == KnowBy(other, {}, {}, has)
<1>1. /\ k.live = TRUE /\ k.rep = "none" /\ k.has = has
      /\ \A c \in DOMAIN owner : Owner(k, c) = owner[c]
      BY DEF KnowBy, Owner
<1>2. m.open = {} /\ m.shut = {} /\ m.live = TRUE /\ m.rep = "none" /\ m.has = has
      BY DEF KnowBy
<1> HIDE DEF k, m
<1>3. BarFlow(k, m, q)
      BY <1>1, <1>2 DEF BarFlow, Keeps, Same
<1>4. Path(Bar, k, m, L, q)
      BY <1>3, BarPath
<1> QED BY <1>4 DEF k, m

\* Each thread stores its samples where their reversed numbers say.
Scattered(R, N, n) ==
    [t \in Ids(n) |-> {Store(<<"s", R[N][k]>>, SetToBag({<<k, 0>>})) : k \in {k \in Ids(N) : k % n = t}}]

\* The load in bit-reversed order is a path to cells of one sample each.
LEMMA ScatterPath ==
    ASSUME NEW L, NEW q, NEW n \in Nat \ {0}, q.n = n, NEW N, PowerOfTwo(N), NEW R, Reverses(R, N)
    PROVE  Path(Sum({}, Scattered(R, N, n), {}), KnowBy(ScatterOwner(R, N, n), {}, {}, None),
                KnowBy(ScatterOwner(R, N, n), {}, Cells(N), Has(R, N, 1, N)), L, q)
<1> DEFINE d == Scattered(R, N, n)
           ow == ScatterOwner(R, N, n)
           H == Has(R, N, 1, N)
           Share(t) == {j \in Ids(N) : j % n = t}
           Storing(j) == Store(<<"s", R[N][j]>>, SetToBag({<<j, 0>>}))
           st == [op |-> "sum", own |-> {}, d |-> d, vals |-> {}]
           k == KnowBy(ow, {}, {}, None)
           m == KnowBy(ow, {}, Cells(N), H)
<1>1. N \in Nat \ {0} /\ N <= N
      BY DEF PowerOfTwo
<1>2. k.open = {} /\ k.shut = {} /\ k.live = TRUE /\ k.rep = "none" /\ DOMAIN k.has = {} /\ k.owner = ow
      BY DEF KnowBy, None
<1>3. /\ m.open = {} /\ m.shut = Cells(N) /\ m.live = TRUE /\ m.rep = "none" /\ m.has = H /\ m.owner = ow
      /\ \A c \in DOMAIN ow : Owner(m, c) = ow[c]
      BY DEF KnowBy, Owner
<1>4. ASSUME NEW j \in Ids(N)
      PROVE  /\ R[N][j] \in Ids(N) /\ R[N][R[N][j]] = j /\ <<"s", R[N][j]>> \in Cells(N)
             /\ ow[<<"s", R[N][j]>>] = j % n
             /\ H[<<"s", R[N][j]>>] = SetToBag({<<j, 0>>})
  <2> DEFINE p == R[N][j]
             c == <<"s", p>>
  <2>1. p \in 0 .. N - 1 /\ R[N][p] = j
        BY <1>1, ReverseRange, ReverseTwice DEF Ids
  <2> HIDE DEF p
  <2>2. c \in Cells(N) /\ c[2] = p
        BY <2>1 DEF Cells, Ids
  <2>3. ow[c] = j % n
    <3>1. ow[c] = R[N][c[2]] % n
      <4> HIDE DEF c
      <4> QED BY <2>2 DEF ScatterOwner
    <3> QED BY <2>1, <2>2, <3>1
  <2>4. H[c] = SetToBag(Freq(1, N, R[N][p \div 1], p % 1, N))
    <3>1. H[c] = SetToBag(Freq(1, N, R[N][c[2] \div 1], c[2] % 1, N))
      <4> HIDE DEF c
      <4> QED BY <2>2 DEF Has
    <3> HIDE DEF c
    <3> QED BY <2>2, <3>1
  <2>5. p \div 1 = p /\ p % 1 = 0 /\ p \in Int /\ j \in Int
        BY <2>1 DEF Ids
  <2>6. Freq(1, N, j, 0, N) = {<<j, 0>>}
    <3>1. Ids(1) = {0} /\ 0 * N + j = j /\ 0 * (0 * N) = 0 /\ 0 % N = 0
          BY <1>1, <2>5 DEF Ids
    <3>2. \A i \in Ids(1) : <<i * N + j, (i * (0 * N)) % N>> = <<j, 0>>
          BY <3>1
    <3> QED BY <3>1, <3>2 DEF Freq
  <2>7. H[c] = SetToBag({<<j, 0>>})
        BY <2>1, <2>4, <2>5, <2>6
  <2> QED BY <2>1, <2>2, <2>3, <2>7 DEF p, Ids
<1>5. \A t \in Ids(n) : d[t] = {Storing(j) : j \in Share(t)}
      BY DEF Scattered
<1>6. DOMAIN H = Cells(N) /\ DOMAIN ow = Cells(N)
      BY DEF Has, ScatterOwner
<1>7. ASSUME NEW j
      PROVE  Storing(j).to = <<"s", R[N][j]>> /\ Storing(j).from = {} /\ Storing(j).bag = SetToBag({<<j, 0>>})
      BY DEF Store
<1> HIDE DEF Storing, d, ow, H, k, m
<1>8. st.own = {} /\ st.d = d /\ st.vals = {}
      OBVIOUS
<1> HIDE DEF st
<1>9. SumFlow(st, k, m, q)
  <2>1. Grows(k, m, {}, {}) /\ SamePlain(k, m) /\ (m.live => k.live)
        BY <1>2, <1>3 DEF Grows, SamePlain, Plain
  <2>2. ASSUME NEW t \in Ids(q.n)
        PROVE  /\ Own(m, st.own, t)
               /\ \A f \in st.d[t] :
                      /\ Owner(m, f.to) = t /\ f.to \in m.shut
                      /\ f.from # {} => f.from = {f.left, f.right}
                      /\ \A c \in f.from : c \in m.open \/ Owner(m, c) = t
                      /\ \A g \in st.d[t] : g.to = f.to => g = f
    <3>1. Own(m, st.own, t)
          BY <1>8 DEF Own
    <3>2. ASSUME NEW f \in d[t], NEW g \in d[t], g.to = f.to PROVE g = f
      <4>1. PICK i \in Share(t) : f = Storing(i)
            BY <1>5
      <4>2. PICK j \in Share(t) : g = Storing(j)
            BY <1>5
      <4>3. f.to = <<"s", R[N][i]>> /\ g.to = <<"s", R[N][j]>> /\ i \in Ids(N) /\ j \in Ids(N)
            BY <1>7, <4>1, <4>2
      <4>5. R[N][i] = R[N][j]
        <5> DEFINE x == R[N][i]
                   y == R[N][j]
        <5> HIDE DEF x, y
        <5>1. <<"s", x>> = <<"s", y>>
              BY <3>2, <4>3 DEF x, y
        <5>2. x = y
              BY <5>1
        <5> QED BY <5>2 DEF x, y
      <4>4. i = j
        <5>1. R[N][R[N][i]] = i /\ R[N][R[N][j]] = j
              BY <1>4, <4>3
        <5> QED BY <4>5, <5>1
      <4> QED BY <4>1, <4>2, <4>4
    <3>3. ASSUME NEW f \in d[t] PROVE Owner(m, f.to) = t /\ f.to \in m.shut /\ f.from = {}
      <4>1. PICK j \in Share(t) : f = Storing(j)
            BY <1>5
      <4>2. f.to = <<"s", R[N][j]>> /\ f.from = {}
            BY <1>7, <4>1
      <4>3. j \in Ids(N) /\ j % n = t
            OBVIOUS
      <4>4. f.to \in Cells(N) /\ ow[f.to] = j % n
            BY <1>4, <4>2, <4>3
      <4> QED BY <1>3, <1>6, <4>2, <4>3, <4>4
    <3> QED BY <1>8, <3>1, <3>2, <3>3
  <2>3. ASSUME NEW c \in DOMAIN m.has
        PROVE \E t \in Ids(q.n) : \E f \in st.d[t] : f.to = c /\ Stored(f, k, m, q.powers)
    <3>1. PICK p \in Ids(N) : c = <<"s", p>>
          BY <1>3, <1>6 DEF Cells
    <3> DEFINE j == R[N][p]
               t == j % n
               f == Storing(j)
    <3>2. j \in Ids(N) /\ R[N][j] = p
          BY <1>4
    <3> HIDE DEF j
    <3>3. t \in Ids(n)
          BY <3>2, DivModExist DEF Ids
    <3>4. f \in d[t] /\ f.to = c /\ f.from = {} /\ f.bag = SetToBag({<<j, 0>>})
          BY <1>5, <1>7, <3>1, <3>2, <3>3
    <3>5. m.has[f.to] = f.bag
          BY <1>3, <1>4, <3>1, <3>2, <3>4
    <3> HIDE DEF f, t
    <3>6. Stored(f, k, m, q.powers)
          BY <3>4, <3>5 DEF Stored
    <3> QED BY <1>8, <3>3, <3>4, <3>6
  <2> QED BY <1>8, <2>1, <2>2, <2>3 DEF SumFlow
<1>10. Path(Sum({}, d, {}), k, m, L, q)
       BY <1>9, SumPath DEF st
<1> QED BY <1>10 DEF d, k, m, ow, H

\* A stage joins transforms two by two.
LEMMA StagePath ==
    ASSUME NEW L, NEW q, NEW n \in Nat \ {0}, q.n = n, NEW N \in Nat \ {0}, q.powers = N,
           NEW R, Reverses(R, N), NEW half \in Nat \ {0}, NEW e, PowerOfTwo(e), N = 2 * (half * e)
    PROVE  Path(fft_stage(2 * half, N, n), KnowBy(StageOwner(half, N, n), {}, {}, Has(R, N, half, 2 * e)),
                KnowBy(StageOwner(half, N, n), {}, Cells(N), Has(R, N, 2 * half, e)), L, q)
<1> DEFINE d == Butterflies(2 * half, N, n)
           ow == StageOwner(half, N, n)
           G == Has(R, N, half, 2 * e)
           H == Has(R, N, 2 * half, e)
           B == Ids(half * e)
           T(b) == Top(2 * half, b)
           U(b) == <<"s", T(b)>>
           V(b) == <<"s", T(b) + half>>
           F(b) == Add(U(b), U(b), V(b), Twist(2 * half, N, b))
           S(b) == Add(V(b), U(b), V(b), Twist(2 * half, N, b) + N \div 2)
           st == [op |-> "sum", own |-> {}, d |-> d, vals |-> {}]
           k == KnowBy(ow, {}, {}, G)
           m == KnowBy(ow, {}, Cells(N), H)
<1>1. e \in Nat \ {0}
      BY DEF PowerOfTwo
<1>2. k.open = {} /\ k.shut = {} /\ k.live = TRUE /\ k.rep = "none" /\ k.has = G /\ k.owner = ow
      BY DEF KnowBy
<1>3. /\ m.open = {} /\ m.shut = Cells(N) /\ m.live = TRUE /\ m.rep = "none" /\ m.has = H /\ m.owner = ow
      /\ \A c \in DOMAIN ow : Owner(m, c) = ow[c]
      BY DEF KnowBy, Owner
<1>4. DOMAIN G = Cells(N) /\ DOMAIN H = Cells(N) /\ DOMAIN ow = Cells(N)
      BY DEF Has, StageOwner
<1>5. N \div 2 = half * e /\ (2 * half) \div 2 = half
  <2> DEFINE p == half * e
  <2>1. p \in Int
        BY <1>1
  <2>2. (2 * p) \div 2 = p
    <3> HIDE DEF p
    <3> QED BY <2>1
  <2>3. (2 * half) \div 2 = half
        OBVIOUS
  <2> QED BY <2>2, <2>3
<1>6. ASSUME NEW b \in B
      PROVE  /\ U(b) \in Cells(N) /\ V(b) \in Cells(N) /\ U(b) # V(b)
             /\ Pair(half, U(b)[2]) = b /\ Pair(half, V(b)[2]) = b
             /\ ow[U(b)] = b % n /\ ow[V(b)] = b % n
  <2> DEFINE u == T(b)
             v == u + half
  <2>1. u \in Ids(N) /\ v \in Ids(N) /\ v # u /\ Pair(half, u) = b /\ Pair(half, v) = b
    <3> DEFINE g == b \div half
               x == b % half
    <3>1. u = Top(2 * half, b) /\ g = b \div half /\ x = b % half
          OBVIOUS
    <3> HIDE DEF u, g, x
    <3>2. Placed(half, e, N, b, g, x, u)
          BY <1>1, <3>1, TopIs
    <3> QED BY <3>2, Zenon DEF Placed
  <2> HIDE DEF u, v
  <2>2. <<"s", u>> \in Cells(N) /\ <<"s", v>> \in Cells(N) /\ <<"s", u>> # <<"s", v>>
        BY <2>1 DEF Cells
  <2>3. ow[<<"s", u>>] = b % n /\ ow[<<"s", v>>] = b % n
        BY <2>1, <2>2 DEF StageOwner
  <2> QED BY <2>1, <2>2, <2>3 DEF u, v
<1>7. ASSUME NEW b \in B
      PROVE  /\ H[U(b)] = G[U(b)] (+) Twisted(G[V(b)], Twist(2 * half, N, b), N)
             /\ H[V(b)] = G[U(b)] (+) Twisted(G[V(b)], Twist(2 * half, N, b) + N \div 2, N)
  <2> DEFINE u == T(b)
             tw == Twist(2 * half, N, b)
  <2>1. u = Top(2 * half, b) /\ tw = Twist(2 * half, N, b)
        OBVIOUS
  <2> HIDE DEF u, tw
  <2>2. /\ H[<<"s", u>>] = G[<<"s", u>>] (+) Twisted(G[<<"s", u + half>>], tw, N)
        /\ H[<<"s", u + half>>] = G[<<"s", u>>] (+) Twisted(G[<<"s", u + half>>], tw + N \div 2, N)
        BY <1>1, <2>1, ButterflySums
  <2> QED BY <2>2 DEF u, tw
<1>8. ASSUME NEW c \in Cells(N)
      PROVE  \E b \in B : c = U(b) \/ c = V(b)
  <2>1. PICK p \in Ids(N) : c = <<"s", p>>
        BY DEF Cells
  <2> DEFINE b == Pair(half, p)
  <2>2. b \in B /\ (p = T(b) \/ p = T(b) + half)
        BY <1>1, CellTop
  <2> HIDE DEF b
  <2> QED BY <2>1, <2>2
<1>9. \A b : Butterfly(2 * half, N, b) = {F(b), S(b)}
      BY <1>5, Zenon DEF Butterfly
<1>10. \A t \in Ids(n) : d[t] = UNION {{F(b), S(b)} : b \in {b \in B : b % n = t}}
  <2>1. \A t \in Ids(n) :
            d[t] = UNION {Butterfly(2 * half, N, b) : b \in {b \in Ids(N \div 2) : b % n = t}}
        BY DEF Butterflies
  <2>2. Ids(N \div 2) = B
        BY <1>5
  <2> DEFINE Share(t) == {b \in B : b % n = t}
  <2>3. \A t : {b \in Ids(N \div 2) : b % n = t} = Share(t)
        BY <2>2, Zenon
  <2> HIDE DEF d, F, S, B
  <2>4. \A t : {Butterfly(2 * half, N, b) : b \in Share(t)} = {{F(b), S(b)} : b \in Share(t)}
        BY <1>9
  <2>5. \A t \in Ids(n) : d[t] = UNION {Butterfly(2 * half, N, b) : b \in Share(t)}
        BY <2>1, <2>3, Zenon
  <2> QED BY <2>4, <2>5, Zenon
<1>11. ASSUME NEW b
       PROVE  /\ F(b).to = U(b) /\ F(b).from = {U(b), V(b)} /\ F(b).left = U(b) /\ F(b).right = V(b)
              /\ F(b).twist = Twist(2 * half, N, b)
              /\ S(b).to = V(b) /\ S(b).from = {U(b), V(b)} /\ S(b).left = U(b) /\ S(b).right = V(b)
              /\ S(b).twist = Twist(2 * half, N, b) + N \div 2
       BY DEF Add
<1>12. fft_stage(2 * half, N, n) = Sum({}, d, {})
       BY DEF fft_stage, Butterflies, Butterfly, Top, Twist
<1> HIDE DEF F, S, U, V, T, B, d, ow, G, H, k, m
<1>13. st.own = {} /\ st.d = d /\ st.vals = {}
       OBVIOUS
<1> HIDE DEF st
<1>14. ASSUME NEW t \in Ids(n), NEW f \in d[t]
       PROVE  \E b \in B : b % n = t /\ (f = F(b) \/ f = S(b))
       BY <1>10
<1>15. SumFlow(st, k, m, q)
  <2>1. Grows(k, m, {}, {}) /\ SamePlain(k, m) /\ (m.live => k.live)
        BY <1>2, <1>3 DEF Grows, SamePlain, Plain
  <2>2. ASSUME NEW t \in Ids(q.n)
        PROVE  /\ Own(m, st.own, t)
               /\ \A f \in st.d[t] :
                      /\ Owner(m, f.to) = t /\ f.to \in m.shut
                      /\ f.from # {} => f.from = {f.left, f.right}
                      /\ \A c \in f.from : c \in m.open \/ Owner(m, c) = t
                      /\ \A g \in st.d[t] : g.to = f.to => g = f
    <3>1. Own(m, st.own, t)
          BY <1>13 DEF Own
    <3>2. ASSUME NEW f \in d[t], NEW g \in d[t], g.to = f.to PROVE g = f
      <4>1. PICK b \in B : f = F(b) \/ f = S(b)
            BY <1>14
      <4>2. PICK c \in B : g = F(c) \/ g = S(c)
            BY <1>14
      <4>3. Pair(half, f.to[2]) = b /\ Pair(half, g.to[2]) = c
            BY <1>6, <1>11, <4>1, <4>2
      <4>4. b = c
            BY <3>2, <4>3
      <4>5. F(b).to # S(b).to
            BY <1>6, <1>11
      <4> QED BY <3>2, <4>1, <4>2, <4>4, <4>5
    <3>3. ASSUME NEW f \in d[t]
          PROVE  /\ Owner(m, f.to) = t /\ f.to \in m.shut /\ f.from = {f.left, f.right}
                 /\ \A c \in f.from : Owner(m, c) = t
      <4>1. PICK b \in B : b % n = t /\ (f = F(b) \/ f = S(b))
            BY <1>14
      <4>2. Owner(m, U(b)) = t /\ Owner(m, V(b)) = t /\ U(b) \in m.shut /\ V(b) \in m.shut
            BY <1>3, <1>4, <1>6, <4>1
      <4>3. f.to \in {U(b), V(b)} /\ f.from = {U(b), V(b)} /\ f.left = U(b) /\ f.right = V(b)
            BY <1>11, <4>1
      <4> QED BY <4>2, <4>3
    <3> QED BY <1>13, <3>1, <3>2, <3>3
  <2>3. ASSUME NEW c \in DOMAIN m.has
        PROVE \E t \in Ids(q.n) : \E f \in st.d[t] : f.to = c /\ Stored(f, k, m, q.powers)
    <3>1. PICK b \in B : c = U(b) \/ c = V(b)
          BY <1>3, <1>4, <1>8
    <3> DEFINE t == b % n
               f == IF c = U(b) THEN F(b) ELSE S(b)
    <3>2. t \in Ids(n)
      <4>1. b \in Int
            BY DEF B, Ids
      <4> QED BY <4>1, DivModExist DEF Ids
    <3>3. f \in d[t]
          BY <1>10, <3>2
    <3>4. f.to = c /\ f.from = {U(b), V(b)} /\ f.left = U(b) /\ f.right = V(b)
          BY <1>11, <3>1
    <3>5. H[c] = G[U(b)] (+) Twisted(G[V(b)], f.twist, N)
          BY <1>7, <1>11, <3>1
    <3> HIDE DEF f, t
    <3>6. f.from # {} /\ f.from \subseteq DOMAIN k.has
          BY <1>2, <1>4, <1>6, <3>4
    <3>7. m.has[f.to] = k.has[f.left] (+) Twisted(k.has[f.right], f.twist, q.powers)
          BY <1>2, <1>3, <3>4, <3>5
    <3>8. Stored(f, k, m, q.powers)
          BY <3>6, <3>7 DEF Stored
    <3> QED BY <1>13, <3>2, <3>3, <3>4, <3>8
  <2> QED BY <1>13, <2>1, <2>2, <2>3 DEF SumFlow
<1>16. Path(Sum({}, d, {}), k, m, L, q)
       BY <1>15, SumPath DEF st
<1> QED BY <1>12, <1>16 DEF k, m, ow, G, H

StagesStep(samples, n, from, len) ==
    IF len > samples THEN <<>> ELSE fft_stage(len, samples, n) \o Bar \o from[2 * len]

\* The doubling loop is well defined.
LEMMA StagesDefined ==
    ASSUME NEW N \in Nat \ {0}, NEW n
    PROVE  \E f : f = [len \in 1 .. 2 * N |-> StagesStep(N, n, f, len)]
<1> DEFINE Defined(k) == \E f : f = [len \in 2 * N + 1 - k .. 2 * N |-> StagesStep(N, n, f, len)]
           D == {k \in Nat : k <= 2 * N => Defined(k)}
<1>1. ASSUME NEW k \in Nat, \A j \in 0 .. k - 1 : j \in D PROVE k \in D
  <2> SUFFICES ASSUME k <= 2 * N PROVE Defined(k)
      OBVIOUS
  <2>1. CASE k = 0
    <3> DEFINE f == [len \in 2 * N + 1 - 0 .. 2 * N |-> <<>>]
    <3>1. 2 * N + 1 - 0 .. 2 * N = {}
          OBVIOUS
    <3>2. f = [len \in 2 * N + 1 - 0 .. 2 * N |-> StagesStep(N, n, f, len)]
          BY <3>1
    <3>3. Defined(0)
          BY <3>2
    <3> QED BY <2>1, <3>3
  <2>2. CASE k # 0
    <3> DEFINE lo == 2 * N + 1 - k
    <3>1. k - 1 \in 0 .. k - 1 /\ k - 1 <= 2 * N /\ 2 * N + 1 - (k - 1) = lo + 1 /\ lo \in Nat \ {0}
          BY <2>2
    <3>2. Defined(k - 1)
          BY <1>1, <3>1
    <3>3. PICK g : g = [len \in lo + 1 .. 2 * N |-> StagesStep(N, n, g, len)]
          BY <3>1, <3>2
    <3> HIDE DEF lo
    <3> DEFINE f == [len \in lo .. 2 * N |-> IF len = lo THEN StagesStep(N, n, g, lo) ELSE g[len]]
    <3>4. ASSUME NEW len \in lo .. 2 * N PROVE StagesStep(N, n, f, len) = StagesStep(N, n, g, len)
      <4>1. len <= N => f[2 * len] = g[2 * len]
            BY <3>1
      <4> HIDE DEF f
      <4>2. CASE len > N
            BY <4>2, Zenon DEF StagesStep
      <4>3. CASE ~(len > N)
        <5>1. f[2 * len] = g[2 * len]
              BY <3>1, <4>1, <4>3
        <5> QED BY <4>3, <5>1, Zenon DEF StagesStep
      <4> QED BY <4>2, <4>3
    <3>5. ASSUME NEW len \in lo .. 2 * N PROVE f[len] = StagesStep(N, n, g, len)
      <4>1. CASE len = lo
            BY <4>1
      <4>2. CASE len # lo
        <5>1. len \in lo + 1 .. 2 * N /\ f[len] = g[len]
              BY <3>1, <4>2
        <5>2. g[len] = StagesStep(N, n, g, len)
              BY <3>3, <5>1
        <5> QED BY <5>1, <5>2
      <4> QED BY <4>1, <4>2
    <3>6. f = [len \in lo .. 2 * N |-> StagesStep(N, n, f, len)]
      <4>1. \A len \in lo .. 2 * N : f[len] = StagesStep(N, n, f, len)
            BY <3>4, <3>5
      <4>2. f = [len \in lo .. 2 * N |-> f[len]]
            OBVIOUS
      <4> HIDE DEF f
      <4> QED BY <4>1, <4>2
    <3> HIDE DEF f
    <3>7. \E h : h = [len \in lo .. 2 * N |-> StagesStep(N, n, h, len)]
          BY <3>6
    <3> QED BY <3>7 DEF lo
  <2> QED BY <2>1, <2>2
<1> HIDE DEF D
<1>2. 2 * N \in D
      BY <1>1, Induct
<1>3. \E f : f = [len \in 2 * N + 1 - 2 * N .. 2 * N |-> StagesStep(N, n, f, len)]
      BY <1>2 DEF D
<1>4. 2 * N + 1 - 2 * N = 1
      OBVIOUS
<1> QED BY <1>3, <1>4

\* The function in fft_stages is defined by its recursion.
LEMMA StagesExist ==
    ASSUME NEW N \in Nat \ {0}, NEW n
    PROVE  \E from : /\ fft_stages(N, n) = from[2]
                     /\ \A len \in 1 .. 2 * N : from[len] = StagesStep(N, n, from, len)
<1> DEFINE from == CHOOSE f : f = [len \in 1 .. 2 * N |-> StagesStep(N, n, f, len)]
<1>1. fft_stages(N, n) = from[2]
      BY DEF fft_stages, StagesStep
<1>2. from = [len \in 1 .. 2 * N |-> StagesStep(N, n, from, len)]
  <2>1. \E f : f = [len \in 1 .. 2 * N |-> StagesStep(N, n, f, len)]
        BY StagesDefined
  <2> QED BY <2>1, Zenon
<1> HIDE DEF from
<1>3. \A len \in 1 .. 2 * N : from[len] = StagesStep(N, n, from, len)
      BY <1>2, Zenon
<1> QED BY <1>1, <1>3

\* The doubling loop makes one transform of N.
LEMMA StagesPath ==
    ASSUME NEW L, NEW q, NEW n \in Nat \ {0}, q.n = n, NEW N, PowerOfTwo(N), q.powers = N,
           NEW R, Reverses(R, N)
    PROVE  Path(fft_stages(N, n), KnowBy(StageOwner(1, N, n), {}, {}, Has(R, N, 1, N)),
                KnowBy(StageOwner(N, N, n), {}, {}, Has(R, N, N, 1)), L, q)
<1> DEFINE After(half, M) == KnowBy(StageOwner(half, N, n), {}, {}, Has(R, N, half, M))
<1>1. N \in Nat \ {0} /\ N = N * 1 /\ N = 1 * N
      BY DEF PowerOfTwo
<1>2. PICK from : /\ fft_stages(N, n) = from[2]
                  /\ \A len \in 1 .. 2 * N : from[len] = StagesStep(N, n, from, len)
      BY <1>1, StagesExist
<1> DEFINE D == {M \in Nat : \A half \in Nat \ {0} :
                     PowerOfTwo(M) /\ N = half * M =>
                         Path(from[2 * half], After(half, M), After(N, 1), L, q)}
<1>3. ASSUME NEW M \in Nat, \A j \in 0 .. M - 1 : j \in D PROVE M \in D
  <2> SUFFICES ASSUME NEW half \in Nat \ {0}, PowerOfTwo(M), N = half * M
               PROVE  Path(from[2 * half], After(half, M), After(N, 1), L, q)
      OBVIOUS
  <2> HIDE DEF After
  <2>1. CASE M = 1
    <3>1. half = N /\ 2 * half \in 1 .. 2 * N /\ 2 * half > N
          BY <1>1, <2>1
    <3>2. from[2 * half] = <<>>
          BY <1>2, <3>1, Zenon DEF StagesStep
    <3> QED BY <2>1, <3>1, <3>2, PathNone
  <2>2. CASE M # 1
    <3> DEFINE e == M \div 2
               len == 2 * half
    <3>1. e \in Nat \ {0} /\ M = 2 * e /\ PowerOfTwo(e)
          BY <2>2, Halved
    <3> HIDE DEF e
    <3>2. N = 2 * (half * e) /\ N = (2 * half) * e
          BY <3>1
    <3>3. len \in 1 .. 2 * N /\ ~(len > N) /\ len \in Nat \ {0}
      <4> DEFINE x == half * e
      <4>1. x \in Nat /\ half <= x
            BY <3>1
      <4>2. N = 2 * x
            BY <3>2
      <4> HIDE DEF x
      <4> QED BY <4>1, <4>2
    <3>4. from[len] = fft_stage(len, N, n) \o Bar \o from[2 * len]
      <4>1. from[len] = StagesStep(N, n, from, len)
            BY <1>2, <3>3, Zenon
      <4> QED BY <3>3, <4>1, Zenon DEF StagesStep
    <3> DEFINE mid == KnowBy(StageOwner(half, N, n), {}, Cells(N), Has(R, N, len, e))
    <3>5. Path(fft_stage(len, N, n), After(half, M), mid, L, q)
          BY <1>1, <3>1, <3>2, StagePath DEF After
    <3>6. Path(Bar, mid, After(len, e), L, q)
      <4> DEFINE ow == StageOwner(half, N, n)
      <4>1. DOMAIN ow = Cells(N) /\ DOMAIN Has(R, N, len, e) = Cells(N)
            BY DEF StageOwner, Has
      <4>2. \A c \in Cells(N) : ow[c] \in Ids(n)
        <5>1. ASSUME NEW c \in Cells(N) PROVE ow[c] \in Ids(n)
          <6>1. PICK p \in Ids(N) : c = <<"s", p>>
                BY DEF Cells
          <6>2. ow[c] = Pair(half, p) % n
                BY <6>1 DEF StageOwner
          <6>3. Pair(half, p) \in Int
            <7>1. Pair(half, p) \in Ids(half * e)
                  BY <1>1, <3>1, <3>2, CellTop
            <7> QED BY <7>1 DEF Ids
          <6>4. Pair(half, p) % n \in 0 .. n - 1
                BY <6>3, DivModExist
          <6> QED BY <6>2, <6>4 DEF Ids
        <5> QED BY <5>1
      <4> HIDE DEF ow, len
      <4>3. Path(Bar, KnowBy(ow, {}, Cells(N), Has(R, N, len, e)),
                 KnowBy(StageOwner(len, N, n), {}, {}, Has(R, N, len, e)), L, q)
            BY <4>1, <4>2, CellsBar
      <4> QED BY <4>3 DEF ow, After
    <3>7. Path(from[2 * len], After(len, e), After(N, 1), L, q)
      <4>1. e \in 0 .. M - 1
            BY <3>1
      <4>2. e \in D
            BY <1>3, <4>1
      <4> HIDE DEF len
      <4> QED BY <3>1, <3>2, <3>3, <4>2 DEF len
    <3> HIDE DEF mid, len
    <3>8. Path(fft_stage(len, N, n) \o Bar, After(half, M), After(len, e), L, q)
          BY <3>5, <3>6, PathCat
    <3>9. Path((fft_stage(len, N, n) \o Bar) \o from[2 * len], After(half, M), After(N, 1), L, q)
          BY <3>7, <3>8, PathCat
    <3> QED BY <3>4, <3>9 DEF len
  <2> QED BY <2>1, <2>2
<1> HIDE DEF D
<1>4. N \in D
      BY <1>1, <1>3, Induct
<1>5. Path(from[2 * 1], After(1, N), After(N, 1), L, q)
      BY <1>1, <1>4 DEF D
<1>6. 2 * 1 = 2
      OBVIOUS
<1> QED BY <1>2, <1>5, <1>6 DEF After

\* What is left is the transform.
LEMMA IsTransform ==
    ASSUME NEW N, PowerOfTwo(N), NEW R, Reverses(R, N)
    PROVE  Has(R, N, N, 1) = Transform(N)
<1>1. N \in Nat \ {0}
      BY DEF PowerOfTwo
<1>2. ASSUME NEW c \in Cells(N)
      PROVE  Freq(N, 1, R[1][c[2] \div N], c[2] % N, N) = {<<j, (c[2] * j) % N>> : j \in Ids(N)}
  <2>1. PICK k \in Ids(N) : c[2] = k
        BY DEF Cells
  <2>2. k \div N = 0 /\ k % N = k /\ k \in Int
        BY <1>1, SmallMod DEF Ids
  <2>3. R[1][0] = 0
        BY <1>1, OneBit
  <2>4. \A j \in Ids(N) : <<j * 1 + 0, (j * (k * 1)) % N>> = <<j, (k * j) % N>>
    <3>1. ASSUME NEW j \in Ids(N) PROVE j * 1 + 0 = j /\ j * (k * 1) = k * j
          BY <2>2 DEF Ids
    <3> QED BY <3>1
  <2>5. Freq(N, 1, 0, k, N) = {<<j, (k * j) % N>> : j \in Ids(N)}
        BY <2>4 DEF Freq
  <2> QED BY <2>1, <2>2, <2>3, <2>5
<1>3. Transform(N) = [c \in Cells(N) |-> SetToBag({<<j, (c[2] * j) % N>> : j \in Ids(N)})]
      BY DEF Transform, Cells
<1>4. Has(R, N, N, 1) = [c \in Cells(N) |-> SetToBag(Freq(N, 1, R[1][c[2] \div N], c[2] % N, N))]
      BY DEF Has
<1>5. \A c \in Cells(N) : SetToBag(Freq(N, 1, R[1][c[2] \div N], c[2] % N, N))
                          = SetToBag({<<j, (c[2] * j) % N>> : j \in Ids(N)})
      BY <1>2, Zenon
<1> QED BY <1>3, <1>4, <1>5

\* The transform has a certificate.
LEMMA FftCertified ==
    ASSUME NEW N, PowerOfTwo(N), NEW n \in Nat \ {0}
    PROVE  \E K, L : Certificate(fft_batch_kernel(N, n), K, L)
<1>1. N \in Nat \ {0} /\ N <= N
      BY DEF PowerOfTwo
<1>2. PICK R : Reverses(R, N) /\ fft_bit_reverse(N) = R[N]
      BY <1>1, ReverseExists
<1> DEFINE q == fft_batch_kernel(N, n)
           L == [l \in {} |-> 0]
           cells == [t \in Ids(n) |-> {"s"} \X {k \in Ids(N) : k % n = t}]
           ow == ScatterOwner(R, N, n)
           end == StageOwner(N, N, n)
           scatter == Sum({}, Scattered(R, N, n), {})
           k == KnowBy(ow, {}, {}, None)
           m1 == KnowBy(ow, {}, Cells(N), Has(R, N, 1, N))
           m2 == KnowBy(StageOwner(1, N, n), {}, {}, Has(R, N, 1, N))
           m3 == KnowBy(end, {}, {}, Has(R, N, N, 1))
           m4 == KnowBy(end, Cells(N), {}, None)
<1>3. q.n = n /\ q.powers = N /\ q.want = Transform(N)
      BY DEF fft_batch_kernel
<1>4. q.body = scatter \o Bar \o fft_stages(N, n) \o Result(cells)
  <2>1. scatter = Sum({}, [t \in Ids(n) |-> {Store(<<"s", fft_bit_reverse(N)[j]>>, SetToBag({<<j, 0>>})) :
                                                 j \in {j \in Ids(N) : j % n = t}}], {})
        BY <1>2 DEF Scattered
  <2> HIDE DEF scatter
  <2> QED BY <2>1, Zenon DEF fft_batch_kernel
<1> HIDE DEF q, L
<1>5. Path(scatter, k, m1, L, q)
      BY <1>2, <1>3, ScatterPath
<1>6. Path(Bar, m1, m2, L, q)
  <2>1. DOMAIN ow = Cells(N) /\ DOMAIN Has(R, N, 1, N) = Cells(N)
        BY DEF ScatterOwner, Has
  <2>2. \A c \in Cells(N) : ow[c] \in Ids(n)
    <3>1. ASSUME NEW c \in Cells(N) PROVE ow[c] \in Ids(n)
      <4>1. PICK p \in Ids(N) : c = <<"s", p>>
            BY DEF Cells
      <4>2. ow[c] = R[N][p] % n
            BY <4>1 DEF ScatterOwner
      <4>3. R[N][p] \in Int
        <5>1. R[N][p] \in 0 .. N - 1
              BY <1>1, <1>2, ReverseRange DEF Ids
        <5> QED BY <5>1
      <4> QED BY <4>2, <4>3, DivModExist DEF Ids
    <3> QED BY <3>1
  <2> HIDE DEF ow
  <2> QED BY <1>3, <2>1, <2>2, CellsBar
<1>7. Path(fft_stages(N, n), m2, m3, L, q)
      BY <1>2, <1>3, StagesPath
<1>8. Path(Result(cells), m3, m4, L, q)
  <2> DEFINE st == [op |-> "result", cells |-> cells]
  <2>1. /\ m3.open = {} /\ m3.shut = {} /\ m3.live = TRUE /\ m3.rep = "none" /\ m3.has = Has(R, N, N, 1)
        /\ m3.owner = end
        BY DEF KnowBy
  <2>2. /\ m4.open = Cells(N) /\ m4.shut = {} /\ m4.live = TRUE /\ m4.rep = "none" /\ DOMAIN m4.has = {}
        /\ m4.owner = end
        BY DEF KnowBy, None
  <2>3. m3.has = q.want /\ DOMAIN m3.has = Cells(N)
    <3>1. DOMAIN Has(R, N, N, 1) = Cells(N)
          BY DEF Has
    <3> QED BY <1>2, <1>3, <2>1, <3>1, IsTransform
  <2>4. \A t \in Ids(n) : cells[t] \subseteq Cells(N)
        BY DEF Cells
  <2>5. st.op = "result" /\ st.cells = cells
        OBVIOUS
  <2> HIDE DEF st, m3, m4, cells
  <2>6. ResultFlow(st, m3, m4, q)
        BY <1>3, <2>1, <2>2, <2>3, <2>4, <2>5 DEF ResultFlow, Quiet, Grows, Keeps, Same
  <2>7. Flow(st, m3, m4, L, q)
        BY <2>5, <2>6 DEF Flow
  <2>8. Path(<<st>>, m3, m4, L, q)
        BY <2>7, PathOne
  <2> QED BY <2>8 DEF st, Result
<1>9. Fresh(k)
      BY DEF Fresh, KnowBy, None
<1>10. \A l \in DOMAIN L : Defines(q.body, l)
       BY DEF L
<1> HIDE DEF scatter, k, m1, m2, m3, m4, cells
<1>11. Path(scatter \o Bar \o fft_stages(N, n) \o Result(cells), k, m4, L, q)
       BY <1>5, <1>6, <1>7, <1>8, PathCat4
<1>12. \E K, M : Certificate(q, K, M)
       BY <1>3, <1>4, <1>9, <1>10, <1>11, PathCertifies
<1> QED BY <1>12 DEF q

-----------------------------------------------------------------------------
(* What holds of every kernel of the code, for blocks of any power of two of  *)
(* threads and data of any size.                                             *)

\* A kernel is one of those modelled; n is the number of its threads, and for
\* the transform the number of its samples.
OfCode(q, n) ==
    \/ \E blocks, terms \in Nat : \E b \in Ids(blocks) :
           q \in {qmc_poly_integrate_kernel(b, blocks, n, terms), dot_partials_kernel(b, blocks, n, terms),
                  l2_star_discrepancy_kernel(b, blocks, n, terms)}
    \/ \E blocks \in Nat \ {0}, terms \in Nat : q = reduce_partials_kernel(blocks, n, terms)
    \/ \E opts, paths \in Nat : \E opt \in Ids(opts) :
           q \in {mc_reduce_kernel(opt, n, opts, paths), asian_reduce_kernel(opt, n, opts, paths),
                  mc_barrier_reduce_kernel(opt, n, opts, paths)}
    \/ \E paths \in Nat :
           q \in {lsm_reduce_accumulate_kernel(n, paths), lsm_finalize_reduce_kernel(n, paths)}
    \/ q \in {batched_cg_kernel(n), batched_lm_kernel(n)}
    \/ \E threads \in Nat \ {0} : q = fft_batch_kernel(n, threads)

KernelsOfCode == \A q \in Kernels : \E n : PowerOfTwo(n) /\ OfCode(q, n)

\* Each has a certificate.
LEMMA CodeCertified == ASSUME KernelsOfCode PROVE Certified
<1> SUFFICES ASSUME NEW q \in Kernels PROVE \E K, L : Certificate(q, K, L)
    BY DEF Certified
<1>1. PICK n : PowerOfTwo(n) /\ OfCode(q, n)
      BY DEF KernelsOfCode
<1>2. CASE \E blocks, terms \in Nat : \E b \in Ids(blocks) :
               q \in {qmc_poly_integrate_kernel(b, blocks, n, terms), dot_partials_kernel(b, blocks, n, terms),
                      l2_star_discrepancy_kernel(b, blocks, n, terms)}
  <2>1. PICK blocks, terms \in Nat : \E b \in Ids(blocks) : q = GridSum(b, blocks, n, terms)
        BY <1>2 DEF qmc_poly_integrate_kernel, dot_partials_kernel, l2_star_discrepancy_kernel
  <2>2. PICK b \in Ids(blocks) : q = GridSum(b, blocks, n, terms)
        BY <2>1
  <2>3. b \in Nat
        BY DEF Ids
  <2> QED BY <1>1, <2>2, <2>3, GridCertified
<1>3. CASE \E blocks \in Nat \ {0}, terms \in Nat : q = reduce_partials_kernel(blocks, n, terms)
  <2>1. PICK blocks \in Nat \ {0}, terms \in Nat : q = reduce_partials_kernel(blocks, n, terms)
        BY <1>3
  <2> QED BY <1>1, <2>1, PartialsCertified
<1>4. CASE \E opts, paths \in Nat : \E opt \in Ids(opts) :
               q \in {mc_reduce_kernel(opt, n, opts, paths), asian_reduce_kernel(opt, n, opts, paths),
                      mc_barrier_reduce_kernel(opt, n, opts, paths)}
  <2> DEFINE sums(opts, opt, paths) ==
                 SegmentSum({"s_sum", "s_sumsq"}, opt, n, paths, mc_segment_kernel(opts, paths))
  <2>1. PICK opts, paths \in Nat : \E opt \in Ids(opts) : q = sums(opts, opt, paths)
        BY <1>4 DEF mc_reduce_kernel, asian_reduce_kernel, mc_barrier_reduce_kernel,
                    asian_segment_kernel, mc_barrier_segment_kernel
  <2>2. PICK opt \in Ids(opts) : q = sums(opts, opt, paths)
        BY <2>1
  <2> QED BY <1>1, <2>2, SegmentCertified
<1>5. CASE \E paths \in Nat :
               q \in {lsm_reduce_accumulate_kernel(n, paths), lsm_finalize_reduce_kernel(n, paths)}
  <2>1. PICK paths \in Nat, arrs \in {{"m0", "b0"}, {"s_sum", "s_sumsq"}} :
                 q = SegmentSum(arrs, 0, n, paths, mc_segment_kernel(1, paths))
        BY <1>5 DEF lsm_reduce_accumulate_kernel, lsm_finalize_reduce_kernel,
                    lsm_accumulate_segment_kernel, lsm_finalize_segment_kernel
  <2>2. 1 \in Nat /\ 0 \in Ids(1)
        BY DEF Ids
  <2> QED BY <1>1, <2>1, <2>2, SegmentCertified
<1>6. CASE q \in {batched_cg_kernel(n), batched_lm_kernel(n)}
      BY <1>1, <1>6, CgCertified, LmCertified
<1>7. CASE \E threads \in Nat \ {0} : q = fft_batch_kernel(n, threads)
      BY <1>1, <1>7, FftCertified
<1> QED BY <1>1, <1>2, <1>3, <1>4, <1>5, <1>6, <1>7 DEF OfCode

\* Between two barriers no thread of any of the kernels touches a cell that
\* another writes: the barriers of gpu_kernels.cu are enough.
THEOREM Race == ASSUME KernelsOfCode PROVE Spec => []NoRace
<1>1. Spec => []IInv
      BY CodeCertified, Invariance
<1>2. IInv => NoRace
      BY RaceFree
<1> QED BY <1>1, <1>2, PTL

\* The threads of a block meet at the same barrier, and none leaves before the
\* others: no __syncthreads() of the solvers is in a branch that some take.
THEOREM Desync == ASSUME KernelsOfCode PROVE Spec => []NoDesync
<1>1. Spec => []IInv
      BY CodeCertified, Invariance
<1>2. IInv => NoDesync
      BY InStep
<1> QED BY <1>1, <1>2, PTL

\* A result that is read holds every term once: the trees, the strides of a
\* block and of a grid, the segments of the paths and the butterflies of the
\* transform leave nothing out and count nothing twice.
THEOREM Reductions == ASSUME KernelsOfCode PROVE Spec => []ReductionsAreComplete
<1>1. Spec => []IInv
      BY CodeCertified, Invariance
<1>2. IInv => ReductionsAreComplete
      BY Complete
<1> QED BY <1>1, <1>2, PTL

\* However a system leaves the iteration, thread 0 reports it, and once.
THEOREM Reporting == ASSUME KernelsOfCode PROVE Spec => []ReportedOnce
<1>1. Spec => []IInv
      BY CodeCertified, Invariance
<1>2. IInv => ReportedOnce
      BY OneReport
<1> QED BY <1>1, <1>2, PTL

=============================================================================
