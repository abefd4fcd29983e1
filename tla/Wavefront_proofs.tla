-------------------------- MODULE Wavefront_proofs --------------------------
(***************************************************************************)
(* Every in-process executor computes the same outputs, for every graph,   *)
(* every pure task body and every interleaving of the pool's threads.      *)
(* The last section is about the graphs: TaskGraph builds what the         *)
(* executors assume of them.                                               *)
(***************************************************************************)
EXTENDS Wavefront, TaskGraph, TLAPS, WellFoundedInduction, FiniteSetTheorems, SequenceTheorems

\* Tasks of the levels before the current one: nothing writes them any more.
Done == {t \in TaskIds : g.depth[t] < lvl}

LoopOK == /\ phase = "done" => lvl = g.numLevels /\ written = {}
          /\ phase # "done" => lvl < g.numLevels
          /\ phase # "fan" => DOMAIN inflight = {}
          /\ phase = "write" => DOMAIN slots = Level(lvl)
          /\ executor = "serial" => DOMAIN slots = {} /\ DOMAIN inflight = {}
          /\ (executor # "serial" /\ phase = "fan") => written = {}

\* A failed task blames itself or an earlier task of no greater depth.
OriginsBelow ==
    \A t \in Settled : ~outputs[t].ok =>
        /\ OriginOf(t, origins) \in TaskIds
        /\ OriginOf(t, origins) <= t
        /\ g.depth[OriginOf(t, origins)] <= g.depth[t]

CountOK == executed <= Cardinality(Settled)

IInv == TypeOK /\ LoopOK /\ OriginsBelow /\ OutcomesConsistent
        /\ NothingStale /\ CountOK

-----------------------------------------------------------------------------
\* A non-empty set of naturals has a least element.
LEMMA LeastNat ==
    ASSUME NEW T \in SUBSET Nat, T # {}
    PROVE  \E m \in T : \A n \in T : m <= n
<1>1. PICK m \in T : \A n \in T : <<n, m>> \notin OpToRel(<, Nat)
  BY NatLessThanWellFounded, WFMin, Zenon
<1>2. \A n \in T : ~(n < m)
  BY <1>1 DEF OpToRel
<1> QED
  BY <1>2

\* The facts about the graph that the run never changes.
LEMMA GraphFacts ==
    ASSUME g \in Graphs
    PROVE  /\ g.n \in Nat /\ g.numLevels \in Nat
           /\ TaskIds \subseteq Nat
           /\ \A t \in TaskIds : /\ g.depth[t] \in 0 .. g.numLevels - 1
                                 /\ DepsOf(t) \subseteq TaskIds
                                 /\ \A d \in DepsOf(t) : /\ d < t
                                                         /\ g.depth[d] < g.depth[t]
<1>1. IsTaskGraph(g)
  BY GraphAssumption
<1>2. \A t \in TaskIds : g.deps[t] \in Seq(TaskIds)
  BY <1>1 DEF IsTaskGraph, TaskIds
<1>3. \A t \in TaskIds : DepsOf(t) \subseteq TaskIds
  BY <1>2 DEF DepsOf
<1>4. g.n \in Nat /\ g.numLevels \in Nat
  BY <1>1 DEF IsTaskGraph
<1>5. TaskIds \subseteq Nat
  BY <1>4 DEF TaskIds, TaskIdsOf
<1>6. \A t \in TaskIds : g.depth[t] \in 0 .. g.numLevels - 1
  BY <1>1 DEF IsTaskGraph, TaskIds
<1>7. \A t \in TaskIds : \A d \in DepsOf(t) : d < t /\ g.depth[d] < g.depth[t]
  BY <1>1 DEF IsTaskGraph, TaskIds, DepsOf
<1> QED
  BY <1>3, <1>4, <1>5, <1>6, <1>7

Best(t, out, org) ==
    CHOOSE o \in Blamed(t, out, org) : \A p \in Blamed(t, out, org) : o <= p

\* Of the failed dependencies, the one with the lowest origin exists as soon as
\* any dependency failed: run_or_poison has someone to blame.
LEMMA BestIsBlamed ==
    ASSUME NEW t, NEW out, NEW org, Blamed(t, out, org) \subseteq Nat,
           FailedDeps(t, out) # {}
    PROVE  Best(t, out, org) \in Blamed(t, out, org)
<1> DEFINE B == Blamed(t, out, org)
<1>1. B \in SUBSET Nat /\ B # {}
  BY DEF Blamed
<1>2. \E o \in B : \A p \in B : o <= p
  <2> HIDE DEF B
  <2> QED
    BY <1>1, LeastNat
<1> QED
  BY <1>2 DEF Best

\* run_or_poison reads only the dependencies and the origins they blame.
LEMMA ReadsOnly ==
    ASSUME NEW t, NEW o1, NEW r1, NEW o2, NEW r2, NEW S,
           DepsOf(t) \subseteq S,
           Blamed(t, o1, r1) \subseteq S, Blamed(t, o1, r1) \subseteq Nat,
           \A u \in S : o1[u] = o2[u] /\ r1[u] = r2[u]
    PROVE  run_or_poison(t, o1, r1) = run_or_poison(t, o2, r2)
<1>1. FailedDeps(t, o1) = FailedDeps(t, o2)
  BY DEF FailedDeps
<1>2. FailedDeps(t, o1) \subseteq S
  BY DEF FailedDeps
<1>3. Blamed(t, o1, r1) = Blamed(t, o2, r2)
  BY <1>1, <1>2 DEF Blamed, OriginOf
<1>4. Best(t, o1, r1) = Best(t, o2, r2)
  BY <1>3 DEF Best
<1>5. Args(t, o1) = Args(t, o2)
  <2>1. \A i \in DOMAIN g.deps[t] : g.deps[t][i] \in S
    BY DEF DepsOf
  <2> QED
    BY <2>1 DEF Args
<1>6. CASE FailedDeps(t, o1) # {}
  <2>1. Best(t, o1, r1) \in S
    BY <1>6, BestIsBlamed
  <2>2. o1[Best(t, o1, r1)] = o2[Best(t, o2, r2)]
    BY <2>1, <1>4
  <2>3. /\ run_or_poison(t, o1, r1) =
              [output |-> Error(o1[Best(t, o1, r1)].err),
               origin |-> Best(t, o1, r1), executed |-> FALSE]
        /\ run_or_poison(t, o2, r2) =
              [output |-> Error(o2[Best(t, o2, r2)].err),
               origin |-> Best(t, o2, r2), executed |-> FALSE]
    BY <1>6, <1>1 DEF run_or_poison, Best
  <2> QED
    BY <2>2, <2>3, <1>4
<1>7. CASE FailedDeps(t, o1) = {}
  BY <1>7, <1>1, <1>5 DEF run_or_poison
<1> QED
  BY <1>6, <1>7

-----------------------------------------------------------------------------
\* A task of the current level or of an earlier one reads tasks of earlier
\* levels only, directly or through the origins they blame.
LEMMA ReadsDone ==
    ASSUME IInv, NEW t \in TaskIds, g.depth[t] <= lvl
    PROVE  /\ DepsOf(t) \subseteq Done
           /\ Blamed(t, outputs, origins) \subseteq Done
           /\ Blamed(t, outputs, origins) \subseteq Nat
           /\ \A b \in Blamed(t, outputs, origins) :
                 b \in TaskIds /\ b < t /\ g.depth[b] < g.depth[t]
<1>1. g \in Graphs /\ lvl \in Nat
  <2>1. g \in Graphs /\ lvl \in 0 .. g.numLevels
    BY DEF IInv, TypeOK
  <2> QED
    BY <2>1, GraphFacts
<1>2. \A u \in TaskIds : g.depth[u] \in Nat /\ u \in Nat
  BY <1>1, GraphFacts
<1>3. \A d \in DepsOf(t) : d \in TaskIds /\ d < t /\ g.depth[d] < g.depth[t]
  BY <1>1, GraphFacts
<1>4. DepsOf(t) \subseteq Done
  BY <1>1, <1>2, <1>3 DEF Done
<1>5. ASSUME NEW b \in Blamed(t, outputs, origins)
      PROVE  b \in TaskIds /\ b < t /\ g.depth[b] < g.depth[t]
  <2>1. PICK d \in FailedDeps(t, outputs) : b = OriginOf(d, origins)
    BY <1>5 DEF Blamed
  <2>2. d \in DepsOf(t) /\ ~outputs[d].ok
    BY <2>1 DEF FailedDeps
  <2>3. d \in Settled
    BY <2>2, <1>4 DEF Done, Settled
  <2>4. b \in TaskIds /\ b <= d /\ g.depth[b] <= g.depth[d]
    BY <2>1, <2>2, <2>3 DEF IInv, OriginsBelow
  <2> QED
    BY <2>2, <2>4, <1>2, <1>3
<1> QED
  BY <1>1, <1>2, <1>4, <1>5 DEF Done

\* The outcome run_or_poison gives a task of the current level blames the task
\* itself or an earlier task of no greater depth.
LEMMA OutcomeBlamesBelow ==
    ASSUME IInv, NEW t \in TaskIds, g.depth[t] <= lvl,
           NEW o, o = run_or_poison(t, outputs, origins)
    PROVE  /\ o.origin \in TaskIds \cup {None}
           /\ ~o.output.ok => /\ o.origin \in TaskIds /\ o.origin <= t
                              /\ g.depth[o.origin] <= g.depth[t]
           /\ o.executed \in BOOLEAN
<1> DEFINE best == Best(t, outputs, origins)
           res == Invoke(g.body[t], Args(t, outputs))
<1>1. t \in Nat /\ \A u \in TaskIds : u \in Nat /\ g.depth[u] \in Nat
  <2>1. g \in Graphs
    BY DEF IInv, TypeOK
  <2> QED
    BY <2>1, GraphFacts
<1>2. CASE FailedDeps(t, outputs) # {}
  <2>1. best \in Blamed(t, outputs, origins)
    BY <1>2, ReadsDone, BestIsBlamed
  <2>2. best \in TaskIds /\ best < t /\ g.depth[best] < g.depth[t]
    BY <2>1, ReadsDone
  <2>3. o = [output |-> Error(outputs[best].err), origin |-> best,
             executed |-> FALSE]
    BY <1>2 DEF run_or_poison, Best
  <2>4. o.origin = best /\ o.executed = FALSE
    BY <2>3
  <2> HIDE DEF best
  <2>5. o.origin \in TaskIds /\ o.origin <= t /\ g.depth[o.origin] <= g.depth[t]
    BY <2>2, <2>4, <1>1
  <2> QED
    BY <2>4, <2>5, Zenon
<1>3. CASE FailedDeps(t, outputs) = {}
  <2>1. o = [output |-> res, origin |-> IF res.ok THEN None ELSE t,
             executed |-> TRUE]
    BY <1>3 DEF run_or_poison
  <2>2. /\ o.executed = TRUE /\ o.output = res
        /\ o.origin = None \/ o.origin = t
        /\ ~res.ok => o.origin = t
    BY <2>1
  <2>3. t <= t /\ g.depth[t] <= g.depth[t]
    BY <1>1
  <2> HIDE DEF res
  <2> QED
    BY <2>2, <2>3, Zenon
<1> QED
  BY <1>2, <1>3

-----------------------------------------------------------------------------
\* The graph is fixed, so priming run_or_poison primes its arguments only.
LEMMA FixedGraph ==
    ASSUME UNCHANGED <<g, executor, sched>>
    PROVE  /\ TaskIds' = TaskIds
           /\ \A t : DepsOf(t)' = DepsOf(t)
           /\ \A l : Level(l)' = Level(l)
           /\ \A t : run_or_poison(t, outputs, origins)'
                        = run_or_poison(t, outputs', origins')
  BY DEF TaskIds, DepsOf, Level, run_or_poison, FailedDeps, Blamed, OriginOf, Args

\* Writing one finished task of the current level.
LEMMA StoreKeepsIInv ==
    ASSUME IInv, LoopOK', NEW t \in Level(lvl) \ written,
           NEW o, o = run_or_poison(t, outputs, origins), Store(t, o),
           written' = written \cup {t},
           UNCHANGED <<g, executor, sched, lvl, phase, inflight, slots>>
    PROVE  IInv'
<1>1. /\ g \in Graphs /\ g.n \in Nat /\ g.numLevels \in Nat
      /\ lvl \in 0 .. g.numLevels /\ lvl \in Nat
      /\ \A u \in TaskIds : u \in Nat /\ g.depth[u] \in Nat
  <2>1. g \in Graphs /\ lvl \in 0 .. g.numLevels
    BY DEF IInv, TypeOK
  <2> QED
    BY <2>1, GraphFacts
<1>2. /\ TaskIds' = TaskIds /\ (\A l : Level(l)' = Level(l)) /\ Done' = Done
      /\ \A u : run_or_poison(u, outputs, origins)'
                   = run_or_poison(u, outputs', origins')
  BY FixedGraph DEF Done, TaskIds
<1>3. /\ t \in TaskIds /\ g.depth[t] = lvl /\ t \notin Done /\ t \notin Settled
      /\ Settled' = Settled \cup {t} /\ Settled \subseteq TaskIds
      /\ Done \subseteq Settled
      /\ \A u \in Settled : g.depth[u] <= lvl
  <2>1. written \subseteq Level(lvl)
    BY DEF IInv, TypeOK
  <2> QED
    BY <2>1, <1>1, <1>2 DEF Level, Done, Settled
<1>4. /\ DOMAIN outputs = TaskIds /\ origins \in [TaskIds -> TaskIds \cup {None}]
      /\ outputs'[t] = o.output /\ origins'[t] = o.origin
      /\ \A u \in TaskIds \ {t} : outputs'[u] = outputs[u] /\ origins'[u] = origins[u]
      /\ DOMAIN outputs' = TaskIds
      /\ origins' = [origins EXCEPT ![t] = o.origin]
  BY <1>3 DEF IInv, TypeOK, Store
<1>5. /\ o.origin \in TaskIds \cup {None}
      /\ ~o.output.ok => /\ o.origin \in TaskIds /\ o.origin <= t
                         /\ g.depth[o.origin] <= g.depth[t]
      /\ o.executed \in BOOLEAN
  BY <1>1, <1>3, OutcomeBlamesBelow
<1>6. ASSUME NEW u \in TaskIds, g.depth[u] <= lvl
      PROVE  run_or_poison(u, outputs', origins') = run_or_poison(u, outputs, origins)
  <2>1. /\ DepsOf(u) \subseteq Done
        /\ Blamed(u, outputs, origins) \subseteq Done
        /\ Blamed(u, outputs, origins) \subseteq Nat
    BY <1>6, ReadsDone
  <2>2. \A v \in Done : outputs[v] = outputs'[v] /\ origins[v] = origins'[v]
    BY <1>3, <1>4 DEF Done
  <2> QED
    BY <2>1, <2>2, ReadsOnly
<1>7. OutcomesConsistent'
  <2>1. SUFFICES ASSUME NEW u \in Settled'
                 PROVE  /\ outputs'[u] = run_or_poison(u, outputs', origins').output
                        /\ origins'[u] = run_or_poison(u, outputs', origins').origin
    BY <1>2 DEF OutcomesConsistent
  <2>2. u \in TaskIds /\ g.depth[u] <= lvl
    BY <2>1, <1>1, <1>3
  <2>3. run_or_poison(u, outputs', origins') = run_or_poison(u, outputs, origins)
    BY <2>2, <1>6
  <2>4. CASE u = t
    BY <2>4, <2>3, <1>4
  <2>5. CASE u # t
    <3>1. u \in Settled
      BY <2>5, <2>1, <1>3
    <3>2. /\ outputs[u] = run_or_poison(u, outputs, origins).output
          /\ origins[u] = run_or_poison(u, outputs, origins).origin
      BY <3>1 DEF IInv, OutcomesConsistent
    <3> QED
      BY <3>2, <2>2, <2>3, <2>5, <1>4
  <2> QED
    BY <2>4, <2>5
<1>8. NothingStale'
  <2>1. \A u \in DOMAIN inflight \cup DOMAIN slots : u \in TaskIds /\ g.depth[u] <= lvl
    BY <1>1 DEF IInv, TypeOK, Level
  <2>2. \A u \in DOMAIN inflight \cup DOMAIN slots :
           run_or_poison(u, outputs', origins') = run_or_poison(u, outputs, origins)
    BY <2>1, <1>6
  <2> QED
    BY <2>2, <1>2 DEF IInv, NothingStale
<1>9. OriginsBelow'
  <2>1. SUFFICES ASSUME NEW u \in Settled', ~outputs'[u].ok
                 PROVE  /\ OriginOf(u, origins') \in TaskIds
                        /\ OriginOf(u, origins') <= u
                        /\ g.depth[OriginOf(u, origins')] <= g.depth[u]
    <3>1. \A u : OriginOf(u, origins)' = OriginOf(u, origins')
      BY DEF OriginOf
    <3> QED
      BY <3>1, <1>2 DEF OriginsBelow
  <2>2. CASE u = t
    <3>1. o.origin \in TaskIds /\ o.origin <= t /\ g.depth[o.origin] <= g.depth[t]
      BY <2>1, <2>2, <1>4, <1>5
    <3>2. o.origin # None
      BY <3>1, <1>1 DEF None
    <3> QED
      BY <3>1, <3>2, <2>2, <1>4 DEF OriginOf
  <2>3. CASE u # t
    <3>1. u \in Settled /\ u \in TaskIds
      BY <2>3, <2>1, <1>3
    <3>2. outputs'[u] = outputs[u] /\ origins'[u] = origins[u]
      BY <3>1, <2>3, <1>4
    <3> QED
      BY <3>1, <3>2, <2>1 DEF IInv, OriginsBelow, OriginOf
  <2> QED
    BY <2>2, <2>3
<1>10. /\ Cardinality(Settled') \in Nat /\ executed \in Nat /\ executed' \in Nat /\ executed' <= executed + 1
       /\ Cardinality(Settled') = Cardinality(Settled) + 1
       /\ Cardinality(Settled') <= g.n
       /\ executed' <= Cardinality(Settled')
  <2>1. /\ IsFiniteSet(TaskIds) /\ Cardinality(TaskIds) = g.n
    <3>1. g.n - 1 \in Int /\ 0 <= g.n
      BY <1>1
    <3>2. /\ IsFiniteSet(0 .. g.n - 1)
          /\ Cardinality(0 .. g.n - 1) = IF 0 > g.n - 1 THEN 0 ELSE g.n - 1 - 0 + 1
      BY <3>1, FS_Interval
    <3> QED
      BY <3>1, <3>2, <1>1 DEF TaskIds, TaskIdsOf
  <2>2. IsFiniteSet(Settled) /\ Settled' \subseteq TaskIds
    BY <2>1, <1>3, FS_Subset
  <2>3. Cardinality(Settled') = Cardinality(Settled) + 1
    BY <2>2, <1>3, FS_AddElement
  <2>4. Cardinality(Settled') <= g.n
    BY <2>1, <2>2, FS_Subset
  <2>5. executed \in Nat /\ executed <= Cardinality(Settled)
    BY <1>1 DEF IInv, TypeOK, CountOK
  <2>6. executed' = executed \/ executed' = executed + 1
    BY <2>5 DEF Store
  <2>7. Cardinality(Settled) \in Nat
    BY <2>2, FS_CardinalityType
  <2> QED
    BY <2>3, <2>4, <2>5, <2>6, <2>7
<1>11. TypeOK'
  <2>1. executed' \in 0 .. g.n
    BY <1>10, <1>1
  <2>2. origins' \in [TaskIds -> TaskIds \cup {None}]
    BY <1>4, <1>5
  <2>3. written' \subseteq Level(lvl)
    BY DEF IInv, TypeOK
  <2> QED
    BY <2>1, <2>2, <2>3, <1>1, <1>2, <1>4 DEF IInv, TypeOK
<1> QED
  BY <1>7, <1>8, <1>9, <1>10, <1>11 DEF IInv, CountOK

-----------------------------------------------------------------------------
\* A run that has not started satisfies the invariant.
LEMMA InitIInv == Init => IInv
<1> SUFFICES ASSUME Init PROVE IInv
  OBVIOUS
<1>1. /\ g \in Graphs /\ g.n \in Nat /\ g.numLevels \in Nat
      /\ \A u \in TaskIds : g.depth[u] \in 0 .. g.numLevels - 1
  <2>1. g \in Graphs
    BY DEF Init
  <2> QED
    BY <2>1, GraphFacts
<1>2. Settled = {}
  BY <1>1 DEF Init, Settled
<1>3. TypeOK
  <2>1. lvl \in 0 .. g.numLevels /\ executed \in 0 .. g.n
    BY <1>1 DEF Init
  <2>2. phase \in {"fan", "write", "done"}
    BY DEF Init
  <2>3. DOMAIN outputs = TaskIds /\ origins \in [TaskIds -> TaskIds \cup {None}]
    BY DEF Init
  <2>4. DOMAIN inflight = {} /\ DOMAIN slots = {} /\ written = {}
    BY DEF Init
  <2> QED
    BY <2>1, <2>2, <2>3, <2>4, <1>1 DEF Init, TypeOK
<1>4. LoopOK
  BY <1>1 DEF Init, LoopOK
<1>5. CountOK
  BY <1>2, FS_EmptySet DEF Init, CountOK
<1>6. OriginsBelow /\ OutcomesConsistent
  BY <1>2 DEF OriginsBelow, OutcomesConsistent
<1>7. NothingStale
  BY DEF Init, NothingStale
<1> QED
  BY <1>3, <1>4, <1>5, <1>6, <1>7 DEF IInv

\* Steps that write no output keep what is said of the written outputs.
LEMMA OutputsKept ==
    ASSUME IInv, UNCHANGED <<g, executor, sched, outputs, origins, executed>>,
           Settled' = Settled
    PROVE  OutcomesConsistent' /\ OriginsBelow' /\ CountOK'
<1>1. /\ TaskIds' = TaskIds
      /\ \A u : run_or_poison(u, outputs, origins)'
                   = run_or_poison(u, outputs, origins)
  BY FixedGraph
<1>2. OutcomesConsistent'
  BY <1>1 DEF IInv, OutcomesConsistent
<1>3. OriginsBelow'
  BY <1>1 DEF IInv, OriginsBelow, OriginOf
<1>4. CountOK'
  BY DEF IInv, CountOK
<1> QED
  BY <1>2, <1>3, <1>4

\* Every step of every run keeps the invariant: one case per action.
LEMMA NextKeepsIInv == IInv /\ [Next]_vars => IInv'
<1> SUFFICES ASSUME IInv, [Next]_vars PROVE IInv'
  OBVIOUS
<1>0. /\ g \in Graphs /\ g.n \in Nat /\ g.numLevels \in Nat
      /\ lvl \in 0 .. g.numLevels /\ lvl \in Nat
      /\ \A u \in TaskIds : g.depth[u] \in 0 .. g.numLevels - 1 /\ g.depth[u] \in Nat
  <2>1. g \in Graphs /\ lvl \in 0 .. g.numLevels
    BY DEF IInv, TypeOK
  <2> QED
    BY <2>1, GraphFacts
<1>1. ASSUME NEW t \in TaskIds, RunSerial(t) PROVE IInv'
  <2>1. t \in Level(lvl) \ written
    BY <1>1 DEF RunSerial, First
  <2>2. LoopOK'
    BY <1>1 DEF RunSerial, IInv, LoopOK
  <2>3. Store(t, run_or_poison(t, outputs, origins))
    BY <1>1 DEF RunSerial
  <2>4. /\ written' = written \cup {t}
        /\ UNCHANGED <<g, executor, sched, lvl, phase, inflight, slots>>
    BY <1>1 DEF RunSerial
  <2> QED
    BY <2>1, <2>2, <2>3, <2>4, StoreKeepsIInv
<1>2. ASSUME NEW t \in TaskIds, WriteBack(t) PROVE IInv'
  <2>1. t \in Level(lvl) \ written
    BY <1>2 DEF WriteBack, First
  <2>2. LoopOK'
    <3>1. Level(lvl)' = Level(lvl)
      BY <1>2 DEF WriteBack, Level, TaskIds
    <3> QED
      BY <3>1, <1>2 DEF WriteBack, IInv, LoopOK
  <2>3. Store(t, slots[t])
    BY <1>2 DEF WriteBack
  <2>4. slots[t] = run_or_poison(t, outputs, origins)
    BY <2>1, <1>2 DEF WriteBack, IInv, LoopOK, NothingStale
  <2>5. /\ written' = written \cup {t}
        /\ UNCHANGED <<g, executor, sched, lvl, phase, inflight, slots>>
    BY <1>2 DEF WriteBack
  <2> QED
    BY <2>1, <2>2, <2>3, <2>4, <2>5, StoreKeepsIInv
<1>3. ASSUME NEW t \in TaskIds, BeginTask(t) PROVE IInv'
  <2>1. UNCHANGED <<g, executor, sched, lvl, phase, outputs, origins, executed,
                    slots, written>>
    BY <1>3 DEF BeginTask
  <2>2. /\ TaskIds' = TaskIds /\ (\A l : Level(l)' = Level(l)) /\ Settled' = Settled
        /\ \A u : run_or_poison(u, outputs, origins)'
                     = run_or_poison(u, outputs, origins)
    BY <2>1, FixedGraph DEF Settled
  <2>3. /\ t \in Level(lvl) \ (DOMAIN inflight \cup DOMAIN slots)
        /\ DOMAIN inflight' = DOMAIN inflight \cup {t}
        /\ inflight'[t] = run_or_poison(t, outputs, origins)
        /\ \A u \in DOMAIN inflight : u # t => inflight'[u] = inflight[u]
    BY <1>3 DEF BeginTask, Put
  <2>4. TypeOK'
    BY <2>1, <2>2, <2>3 DEF IInv, TypeOK
  <2>5. LoopOK'
    BY <2>1, <2>2, <1>3 DEF BeginTask, IInv, LoopOK
  <2>6. NothingStale'
    BY <2>1, <2>2, <2>3 DEF IInv, NothingStale
  <2> QED
    BY <2>1, <2>2, <2>4, <2>5, <2>6, OutputsKept DEF IInv
<1>4. ASSUME NEW t \in TaskIds, FillSlot(t) PROVE IInv'
  <2>1. UNCHANGED <<g, executor, sched, lvl, phase, outputs, origins, executed,
                    written>>
    BY <1>4 DEF FillSlot
  <2>2. /\ TaskIds' = TaskIds /\ (\A l : Level(l)' = Level(l)) /\ Settled' = Settled
        /\ \A u : run_or_poison(u, outputs, origins)'
                     = run_or_poison(u, outputs, origins)
    BY <2>1, FixedGraph DEF Settled
  <2>3. /\ t \in DOMAIN inflight
        /\ DOMAIN inflight' = DOMAIN inflight \ {t}
        /\ DOMAIN slots' = DOMAIN slots \cup {t}
        /\ slots'[t] = inflight[t]
        /\ \A u \in DOMAIN inflight' : inflight'[u] = inflight[u]
        /\ \A u \in DOMAIN slots : u # t => slots'[u] = slots[u]
    BY <1>4 DEF FillSlot, Put, Drop
  <2>4. TypeOK'
    BY <2>1, <2>2, <2>3 DEF IInv, TypeOK
  <2>5. LoopOK'
    <3>1. executor # "serial" /\ phase = "fan"
      BY <2>3 DEF IInv, LoopOK
    <3> QED
      BY <3>1, <2>1 DEF IInv, LoopOK
  <2>6. NothingStale'
    BY <2>1, <2>2, <2>3 DEF IInv, NothingStale
  <2> QED
    BY <2>1, <2>2, <2>4, <2>5, <2>6, OutputsKept DEF IInv
<1>5. CASE Join
  <2>1. UNCHANGED <<g, executor, sched, lvl, outputs, origins, executed,
                    inflight, slots, written>>
    BY <1>5 DEF Join
  <2>2. /\ TaskIds' = TaskIds /\ (\A l : Level(l)' = Level(l)) /\ Settled' = Settled
        /\ \A u : run_or_poison(u, outputs, origins)'
                     = run_or_poison(u, outputs, origins)
    BY <2>1, FixedGraph DEF Settled
  <2>3. phase = "fan" /\ phase' = "write" /\ DOMAIN slots = Level(lvl)
        /\ executor # "serial"
    BY <1>5 DEF Join
  <2>4. TypeOK'
    BY <2>1, <2>2, <2>3 DEF IInv, TypeOK
  <2>5. DOMAIN inflight = {}
    BY <2>3 DEF IInv, TypeOK
  <2>6. LoopOK'
    BY <2>1, <2>2, <2>3, <2>5 DEF IInv, LoopOK
  <2>7. NothingStale'
    BY <2>1, <2>2 DEF IInv, NothingStale
  <2> QED
    BY <2>1, <2>2, <2>4, <2>6, <2>7, OutputsKept DEF IInv
<1>6. CASE NextLevel
  <2>1. /\ UNCHANGED <<g, executor, sched, outputs, origins, executed, inflight>>
        /\ lvl' = lvl + 1 /\ written' = {} /\ written = Level(lvl)
        /\ slots' = [t \in {} |-> {}]
        /\ phase' = IF lvl + 1 < g.numLevels THEN "fan" ELSE "done"
        /\ phase = (IF executor = "serial" THEN "fan" ELSE "write")
    BY <1>6 DEF NextLevel
  <2>2. /\ TaskIds' = TaskIds /\ (\A l : Level(l)' = Level(l))
        /\ \A u : run_or_poison(u, outputs, origins)'
                     = run_or_poison(u, outputs, origins)
    BY <2>1, FixedGraph
  <2>3. Settled' = Settled
    BY <2>1, <2>2, <1>0 DEF Settled, Level
  <2>4. DOMAIN inflight = {} /\ DOMAIN slots' = {} /\ lvl < g.numLevels
    BY <2>1 DEF IInv, LoopOK
  <2>5. TypeOK'
    <3>1. lvl' \in 0 .. g.numLevels /\ phase' \in {"fan", "write", "done"}
      BY <2>1, <2>4, <1>0
    <3> QED
      BY <3>1, <2>1, <2>2, <2>4 DEF IInv, TypeOK
  <2>6. LoopOK'
    <3>1. phase' = "done" => lvl' = g.numLevels
      BY <2>1, <2>4, <1>0
    <3>2. phase' # "done" => phase' = "fan" /\ lvl' < g.numLevels
      BY <2>1, <2>4, <1>0
    <3> QED
      BY <3>1, <3>2, <2>1, <2>4 DEF LoopOK
  <2>7. NothingStale'
    BY <2>1, <2>4 DEF NothingStale
  <2> QED
    BY <2>1, <2>3, <2>5, <2>6, <2>7, OutputsKept DEF IInv
<1>7. CASE UNCHANGED vars
  <2>1. /\ TaskIds' = TaskIds /\ (\A l : Level(l)' = Level(l)) /\ Settled' = Settled
        /\ \A u : run_or_poison(u, outputs, origins)'
                     = run_or_poison(u, outputs, origins)
    BY <1>7, FixedGraph DEF vars, Settled
  <2>2. TypeOK'
    BY <2>1, <1>7 DEF vars, IInv, TypeOK
  <2>3. LoopOK'
    BY <2>1, <1>7 DEF vars, IInv, LoopOK
  <2>4. NothingStale'
    BY <2>1, <1>7 DEF vars, IInv, NothingStale
  <2> QED
    BY <2>1, <2>2, <2>3, <2>4, <1>7, OutputsKept DEF vars, IInv
<1> QED
  BY <1>1, <1>2, <1>3, <1>4, <1>5, <1>6, <1>7 DEF Next, Step, Terminated

-----------------------------------------------------------------------------
\* A complete assignment of outputs and origins that satisfies the semantics
\* of run_or_poison at every task, however it was obtained.
Solves(out, org) ==
    \A t \in TaskIds : /\ out[t] = run_or_poison(t, out, org).output
                       /\ org[t] = run_or_poison(t, out, org).origin

\* The result of the run is THE solution: any executor that respects
\* run_or_poison at every task returns the same outputs and origins.
ResultIsUnique ==
    phase = "done" =>
        \A out, org : Solves(out, org) =>
            \A t \in TaskIds : outputs[t] = out[t] /\ origins[t] = org[t]

\* A finished run agrees with every solution: the lowest task on which they
\* differed would have dependencies on which they agree.
LEMMA IInvGivesUnique == IInv => ResultIsUnique
<1> SUFFICES ASSUME IInv, phase = "done", NEW out, NEW org, Solves(out, org)
             PROVE  \A t \in TaskIds : outputs[t] = out[t] /\ origins[t] = org[t]
  BY DEF ResultIsUnique
<1> DEFINE Differ == {t \in TaskIds : ~(outputs[t] = out[t] /\ origins[t] = org[t])}
<1>1. /\ g \in Graphs /\ TaskIds \subseteq Nat /\ lvl = g.numLevels /\ lvl \in Nat
      /\ \A t \in TaskIds : g.depth[t] \in Nat /\ g.depth[t] < lvl
  <2>1. g \in Graphs /\ lvl = g.numLevels
    BY DEF IInv, TypeOK, LoopOK
  <2> QED
    BY <2>1, GraphFacts
<1>2. TaskIds \subseteq Settled
  BY <1>1 DEF Settled
<1>3. SUFFICES ASSUME Differ # {} PROVE FALSE
  OBVIOUS
<1>4. PICK t \in Differ : \A u \in Differ : t <= u
  <2>1. Differ \in SUBSET Nat
    BY <1>1
  <2> HIDE DEF Differ
  <2> QED
    BY <2>1, <1>3, LeastNat
<1> DEFINE S == {u \in TaskIds : u < t}
<1>5. t \in TaskIds /\ t \in Nat /\ g.depth[t] <= lvl
  BY <1>1, <1>4
<1>6. \A u \in S : outputs[u] = out[u] /\ origins[u] = org[u]
  <2> SUFFICES ASSUME NEW u \in S PROVE u \notin Differ
    OBVIOUS
  <2>1. ~(t <= u)
    BY <1>1, <1>5
  <2> HIDE DEF Differ, S
  <2> QED
    BY <1>4, <2>1
<1>7. DepsOf(t) \subseteq S
  BY <1>1, <1>5, GraphFacts
<1>8. /\ Blamed(t, outputs, origins) \subseteq S
      /\ Blamed(t, outputs, origins) \subseteq Nat
  BY <1>5, ReadsDone
<1>9. run_or_poison(t, outputs, origins) = run_or_poison(t, out, org)
  <2> HIDE DEF S
  <2> QED
    BY <1>6, <1>7, <1>8, ReadsOnly
<1>10. /\ outputs[t] = run_or_poison(t, outputs, origins).output
       /\ origins[t] = run_or_poison(t, outputs, origins).origin
  BY <1>2, <1>5 DEF IInv, OutcomesConsistent
<1>11. /\ out[t] = run_or_poison(t, out, org).output
       /\ org[t] = run_or_poison(t, out, org).origin
  BY <1>5 DEF Solves
<1> QED
  BY <1>4, <1>9, <1>10, <1>11

\* The executors' tables stay in range and no id is computed twice.
THEOREM TypeCorrect == Spec => []TypeOK
<1>1. IInv => TypeOK
  BY DEF IInv
<1> QED
  BY <1>1, InitIInv, NextKeepsIInv, PTL DEF Spec

\* Every written outcome agrees with run_or_poison on the outputs as they are.
THEOREM Consistent == Spec => []OutcomesConsistent
<1>1. IInv => OutcomesConsistent
  BY DEF IInv
<1> QED
  BY <1>1, InitIInv, NextKeepsIInv, PTL DEF Spec

\* No thread of the pool ever holds an outcome computed from inputs that have
\* changed since.
THEOREM NoStaleOutcome == Spec => []NothingStale
<1>1. IInv => NothingStale
  BY DEF IInv
<1> QED
  BY <1>1, InitIInv, NextKeepsIInv, PTL DEF Spec

\* The determinism contract of nimblecas.taskdag: serial, parallel and
\* cost-ordered runs of one graph return identical outputs.
THEOREM Determinism == Spec => []ResultIsUnique
<1> QED
  BY IInvGivesUnique, InitIInv, NextKeepsIInv, PTL DEF Spec

-----------------------------------------------------------------------------
\* A sanitized hint is finite whatever the estimate was.
LEMMA SanitizeFinite ==
    ASSUME NEW hint \in CostHint
    PROVE  sanitize(hint).mean \in Int /\ sanitize(hint).dev \in Int
<1>1. /\ hint.mean \in Number /\ hint.dev \in Number
      /\ MaxMean \in Int /\ 0 \in Int
  BY CostAssumption DEF CostHint
<1>2. \A x \in Number : Finite(x) => Clamp(x, MaxMean) \in Int
  BY <1>1 DEF Number, Finite, Clamp
<1> QED
  BY <1>1, <1>2 DEF sanitize, Unknown

\* The cost that level_order compares is finite for every hint, table and
\* lambda: none of its comparisons is one with a NaN.
LEMMA CostFinite ==
    ASSUME NEW hint \in CostHint, NEW op, NEW table, NEW lambda \in Number,
           \A o \in DOMAIN table : table[o] \in CostHint
    PROVE  effective_cost(hint, op, table, lambda) \in Int
<1> DEFINE own == sanitize(hint)
           sel == IF ~Gt(own.mean, 0) /\ op # NoOp /\ op \in DOMAIN table
                  THEN sanitize(table[op]) ELSE own
           lam == IF Finite(lambda) /\ lambda >= 0 THEN lambda ELSE 0
           cost == IF Gt(sel.mean, 0) THEN sel.mean + lam * sel.dev ELSE 0
<1>1. sel.mean \in Int /\ sel.dev \in Int
  BY SanitizeFinite
<1>2. lam \in Int
  BY DEF Number, Finite
<1>3. cost \in Int
  <2> HIDE DEF sel, lam
  <2> QED
    BY <1>1, <1>2
<1>4. effective_cost(hint, op, table, lambda) = IF cost > MaxCost THEN 0 ELSE cost
  BY DEF effective_cost
<1> HIDE DEF cost
<1> QED
  BY <1>3, <1>4

\* The comparator on finite costs: higher cost first, then the lower id.
LEMMA BeforeIsTotal ==
    ASSUME NEW T \in SUBSET Nat, NEW c \in [T -> Int]
    PROVE  \A t, u \in T :
              /\ ~Before(c[t], t, c[t], t)
              /\ t # u => (Before(c[t], t, c[u], u) <=> ~Before(c[u], u, c[t], t))
              /\ \A v \in T : Before(c[t], t, c[u], u) /\ Before(c[u], u, c[v], v)
                                => Before(c[t], t, c[v], v)
<1>1. \A t \in T : c[t] \in Int /\ t \in Nat /\ Finite(c[t])
  BY CostAssumption DEF Finite
<1>2. \A t, u \in T : Before(c[t], t, c[u], u)
                        <=> (c[t] > c[u] \/ (c[t] = c[u] /\ t < u))
  BY <1>1 DEF Before, Gt
<1>3. \A t, u \in T : \A v \in T :
         (c[t] > c[u] \/ (c[t] = c[u] /\ t < u)) /\ (c[u] > c[v] \/ (c[u] = c[v] /\ u < v))
            => (c[t] > c[v] \/ (c[t] = c[v] /\ t < v))
  BY <1>1
<1>4. \A t, u \in T : t # u => ((c[t] > c[u] \/ (c[t] = c[u] /\ t < u))
                                 <=> ~(c[u] > c[t] \/ (c[u] = c[t] /\ u < t)))
  BY <1>1
<1>5. \A t \in T : ~(c[t] > c[t] \/ (c[t] = c[t] /\ t < t))
  BY <1>1
<1> QED
  BY <1>2, <1>3, <1>4, <1>5

\* The graph and the schedule are what the run was called with.
ScheduleOK == g \in Graphs /\ sched \in [table : CostTables, lambda : Lambdas]

\* Either order a level is listed in is a strict total order.
LEMMA ScheduleGivesOrder == ScheduleOK => OrderIsTotal
<1> SUFFICES ASSUME ScheduleOK PROVE OrderIsTotal
  OBVIOUS
<1>1. TaskIds \subseteq Nat /\ \A l : Level(l) \subseteq TaskIds
  BY GraphFacts DEF ScheduleOK, Level
<1>2. \A t \in TaskIds : CostOf(t) \in Int
  <2>1. sched.table \in CostTables /\ sched.lambda \in Lambdas
    BY DEF ScheduleOK
  <2>2. /\ \A o \in DOMAIN sched.table : sched.table[o] \in CostHint
        /\ sched.lambda \in Number
    BY <2>1, ScheduleAssumption
  <2>3. \A t \in TaskIds : g.hint[t] \in CostHint
    BY ScheduleAssumption DEF ScheduleOK, TaskIds
  <2> QED
    BY <2>2, <2>3, CostFinite DEF CostOf
<1> DEFINE c == [t \in TaskIds |-> CostOf(t)]
<1>3. c \in [TaskIds -> Int] /\ \A t \in TaskIds : c[t] = CostOf(t)
  BY <1>2
<1>4. CASE executor = "cost_ordered_local"
  <2>1. \A t, u \in TaskIds : Precedes(t, u) <=> Before(c[t], t, c[u], u)
    BY <1>3, <1>4 DEF Precedes
  <2> HIDE DEF c
  <2>2. \A t, u \in TaskIds :
              /\ ~Before(c[t], t, c[t], t)
              /\ t # u => (Before(c[t], t, c[u], u) <=> ~Before(c[u], u, c[t], t))
              /\ \A v \in TaskIds : Before(c[t], t, c[u], u) /\ Before(c[u], u, c[v], v)
                                => Before(c[t], t, c[v], v)
    BY <1>1, <1>3, BeforeIsTotal
  <2>3. \A t, u \in TaskIds :
              /\ ~Precedes(t, t)
              /\ t # u => (Precedes(t, u) <=> ~Precedes(u, t))
              /\ \A v \in TaskIds : Precedes(t, u) /\ Precedes(u, v) => Precedes(t, v)
    BY <2>1, <2>2, Zenon
  <2> QED
    BY <1>1, <2>3 DEF OrderIsTotal
<1>5. CASE executor # "cost_ordered_local"
  <2>1. \A t, u \in TaskIds : Precedes(t, u) <=> t < u
    BY <1>5 DEF Precedes
  <2>2. \A t, u \in TaskIds :
              /\ ~(t < t)
              /\ t # u => (t < u <=> ~(u < t))
              /\ \A v \in TaskIds : t < u /\ u < v => t < v
    BY <1>1
  <2>3. \A t, u \in TaskIds :
              /\ ~Precedes(t, t)
              /\ t # u => (Precedes(t, u) <=> ~Precedes(u, t))
              /\ \A v \in TaskIds : Precedes(t, u) /\ Precedes(u, v) => Precedes(t, v)
    BY <2>1, <2>2, Zenon
  <2> QED
    BY <1>1, <2>3 DEF OrderIsTotal
<1> QED
  BY <1>4, <1>5

\* No cost hint, calibration table or risk aversion, however absurd, gives
\* std::sort an inconsistent comparator: level_order always orders a level.
THEOREM LevelOrderIsTotal == Spec => []OrderIsTotal
<1>1. Init => ScheduleOK
  BY DEF Init, ScheduleOK
<1>2. ScheduleOK /\ [Next]_vars => ScheduleOK'
  BY DEF ScheduleOK, Next, Step, vars, Join, NextLevel, RunSerial, BeginTask,
         FillSlot, WriteBack, Terminated
<1> QED
  BY <1>1, <1>2, ScheduleGivesOrder, PTL DEF Spec

-----------------------------------------------------------------------------
\* What TaskRun calls out: the settled tasks with what the run wrote for them.
Out == [t \in Settled |-> [output |-> outputs[t], origin |-> origins[t]]]

\* TaskRun speaks of tasks as this module does.
LEMMA SameSemantics ==
    /\ Run!TaskIds = TaskIds
    /\ \A t : Run!DepsOf(t) = DepsOf(t)
    /\ \A t, o, r : Run!run_or_poison(t, o, r) = run_or_poison(t, o, r)
  BY DEF Run!TaskIds, Run!TaskIdsOf, TaskIds, TaskIdsOf, Run!DepsOf, DepsOf,
         Run!run_or_poison, run_or_poison, Run!FailedDeps, FailedDeps,
         Run!Blamed, Blamed, Run!OriginOf, OriginOf, Run!Args, Args,
         Run!Error, Error, Run!None, None

\* Writing the outcome of a task of the current level settles it in TaskRun.
LEMMA StoreSettles ==
    ASSUME IInv, NEW t \in Level(lvl) \ written, phase # "done",
           NEW o, o = run_or_poison(t, outputs, origins), Store(t, o),
           written' = written \cup {t}, UNCHANGED <<g, lvl, phase>>
    PROVE  Run!Settle({t})
<1>1. g \in Graphs /\ lvl \in Nat /\ written \subseteq Level(lvl)
      /\ \A u \in TaskIds : g.depth[u] \in Nat
  <2>1. g \in Graphs /\ lvl \in 0 .. g.numLevels /\ written \subseteq Level(lvl)
    BY DEF IInv, TypeOK
  <2> QED
    BY <2>1, GraphFacts
<1>2. /\ t \in TaskIds /\ g.depth[t] = lvl /\ t \notin Settled
      /\ Settled \subseteq TaskIds /\ Done \subseteq Settled
      /\ Settled' = Settled \cup {t}
  BY <1>1 DEF Level, Done, Settled, TaskIds
<1>3. /\ DepsOf(t) \subseteq Settled
      /\ Blamed(t, outputs, origins) \subseteq Settled
      /\ Blamed(t, outputs, origins) \subseteq Nat
  BY <1>1, <1>2, ReadsDone
<1>4. /\ outputs'[t] = o.output /\ origins'[t] = o.origin
      /\ \A u \in Settled : outputs'[u] = outputs[u] /\ origins'[u] = origins[u]
  BY <1>2 DEF IInv, TypeOK, Store
<1> DEFINE so == [d \in DOMAIN Out |-> Out[d].output]
           sr == [d \in DOMAIN Out |-> Out[d].origin]
<1>5. run_or_poison(t, so, sr) = o
  <2>1. \A u \in Settled : outputs[u] = so[u] /\ origins[u] = sr[u]
    BY DEF Out
  <2> HIDE DEF so, sr
  <2> QED
    BY <1>3, <2>1, ReadsOnly
<1>6. Run!Outcome(t) = [output |-> o.output, origin |-> o.origin]
  <2>1. Run!Outcome(t) = [output |-> Run!run_or_poison(t, so, sr).output,
                          origin |-> Run!run_or_poison(t, so, sr).origin]
    BY DEF Run!Outcome, Out
  <2> HIDE DEF so, sr
  <2> QED
    BY <1>5, <2>1, SameSemantics
<1>7. Out' = [u \in Settled \cup {t} |-> IF u \in {t} THEN Run!Outcome(t) ELSE Out[u]]
  <2>1. Out' = [u \in Settled \cup {t} |-> [output |-> outputs'[u], origin |-> origins'[u]]]
    BY <1>2 DEF Out
  <2>2. \A u \in Settled \cup {t} :
           [output |-> outputs'[u], origin |-> origins'[u]]
              = IF u \in {t} THEN Run!Outcome(t) ELSE Out[u]
    BY <1>2, <1>4, <1>6 DEF Out
  <2> QED
    BY <2>1, <2>2
<1>8. Out' = [u \in DOMAIN Out \cup {t} |-> IF u \in {t} THEN Run!Outcome(u) ELSE Out[u]]
  BY <1>7 DEF Out
<1>9. {t} \cap DOMAIN Out = {} /\ \A u \in {t} : Run!DepsOf(u) \subseteq DOMAIN Out
  BY <1>2, <1>3, SameSemantics DEF Out
<1> QED
  BY <1>8, <1>9 DEF Run!Settle, Out

\* A step that writes nothing, or ends a level whose tasks are all written,
\* changes neither what is settled nor what was written for it.
LEMMA WritesNothing ==
    ASSUME IInv, UNCHANGED <<g, outputs, origins>>,
           UNCHANGED <<lvl, written>> \/ (written = Level(lvl) /\ lvl' = lvl + 1
                                          /\ written' = {})
    PROVE  Settled' = Settled /\ Out' = Out
<1>1. lvl \in Nat /\ \A u \in TaskIds : g.depth[u] \in Nat
  <2>1. g \in Graphs /\ lvl \in 0 .. g.numLevels
    BY DEF IInv, TypeOK
  <2> QED
    BY <2>1, GraphFacts
<1>2. TaskIds' = TaskIds
  BY DEF TaskIds
<1>3. Settled' = Settled
  BY <1>1, <1>2 DEF Settled, Level
<1> QED
  BY <1>3 DEF Out

\* Every step settles one task, returns, or is invisible.
LEMMA StepRefines == IInv /\ [Next]_vars => [Run!Next]_(Run!vars)
<1> SUFFICES ASSUME IInv, [Next]_vars PROVE [Run!Next]_(Run!vars)
  OBVIOUS
<1>1. ASSUME NEW t \in TaskIds, Run!Settle({t}) PROVE Run!Next
  BY <1>1, SameSemantics DEF Run!Next
<1>2. ASSUME UNCHANGED <<g, phase>>, Out' = Out PROVE UNCHANGED Run!vars
  BY <1>2 DEF Run!vars, Out
<1>3. ASSUME NEW t \in TaskIds, RunSerial(t) PROVE Run!Next
  <2>1. Run!Settle({t})
    BY <1>3, StoreSettles DEF RunSerial, First
  <2> QED
    BY <2>1, <1>1
<1>4. ASSUME NEW t \in TaskIds, WriteBack(t) PROVE Run!Next
  <2>1. t \in Level(lvl) \ written /\ phase = "write"
    BY <1>4 DEF WriteBack, First
  <2>2. slots[t] = run_or_poison(t, outputs, origins)
    BY <2>1 DEF IInv, LoopOK, NothingStale
  <2>3. Run!Settle({t})
    BY <1>4, <2>1, <2>2, StoreSettles DEF WriteBack
  <2> QED
    BY <2>3, <1>1
<1>5. ASSUME NEW t \in TaskIds, BeginTask(t) \/ FillSlot(t) PROVE UNCHANGED Run!vars
  <2>1. UNCHANGED <<g, phase, outputs, origins, lvl, written>>
    BY <1>5 DEF BeginTask, FillSlot
  <2> QED
    BY <2>1, <1>2, WritesNothing
<1>6. CASE Join
  <2>1. UNCHANGED <<g, outputs, origins, lvl, written>>
        /\ phase # "done" /\ phase' # "done"
    BY <1>6 DEF Join
  <2>2. Out' = Out
    BY <2>1, WritesNothing
  <2> QED
    BY <2>1, <2>2 DEF Run!vars, Out
<1>7. CASE NextLevel
  <2>1. /\ UNCHANGED <<g, outputs, origins>> /\ phase # "done"
        /\ written = Level(lvl) /\ lvl' = lvl + 1 /\ written' = {}
        /\ phase' = IF lvl + 1 < g.numLevels THEN "fan" ELSE "done"
    BY <1>7 DEF NextLevel
  <2>2. Settled' = Settled /\ Out' = Out
    BY <2>1, WritesNothing
  <2>3. CASE phase' # "done"
    BY <2>1, <2>2, <2>3 DEF Run!vars, Out
  <2>4. CASE phase' = "done"
    <3>1. g \in Graphs /\ lvl \in 0 .. g.numLevels /\ lvl < g.numLevels
      BY <2>1 DEF IInv, TypeOK, LoopOK
    <3>2. /\ g.numLevels \in Nat
          /\ \A u \in TaskIds : g.depth[u] \in 0 .. g.numLevels - 1
      BY <3>1, GraphFacts
    <3>3. lvl' = g.numLevels /\ lvl' \in Nat
      BY <2>1, <2>4, <3>1, <3>2
    <3>4. TaskIds' = TaskIds
      BY <2>1 DEF TaskIds
    <3>5. Settled' = TaskIds
      BY <2>1, <3>2, <3>3, <3>4 DEF Settled
    <3>6. DOMAIN Out = Run!TaskIds
      BY <2>2, <3>5, SameSemantics DEF Out
    <3>7. Run!Return
      BY <2>1, <2>2, <2>4, <3>6 DEF Run!Return, Out
    <3> QED
      BY <3>7 DEF Run!Next
  <2> QED
    BY <2>3, <2>4
<1>8. CASE UNCHANGED vars
  <2>1. UNCHANGED <<g, phase, outputs, origins, lvl, written>>
    BY <1>8 DEF vars
  <2> QED
    BY <2>1, <1>2, WritesNothing
<1> QED
  BY <1>3, <1>4, <1>5, <1>6, <1>7, <1>8 DEF Next, Step, Terminated

\* Each in-process executor is a TaskRun: tasks settle one at a time, after
\* their dependencies, with run_or_poison's outcome, and never change.
THEOREM ImplementsRun == Spec => ImplementsTaskRun
<1>1. Init => Run!Init
  <2> SUFFICES ASSUME Init PROVE Run!Init
    OBVIOUS
  <2>1. /\ g \in Graphs /\ g.n \in Nat /\ g.numLevels \in Nat
        /\ \A u \in TaskIds : g.depth[u] \in 0 .. g.numLevels - 1
    <3>1. g \in Graphs
      BY DEF Init
    <3> QED
      BY <3>1, GraphFacts
  <2>2. Settled = {}
    BY <2>1 DEF Init, Settled
  <2>3. Out = [t \in {} |-> {}]
    BY <2>2 DEF Out
  <2>4. ASSUME phase = "done" PROVE g.n = 0
    <3>1. g.numLevels = 0
      BY <2>4 DEF Init
    <3>2. TaskIds = {}
      BY <2>1, <3>1
    <3> QED
      BY <2>1, <3>2 DEF TaskIds, TaskIdsOf
  <2> QED
    BY <2>1, <2>3, <2>4 DEF Run!Init, Out
<1> QED
  BY <1>1, StepRefines, InitIInv, NextKeepsIInv, PTL
     DEF Spec, ImplementsTaskRun, Run!Spec

-----------------------------------------------------------------------------
(* The recursion of the reference semantics, along the dependencies.         *)

OwnStep(f, t) ==
    IF \E d \in DepsOf(t) : ~f[d].ok
    THEN Error("poisoned")
    ELSE Invoke(g.body[t],
                g.literals[t] \o [i \in DOMAIN g.deps[t] |-> f[g.deps[t][i]].val])
AncStep(f, t) == DepsOf(t) \cup UNION {f[d] : d \in DepsOf(t)}

\* What a task is and whose descendant it is depends on its dependencies only.
LEMMA StepsReadDeps ==
    ASSUME NEW t, NEW f, NEW h, \A d \in DepsOf(t) : f[d] = h[d]
    PROVE  OwnStep(f, t) = OwnStep(h, t) /\ AncStep(f, t) = AncStep(h, t)
<1>1. \A i \in DOMAIN g.deps[t] : f[g.deps[t][i]] = h[g.deps[t][i]]
  BY DEF DepsOf
<1>2. [i \in DOMAIN g.deps[t] |-> f[g.deps[t][i]].val]
         = [i \in DOMAIN g.deps[t] |-> h[g.deps[t][i]].val]
  BY <1>1
<1>3. (\E d \in DepsOf(t) : ~f[d].ok) <=> (\E d \in DepsOf(t) : ~h[d].ok)
  OBVIOUS
<1>4. {f[d] : d \in DepsOf(t)} = {h[d] : d \in DepsOf(t)}
  OBVIOUS
<1> QED
  BY <1>2, <1>3, <1>4 DEF OwnStep, AncStep

\* The two functions are defined on the tasks below n.
Defined(n) ==
    /\ \E f : f = [t \in 0 .. n - 1 |-> OwnStep(f, t)]
    /\ \E f : f = [t \in 0 .. n - 1 |-> AncStep(f, t)]

\* One more task: its dependencies are below it.
LEMMA DefinedNext ==
    ASSUME g \in Graphs, NEW n \in Nat, n < g.n, Defined(n)
    PROVE  Defined(n + 1)
<1>1. /\ 0 .. (n + 1) - 1 = (0 .. n - 1) \cup {n}
      /\ \A t \in 0 .. n : /\ t \in Nat
                           /\ \A d \in DepsOf(t) : d \in 0 .. n - 1 /\ d # n
  <2>1. \A t \in 0 .. n : t \in TaskIds /\ t \in Nat
    BY GraphFacts DEF TaskIds, TaskIdsOf
  <2>2. \A t \in 0 .. n : \A d \in DepsOf(t) : d \in Nat /\ d < t
    BY <2>1, GraphFacts
  <2> QED
    BY <2>1, <2>2
<1>2. \E h : h = [t \in 0 .. (n + 1) - 1 |-> OwnStep(h, t)]
  <2>1. PICK f : f = [t \in 0 .. n - 1 |-> OwnStep(f, t)]
    BY DEF Defined
  <2>2. PICK h : h = [t \in (0 .. n - 1) \cup {n} |-> IF t = n THEN OwnStep(f, n) ELSE f[t]]
    OBVIOUS
  <2>3. \A t \in 0 .. n - 1 : h[t] = f[t] /\ t # n
    BY <2>2
  <2>4. ASSUME NEW t \in (0 .. n - 1) \cup {n} PROVE h[t] = OwnStep(h, t)
    <3>1. t \in 0 .. n
      BY <1>1, <2>4
    <3>2. \A d \in DepsOf(t) : f[d] = h[d]
      BY <1>1, <2>3, <3>1
    <3>3. OwnStep(f, t) = OwnStep(h, t)
      BY <3>2, StepsReadDeps
    <3>4. CASE t = n
      BY <2>2, <3>3, <3>4
    <3>5. CASE t # n
      <4>1. t \in 0 .. n - 1
        BY <3>5, <2>4
      <4>2. f[t] = OwnStep(f, t)
        BY <2>1, <4>1
      <4> QED
        BY <2>3, <4>1, <4>2, <3>3
    <3> QED
      BY <3>4, <3>5
  <2>5. h = [t \in (0 .. n - 1) \cup {n} |-> OwnStep(h, t)]
    BY <2>2, <2>4
  <2> QED
    BY <2>5, <1>1
<1>3. \E h : h = [t \in 0 .. (n + 1) - 1 |-> AncStep(h, t)]
  <2>1. PICK f : f = [t \in 0 .. n - 1 |-> AncStep(f, t)]
    BY DEF Defined
  <2>2. PICK h : h = [t \in (0 .. n - 1) \cup {n} |-> IF t = n THEN AncStep(f, n) ELSE f[t]]
    OBVIOUS
  <2>3. \A t \in 0 .. n - 1 : h[t] = f[t] /\ t # n
    BY <2>2
  <2>4. ASSUME NEW t \in (0 .. n - 1) \cup {n} PROVE h[t] = AncStep(h, t)
    <3>1. t \in 0 .. n
      BY <1>1, <2>4
    <3>2. \A d \in DepsOf(t) : f[d] = h[d]
      BY <1>1, <2>3, <3>1
    <3>3. AncStep(f, t) = AncStep(h, t)
      BY <3>2, StepsReadDeps
    <3>4. CASE t = n
      BY <2>2, <3>3, <3>4
    <3>5. CASE t # n
      <4>1. t \in 0 .. n - 1
        BY <3>5, <2>4
      <4>2. f[t] = AncStep(f, t)
        BY <2>1, <4>1
      <4> QED
        BY <2>3, <4>1, <4>2, <3>3
    <3> QED
      BY <3>4, <3>5
  <2>5. h = [t \in (0 .. n - 1) \cup {n} |-> AncStep(h, t)]
    BY <2>2, <2>4
  <2> QED
    BY <2>5, <1>1
<1> QED
  BY <1>2, <1>3 DEF Defined

\* The reference is well defined on every graph: the least number of tasks on
\* which it were not would have a predecessor on which it is.
LEMMA ReferenceDefined ==
    ASSUME g \in Graphs
    PROVE  /\ \A t \in TaskIds : OwnResult[t] = OwnStep(OwnResult, t)
           /\ \A t \in TaskIds : Ancestors[t] = AncStep(Ancestors, t)
<1> DEFINE T == {n \in Nat : n <= g.n /\ ~Defined(n)}
<1>1. g.n \in Nat
  BY GraphFacts
<1>2. Defined(g.n)
  <2> SUFFICES ASSUME ~Defined(g.n) PROVE FALSE
    OBVIOUS
  <2>1. T \in SUBSET Nat /\ T # {}
    BY <1>1
  <2>2. PICK m \in T : \A n \in T : m <= n
    <3> HIDE DEF T
    <3> QED
      BY <2>1, LeastNat
  <2>3. Defined(0)
    <3>1. 0 .. 0 - 1 = {}
      OBVIOUS
    <3>2. \E f : f = [t \in {} |-> OwnStep(f, t)]
      <4>1. PICK f : f = [t \in {} |-> 0]
        OBVIOUS
      <4>2. f = [t \in {} |-> OwnStep(f, t)]
        BY <4>1
      <4> QED
        BY <4>2
    <3>3. \E f : f = [t \in {} |-> AncStep(f, t)]
      <4>1. PICK f : f = [t \in {} |-> 0]
        OBVIOUS
      <4>2. f = [t \in {} |-> AncStep(f, t)]
        BY <4>1
      <4> QED
        BY <4>2
    <3> QED
      BY <3>1, <3>2, <3>3 DEF Defined
  <2>4. m \in Nat /\ m <= g.n /\ ~Defined(m) /\ m # 0
    BY <2>2, <2>3
  <2>5. m - 1 \in Nat /\ m - 1 < g.n /\ m - 1 \notin T /\ (m - 1) + 1 = m
    BY <1>1, <2>2, <2>4
  <2>6. Defined(m - 1)
    BY <1>1, <2>5
  <2> HIDE DEF T
  <2>7. Defined((m - 1) + 1)
    BY <2>5, <2>6, DefinedNext
  <2> QED
    BY <2>4, <2>5, <2>7
<1>3. OwnResult = [t \in TaskIds |-> OwnStep(OwnResult, t)]
  <2>1. \E f : f = [t \in TaskIds |-> OwnStep(f, t)]
    BY <1>2 DEF Defined, TaskIds, TaskIdsOf
  <2>2. OwnResult = CHOOSE f : f = [t \in TaskIds |-> OwnStep(f, t)]
    BY DEF OwnResult, OwnStep
  <2> QED
    BY <2>1, <2>2, Zenon
<1>4. Ancestors = [t \in TaskIds |-> AncStep(Ancestors, t)]
  <2>1. \E f : f = [t \in TaskIds |-> AncStep(f, t)]
    BY <1>2 DEF Defined, TaskIds, TaskIdsOf
  <2>2. Ancestors = CHOOSE f : f = [t \in TaskIds |-> AncStep(f, t)]
    BY DEF Ancestors, AncStep
  <2> QED
    BY <2>1, <2>2, Zenon
<1>5. ASSUME NEW t \in TaskIds PROVE OwnResult[t] = OwnStep(OwnResult, t)
  BY <1>3, Zenon
<1>6. ASSUME NEW t \in TaskIds PROVE Ancestors[t] = AncStep(Ancestors, t)
  BY <1>4, Zenon
<1> QED
  BY <1>5, <1>6

-----------------------------------------------------------------------------
(* What a failure reaches.                                                   *)

\* The bodies that fail above t.
Bad(t) == Ancestors[t] \cap FailedBodies
LowestBad(t) == CHOOSE b \in Bad(t) : \A c \in Bad(t) : b <= c

\* A failing body is above t as a dependency or above one.
LEMMA BadOfDeps ==
    ASSUME g \in Graphs, NEW t \in TaskIds
    PROVE  /\ \A d \in DepsOf(t) : Bad(d) \subseteq Bad(t)
           /\ \A d \in DepsOf(t) : d \in FailedBodies => d \in Bad(t)
           /\ \A b \in Bad(t) : \E d \in DepsOf(t) :
                 b \in Bad(d) \/ (b = d /\ d \in FailedBodies)
<1>1. Ancestors[t] = DepsOf(t) \cup UNION {Ancestors[d] : d \in DepsOf(t)}
  BY ReferenceDefined DEF AncStep
<1> QED
  BY <1>1 DEF Bad

\* The lowest failed ancestor is one of the failed ancestors.
LEMMA LowestIsBad ==
    ASSUME g \in Graphs, NEW t, Bad(t) # {}
    PROVE  LowestBad(t) \in Bad(t) /\ \A c \in Bad(t) : LowestBad(t) <= c
<1>1. Bad(t) \in SUBSET Nat
  BY GraphFacts DEF Bad, FailedBodies
<1>2. \E m \in Bad(t) : \A n \in Bad(t) : m <= n
  BY <1>1, LeastNat
<1> QED
  BY <1>2 DEF LowestBad

\* A task that succeeds in the reference has dependencies that do.
LEMMA OwnOk ==
    ASSUME g \in Graphs, NEW t \in TaskIds
    PROVE  /\ (\E d \in DepsOf(t) : ~OwnResult[d].ok) => ~OwnResult[t].ok
           /\ OwnResult[t].ok => t \notin FailedBodies
<1>1. OwnResult[t] = OwnStep(OwnResult, t)
  BY ReferenceDefined
<1>2. ASSUME \E d \in DepsOf(t) : ~OwnResult[d].ok PROVE ~OwnResult[t].ok
  <2>1. OwnResult[t] = Error("poisoned")
    BY <1>1, <1>2 DEF OwnStep
  <2> QED
    BY <2>1 DEF Error
<1> QED
  BY <1>2 DEF FailedBodies

\* A task runs in the reference exactly when no body above it fails.
LEMMA CleanIffDepsOk ==
    ASSUME g \in Graphs
    PROVE  \A t \in TaskIds : Bad(t) = {} <=> \A d \in DepsOf(t) : OwnResult[d].ok
<1> DEFINE Clean(t) == Bad(t) = {} <=> \A d \in DepsOf(t) : OwnResult[d].ok
           T == {t \in TaskIds : ~Clean(t)}
<1>1. /\ TaskIds \subseteq Nat
      /\ \A t \in TaskIds : \A d \in DepsOf(t) : d \in TaskIds /\ d < t
  BY GraphFacts
<1> SUFFICES ASSUME T # {} PROVE FALSE
  OBVIOUS
<1>2. PICK t \in T : \A u \in T : t <= u
  <2>1. T \in SUBSET Nat
    BY <1>1
  <2> HIDE DEF T
  <2> QED
    BY <2>1, LeastNat
<1>3. t \in TaskIds /\ ~Clean(t) /\ t \in Nat
  BY <1>1, <1>2
<1>4. \A d \in DepsOf(t) : d \in TaskIds /\ Clean(d)
  <2> HIDE DEF Clean
  <2>1. ASSUME NEW d \in DepsOf(t) PROVE d \in TaskIds /\ Clean(d)
    <3>1. d \in TaskIds /\ d < t /\ d \in Nat
      BY <1>1, <1>3
    <3>2. d \notin T
      BY <1>2, <1>3, <3>1
    <3> QED
      BY <3>1, <3>2
  <2> QED
    BY <2>1
<1>5. ASSUME \A d \in DepsOf(t) : OwnResult[d].ok PROVE Bad(t) = {}
  <2>1. ASSUME NEW d \in DepsOf(t) PROVE d \notin FailedBodies /\ Bad(d) = {}
    <3>1. d \in TaskIds /\ Clean(d) /\ OwnResult[d].ok
      BY <1>4, <1>5
    <3>2. /\ \A e \in DepsOf(d) : OwnResult[e].ok
          /\ d \notin FailedBodies
      BY <3>1, OwnOk
    <3> QED
      BY <3>1, <3>2
  <2>2. \A b \in Bad(t) : \E d \in DepsOf(t) : b \in Bad(d) \/ (b = d /\ d \in FailedBodies)
    BY <1>3, BadOfDeps
  <2> QED
    BY <2>1, <2>2
<1>6. ASSUME NEW d \in DepsOf(t), ~OwnResult[d].ok PROVE Bad(t) # {}
  <2>1. d \in TaskIds /\ Clean(d)
    BY <1>4
  <2>2. d \in FailedBodies => d \in Bad(t)
    BY <1>3, BadOfDeps
  <2>3. Bad(d) \subseteq Bad(t)
    BY <1>3, BadOfDeps
  <2>4. d \notin FailedBodies => Bad(d) # {}
    BY <1>6, <2>1 DEF FailedBodies
  <2> QED
    BY <2>2, <2>3, <2>4
<1> QED
  BY <1>3, <1>5, <1>6

-----------------------------------------------------------------------------
\* A Result is a value or an error, and never both (std::expected).
InvokeYieldsResults ==
    \A body, args : \/ \E v : Invoke(body, args) = [ok |-> TRUE, val |-> v]
                    \/ \E e : Invoke(body, args) = Error(e)

\* What a finished run returns for t is what the reference says.
Agrees(t) ==
    /\ outputs[t].ok <=> OwnResult[t].ok
    /\ Bad(t) = {} => outputs[t] = OwnResult[t] /\ (~outputs[t].ok => OriginOf(t, origins) = t)
    /\ Bad(t) # {} => /\ ~outputs[t].ok
                      /\ outputs[t] = OwnResult[LowestBad(t)]
                      /\ OriginOf(t, origins) = LowestBad(t)

\* A failed body's Result is an error, the one it returned.
LEMMA FailedBodyResult ==
    ASSUME g \in Graphs, InvokeYieldsResults, NEW b \in FailedBodies
    PROVE  /\ b \in TaskIds /\ ~OwnResult[b].ok /\ Bad(b) = {}
           /\ OwnResult[b] = Error(OwnResult[b].err)
<1>1. b \in TaskIds /\ ~OwnResult[b].ok /\ \A d \in DepsOf(b) : OwnResult[d].ok
  BY DEF FailedBodies
<1>2. OwnResult[b] = OwnStep(OwnResult, b)
  BY <1>1, ReferenceDefined
<1> DEFINE args == g.literals[b] \o [i \in DOMAIN g.deps[b] |-> OwnResult[g.deps[b][i]].val]
<1>3. OwnResult[b] = Invoke(g.body[b], args)
  BY <1>1, <1>2 DEF OwnStep
<1> HIDE DEF args
<1>4. PICK e : OwnResult[b] = Error(e)
  <2>1. \/ \E v : OwnResult[b] = [ok |-> TRUE, val |-> v]
        \/ \E e : OwnResult[b] = Error(e)
    BY <1>3 DEF InvokeYieldsResults
  <2>2. ASSUME NEW v, OwnResult[b] = [ok |-> TRUE, val |-> v] PROVE FALSE
    <3>1. OwnResult[b].ok
      BY <2>2
    <3> QED
      BY <1>1, <3>1
  <2> QED
    BY <2>1, <2>2
<1>5. OwnResult[b].err = e
  BY <1>4 DEF Error
<1> QED
  BY <1>1, <1>4, <1>5, CleanIffDepsOk

\* A task above which nothing fails runs its body on what the reference gives.
LEMMA CleanAgrees ==
    ASSUME IInv, NEW t \in TaskIds, t \in Settled, Bad(t) = {},
           \A d \in DepsOf(t) : Agrees(d)
    PROVE  Agrees(t) /\ FailedDeps(t, outputs) = {}
<1>1. g \in Graphs
  BY DEF IInv, TypeOK
<1>2. \A d \in DepsOf(t) : d \in TaskIds /\ OwnResult[d].ok /\ outputs[d].ok
                            /\ outputs[d] = OwnResult[d]
  <2>1. ASSUME NEW d \in DepsOf(t)
        PROVE  d \in TaskIds /\ OwnResult[d].ok /\ outputs[d].ok /\ outputs[d] = OwnResult[d]
    <3>1. d \in TaskIds /\ OwnResult[d].ok
      BY <1>1, CleanIffDepsOk, GraphFacts
    <3> QED
      BY <3>1 DEF Agrees
  <2> QED
    BY <2>1
<1>3. FailedDeps(t, outputs) = {}
  BY <1>2 DEF FailedDeps
<1>4. Args(t, outputs)
         = g.literals[t] \o [i \in DOMAIN g.deps[t] |-> OwnResult[g.deps[t][i]].val]
  <2>1. \A i \in DOMAIN g.deps[t] : outputs[g.deps[t][i]] = OwnResult[g.deps[t][i]]
    BY <1>2 DEF DepsOf
  <2>2. [i \in DOMAIN g.deps[t] |-> outputs[g.deps[t][i]].val]
           = [i \in DOMAIN g.deps[t] |-> OwnResult[g.deps[t][i]].val]
    BY <2>1
  <2> QED
    BY <2>2 DEF Args
<1> DEFINE res == Invoke(g.body[t], Args(t, outputs))
<1>5. OwnResult[t] = res
  <2>1. OwnResult[t] = OwnStep(OwnResult, t)
    BY <1>1, ReferenceDefined
  <2> QED
    BY <1>2, <1>4, <2>1 DEF OwnStep
<1>6. /\ run_or_poison(t, outputs, origins).output = res
      /\ run_or_poison(t, outputs, origins).origin = IF res.ok THEN None ELSE t
  BY <1>3 DEF run_or_poison
<1> HIDE DEF res
<1>7. outputs[t] = res /\ origins[t] = IF res.ok THEN None ELSE t
  BY <1>6 DEF IInv, OutcomesConsistent
<1> QED
  BY <1>3, <1>5, <1>7 DEF Agrees, OriginOf

\* A task above which something fails is blamed on the lowest body that does.
LEMMA PoisonedAgrees ==
    ASSUME IInv, phase = "done", InvokeYieldsResults, NEW t \in TaskIds, t \in Settled,
           Bad(t) # {}, \A u \in TaskIds : u < t => Agrees(u)
    PROVE  Agrees(t) /\ FailedDeps(t, outputs) # {}
<1>1. /\ g \in Graphs /\ TaskIds \subseteq Nat
      /\ \A d \in DepsOf(t) : d \in TaskIds /\ d < t /\ Agrees(d)
      /\ g.depth[t] <= lvl
  <2>1. g \in Graphs /\ lvl = g.numLevels
    BY DEF IInv, TypeOK, LoopOK
  <2>2. \A d \in DepsOf(t) : d \in TaskIds /\ d < t
    BY <2>1, GraphFacts
  <2> QED
    BY <2>1, <2>2, GraphFacts
<1>2. ASSUME NEW d \in FailedDeps(t, outputs)
      PROVE  /\ OriginOf(d, origins) \in Bad(t)
             /\ \A b \in Bad(d) : OriginOf(d, origins) <= b
             /\ d \in FailedBodies => OriginOf(d, origins) = d
  <2>1. d \in DepsOf(t) /\ ~outputs[d].ok /\ d \in TaskIds /\ Agrees(d) /\ ~OwnResult[d].ok
    BY <1>1 DEF FailedDeps, Agrees
  <2>2. Bad(d) \subseteq Bad(t) /\ (d \in FailedBodies => d \in Bad(t))
    BY <1>1, <2>1, BadOfDeps
  <2>3. Bad(d) = {} => d \in FailedBodies
    BY <1>1, <2>1, CleanIffDepsOk DEF FailedBodies
  <2>4. d \in FailedBodies => Bad(d) = {}
    BY <1>1, FailedBodyResult
  <2>5. CASE Bad(d) = {}
    BY <2>1, <2>2, <2>3, <2>5 DEF Agrees
  <2>6. CASE Bad(d) # {}
    <3>1. OriginOf(d, origins) = LowestBad(d)
      BY <2>1, <2>6 DEF Agrees
    <3>2. LowestBad(d) \in Bad(d) /\ \A c \in Bad(d) : LowestBad(d) <= c
      BY <1>1, <2>6, LowestIsBad
    <3> QED
      BY <2>2, <2>4, <2>6, <3>1, <3>2
  <2> QED
    BY <2>5, <2>6
<1>3. ASSUME NEW b \in Bad(t)
      PROVE  \E d \in FailedDeps(t, outputs) : OriginOf(d, origins) <= b
  <2>1. PICK d \in DepsOf(t) : b \in Bad(d) \/ (b = d /\ d \in FailedBodies)
    BY <1>1, BadOfDeps
  <2>2. ~outputs[d].ok
    BY <1>1, <2>1 DEF Agrees, FailedBodies
  <2>3. d \in FailedDeps(t, outputs)
    BY <2>1, <2>2 DEF FailedDeps
  <2>4. d \in Nat /\ d <= d
    <3>1. d \in TaskIds
      BY <1>1
    <3>2. d \in Nat
      BY <1>1, <3>1
    <3> QED
      BY <3>2
  <2>5. CASE b \in Bad(d)
    BY <1>2, <2>3, <2>5
  <2>6. CASE b = d /\ d \in FailedBodies
    <3>1. OriginOf(d, origins) = d
      BY <1>2, <2>3, <2>6
    <3> QED
      BY <2>3, <2>4, <2>6, <3>1
  <2> QED
    BY <2>1, <2>5, <2>6
<1> DEFINE b == LowestBad(t)
           best == Best(t, outputs, origins)
<1>4. b \in Bad(t) /\ \A c \in Bad(t) : b <= c
  BY <1>1, LowestIsBad
<1>5. FailedDeps(t, outputs) # {}
  BY <1>3
<1>6. /\ Blamed(t, outputs, origins) \subseteq Nat
      /\ \A o \in Blamed(t, outputs, origins) : o \in TaskIds /\ o < t
  BY <1>1, ReadsDone
<1>7. best \in Blamed(t, outputs, origins)
      /\ \A o \in Blamed(t, outputs, origins) : best <= o
  <2>1. Blamed(t, outputs, origins) # {} /\ Blamed(t, outputs, origins) \in SUBSET Nat
    BY <1>5, <1>6 DEF Blamed
  <2>2. \E m \in Blamed(t, outputs, origins) : \A o \in Blamed(t, outputs, origins) : m <= o
    BY <2>1, LeastNat
  <2> QED
    BY <2>2 DEF Best
<1> HIDE DEF b, best
<1>8. best = b
  <2>1. best \in Bad(t) /\ best \in Nat
    BY <1>2, <1>6, <1>7 DEF Blamed
  <2>2. PICK d \in FailedDeps(t, outputs) : OriginOf(d, origins) <= b
    BY <1>3, <1>4
  <2>3. OriginOf(d, origins) \in Blamed(t, outputs, origins)
    BY DEF Blamed
  <2>4. best <= OriginOf(d, origins) /\ OriginOf(d, origins) \in Nat
    BY <1>6, <1>7, <2>3
  <2>5. b \in Nat /\ b <= best
    BY <1>1, <1>4, <2>1 DEF Bad, FailedBodies
  <2> QED
    BY <2>1, <2>2, <2>4, <2>5
<1>9. /\ b \in TaskIds /\ b < t /\ b \in FailedBodies /\ b # None /\ t # None
  BY <1>1, <1>4, <1>6, <1>7, <1>8 DEF Bad, None
<1>10. outputs[b] = OwnResult[b] /\ ~OwnResult[b].ok /\ OwnResult[b] = Error(OwnResult[b].err)
  BY <1>1, <1>9, FailedBodyResult DEF Agrees
<1>11. /\ run_or_poison(t, outputs, origins).output = Error(outputs[best].err)
       /\ run_or_poison(t, outputs, origins).origin = best
  BY <1>5 DEF run_or_poison, Best, best
<1>12. outputs[t] = OwnResult[b] /\ origins[t] = b
  BY <1>8, <1>10, <1>11 DEF IInv, OutcomesConsistent
<1>13. ~OwnResult[t].ok
  <2>1. \E d \in DepsOf(t) : ~OwnResult[d].ok
    BY <1>1, CleanIffDepsOk
  <2> QED
    BY <1>1, <2>1, OwnOk
<1> QED
  BY <1>5, <1>9, <1>10, <1>12, <1>13 DEF Agrees, OriginOf, b

\* A finished run agrees with the reference at every task: the lowest at which
\* it did not would have dependencies at which it does.
LEMMA FinishedAgrees ==
    ASSUME IInv, phase = "done", InvokeYieldsResults
    PROVE  \A t \in TaskIds : Agrees(t) /\ (Bad(t) = {} <=> FailedDeps(t, outputs) = {})
<1>1. /\ g \in Graphs /\ TaskIds \subseteq Nat /\ TaskIds \subseteq Settled
      /\ \A t \in TaskIds : \A d \in DepsOf(t) : d \in TaskIds /\ d < t
  <2>1. g \in Graphs /\ lvl = g.numLevels
    BY DEF IInv, TypeOK, LoopOK
  <2> QED
    BY <2>1, GraphFacts DEF Settled
<1> DEFINE Good(t) == Agrees(t) /\ (Bad(t) = {} <=> FailedDeps(t, outputs) = {})
           T == {t \in TaskIds : ~Good(t)}
<1> SUFFICES ASSUME T # {} PROVE FALSE
  OBVIOUS
<1>2. PICK t \in T : \A u \in T : t <= u
  <2>1. T \in SUBSET Nat
    BY <1>1
  <2> HIDE DEF T
  <2> QED
    BY <2>1, LeastNat
<1>3. t \in TaskIds /\ ~Good(t) /\ t \in Nat /\ t \in Settled
  BY <1>1, <1>2
<1>4. \A u \in TaskIds : u < t => Agrees(u)
  BY <1>1, <1>2, <1>3
<1>5. \A d \in DepsOf(t) : Agrees(d)
  BY <1>1, <1>3, <1>4
<1> QED
  BY <1>3, <1>4, <1>5, CleanAgrees, PoisonedAgrees

-----------------------------------------------------------------------------
(* executed counts the tasks that ran.                                       *)

\* The settled tasks that no failed dependency poisoned.
Ran == {t \in Settled : FailedDeps(t, outputs) = {}}
CountExact == executed = Cardinality(Ran)

\* Writing a task's outcome counts it if it ran, and leaves the others as they
\* were: what they read is settled.
LEMMA StoreCounts ==
    ASSUME IInv, CountExact, NEW t \in Level(lvl) \ written,
           Store(t, run_or_poison(t, outputs, origins)),
           written' = written \cup {t}, UNCHANGED <<g, lvl>>
    PROVE  CountExact'
<1>1. /\ g \in Graphs /\ lvl \in Nat /\ written \subseteq Level(lvl)
      /\ \A u \in TaskIds : g.depth[u] \in Nat
      /\ IsFiniteSet(TaskIds)
  <2>1. g \in Graphs /\ lvl \in 0 .. g.numLevels /\ written \subseteq Level(lvl)
    BY DEF IInv, TypeOK
  <2>2. IsFiniteSet(TaskIds)
    <3>1. g.n - 1 \in Int
      BY <2>1, GraphFacts
    <3> QED
      BY <3>1, FS_Interval DEF TaskIds, TaskIdsOf
  <2> QED
    BY <2>1, <2>2, GraphFacts
<1>2. /\ t \in TaskIds /\ g.depth[t] = lvl /\ t \notin Settled
      /\ Settled \subseteq TaskIds /\ Done \subseteq Settled
      /\ Settled' = Settled \cup {t} /\ \A u \in Settled : g.depth[u] <= lvl
  BY <1>1 DEF Level, Done, Settled, TaskIds
<1>3. \A u \in TaskIds \ {t} : outputs'[u] = outputs[u]
  BY DEF IInv, TypeOK, Store
<1>4. ASSUME NEW u \in Settled \cup {t}
      PROVE  FailedDeps(u, outputs') = FailedDeps(u, outputs)
  <2>1. u \in TaskIds /\ g.depth[u] <= lvl
    BY <1>1, <1>2
  <2>2. DepsOf(u) \subseteq Done
    BY <2>1, ReadsDone
  <2>3. \A d \in DepsOf(u) : outputs'[d] = outputs[d]
    BY <1>2, <1>3, <2>2
  <2> QED
    BY <2>3 DEF FailedDeps
<1>5. \A u : FailedDeps(u, outputs)' = FailedDeps(u, outputs')
  BY DEF FailedDeps, DepsOf
<1>6. Ran' = IF FailedDeps(t, outputs) = {} THEN Ran \cup {t} ELSE Ran
  BY <1>2, <1>4, <1>5 DEF Ran
<1>7. IsFiniteSet(Ran) /\ t \notin Ran /\ Cardinality(Ran) \in Nat
  <2>1. Ran \subseteq TaskIds /\ t \notin Ran
    BY <1>2 DEF Ran
  <2>2. IsFiniteSet(Ran)
    BY <1>1, <2>1, FS_Subset
  <2> QED
    BY <2>1, <2>2, FS_CardinalityType
<1>8. executed' = IF FailedDeps(t, outputs) = {} THEN executed + 1 ELSE executed
  <2> DEFINE o == run_or_poison(t, outputs, origins)
  <2>1. o.executed <=> FailedDeps(t, outputs) = {}
    BY DEF run_or_poison
  <2>2. executed' = executed + (IF o.executed THEN 1 ELSE 0) /\ executed \in Nat
    <3>1. executed \in 0 .. g.n /\ g.n \in Nat
      BY <1>1, GraphFacts DEF IInv, TypeOK
    <3> QED
      BY <3>1 DEF Store
  <2> HIDE DEF o
  <2> QED
    BY <2>1, <2>2
<1>9. Cardinality(Ran \cup {t}) = Cardinality(Ran) + 1
  BY <1>7, FS_AddElement
<1> QED
  BY <1>6, <1>7, <1>8, <1>9 DEF CountExact

\* A step that writes no outcome keeps the count exact.
LEMMA QuietCounts ==
    ASSUME IInv, CountExact, UNCHANGED <<g, outputs, origins, executed>>,
           UNCHANGED <<lvl, written>> \/ (written = Level(lvl) /\ lvl' = lvl + 1
                                          /\ written' = {})
    PROVE  CountExact'
<1>1. Settled' = Settled
  BY WritesNothing
<1>2. Ran' = Ran
  BY <1>1 DEF Ran, FailedDeps, DepsOf
<1> QED
  BY <1>2 DEF CountExact

\* So does every step.
LEMMA NextCounts == IInv /\ CountExact /\ [Next]_vars => CountExact'
<1> SUFFICES ASSUME IInv, CountExact, [Next]_vars PROVE CountExact'
  OBVIOUS
<1>1. ASSUME NEW t \in TaskIds, RunSerial(t) PROVE CountExact'
  BY <1>1, StoreCounts DEF RunSerial, First
<1>2. ASSUME NEW t \in TaskIds, WriteBack(t) PROVE CountExact'
  <2>1. t \in Level(lvl) \ written /\ phase = "write"
    BY <1>2 DEF WriteBack, First
  <2>2. slots[t] = run_or_poison(t, outputs, origins)
    BY <2>1 DEF IInv, LoopOK, NothingStale
  <2> QED
    BY <1>2, <2>1, <2>2, StoreCounts DEF WriteBack
<1>3. ASSUME NEW t \in TaskIds, BeginTask(t) \/ FillSlot(t) PROVE CountExact'
  <2>1. UNCHANGED <<g, executed, outputs, origins, lvl, written>>
    BY <1>3 DEF BeginTask, FillSlot
  <2> QED
    BY <2>1, QuietCounts
<1>4. CASE Join
  <2>1. UNCHANGED <<g, executed, outputs, origins, lvl, written>>
    BY <1>4 DEF Join
  <2> QED
    BY <2>1, QuietCounts
<1>5. CASE NextLevel
  <2>1. /\ UNCHANGED <<g, outputs, origins, executed>>
        /\ written = Level(lvl) /\ lvl' = lvl + 1 /\ written' = {}
    BY <1>5 DEF NextLevel
  <2> QED
    BY <2>1, QuietCounts
<1>6. CASE UNCHANGED vars
  <2>1. UNCHANGED <<g, executed, outputs, origins, lvl, written>>
    BY <1>6 DEF vars
  <2> QED
    BY <2>1, QuietCounts
<1> QED
  BY <1>1, <1>2, <1>3, <1>4, <1>5, <1>6 DEF Next, Step, Terminated

\* Whichever executor ran a graph, and however its threads interleaved, the
\* returned outputs are those of the schedule-free reference, and executed
\* counts exactly the tasks above which no body failed.
THEOREM MatchesReferenceAlways ==
    ASSUME InvokeYieldsResults
    PROVE  Spec => []MatchesReference
<1>1. Init => CountExact
  <2> SUFFICES ASSUME Init PROVE CountExact
    OBVIOUS
  <2>1. g \in Graphs /\ lvl = 0 /\ written = {} /\ executed = 0
    BY DEF Init
  <2>2. Settled = {}
    BY <2>1, GraphFacts DEF Settled
  <2>3. Ran = {}
    BY <2>2 DEF Ran
  <2> QED
    BY <2>1, <2>3, FS_EmptySet DEF CountExact
<1>2. IInv /\ CountExact => MatchesReference
  <2> SUFFICES ASSUME IInv, CountExact, phase = "done"
               PROVE  /\ \A t \in TaskIds : outputs[t] = Expected(t)
                      /\ executed = Cardinality({t \in TaskIds : Bad(t) = {}})
    BY DEF MatchesReference, Bad
  <2>1. \A t \in TaskIds : Agrees(t) /\ (Bad(t) = {} <=> FailedDeps(t, outputs) = {})
    BY FinishedAgrees
  <2>2. ASSUME NEW t \in TaskIds PROVE outputs[t] = Expected(t)
    <3>1. Expected(t) = IF Bad(t) = {} THEN OwnResult[t] ELSE OwnResult[LowestBad(t)]
      BY DEF Expected, Bad, LowestBad
    <3> QED
      BY <2>1, <3>1 DEF Agrees
  <2>3. Settled = TaskIds
    <3>1. g \in Graphs /\ lvl = g.numLevels /\ written = {}
      BY DEF IInv, TypeOK, LoopOK
    <3> QED
      BY <3>1, GraphFacts DEF Settled
  <2>4. Ran = {t \in TaskIds : Bad(t) = {}}
    BY <2>1, <2>3 DEF Ran
  <2> QED
    BY <2>2, <2>4 DEF CountExact
<1> QED
  BY <1>1, <1>2, NextCounts, InitIInv, NextKeepsIInv, PTL DEF Spec

-----------------------------------------------------------------------------
(* The graphs, which TaskGraph builds, with a state of its own.             *)

\* A chain of dependencies ending in task t cannot be longer than t.  This is
\* what bounds the maximum that add_task computes.
DepthBound == \A t \in Issued : tasks[t].depth <= t

GraphInv == /\ GraphTypeOK
            /\ DepthBound
            /\ DepsPrecede
            /\ WavefrontIsTight
            /\ LevelsPartition
            /\ NamedBodyAgrees

\* The running maximum of add_task: at least every parent's depth plus one,
\* and zero or equal to one of them.
LEMMA NewDepthProperty ==
    ASSUME GraphTypeOK, DepthBound, NEW deps \in Seq(Nat), Known(deps)
    PROVE  /\ NewDepth(deps) \in 0 .. numTasks
           /\ \A i \in DOMAIN deps : tasks[deps[i]].depth + 1 <= NewDepth(deps)
           /\ \/ NewDepth(deps) = 0
              \/ \E i \in DOMAIN deps : tasks[deps[i]].depth + 1 = NewDepth(deps)
<1> DEFINE D(i) == tasks[deps[i]].depth + 1
           U == {m \in Nat : \A i \in DOMAIN deps : D(i) <= m}
           Is(m) == /\ \A i \in DOMAIN deps : D(i) <= m
                    /\ m = 0 \/ \E i \in DOMAIN deps : D(i) = m
<1>1. \A i \in DOMAIN deps : deps[i] \in Issued
  BY DEF Known, GraphTypeOK, Issued
<1>2. numTasks \in Nat /\ \A i \in DOMAIN deps : D(i) \in Nat /\ D(i) <= numTasks
  BY <1>1 DEF GraphTypeOK, DepthBound, Task, Issued
<1>3. numTasks \in U
  BY <1>2
<1>4. PICK m \in U : \A n \in U : m <= n
  <2>1. U \in SUBSET Nat /\ U # {}
    BY <1>3
  <2> HIDE DEF U
  <2> QED
    BY <2>1, LeastNat
<1>5. m \in 0 .. numTasks
  BY <1>3, <1>4, <1>2
<1>6. m = 0 \/ \E i \in DOMAIN deps : D(i) = m
  <2>1. SUFFICES ASSUME m # 0, \A i \in DOMAIN deps : D(i) # m
                 PROVE  FALSE
    OBVIOUS
  <2>2. m - 1 \in U
    BY <2>1, <1>2, <1>4
  <2> QED
    BY <2>2, <1>4
<1>7. Is(m)
  BY <1>6, <1>4
<1>8. NewDepth(deps) = CHOOSE k \in 0 .. numTasks : Is(k)
  BY DEF NewDepth
<1>9. NewDepth(deps) \in 0 .. numTasks /\ Is(NewDepth(deps))
  <2> HIDE DEF Is
  <2> QED
    BY <1>5, <1>7, <1>8
<1> QED
  BY <1>9

\* What an accepted call leaves behind, in terms of the state it found: the
\* new task of depth d, the untouched old ones, and the one level that grew.
Appended(d, new) ==
    /\ d \in 0 .. numTasks /\ d <= numLevels
    /\ numTasks' = numTasks + 1
    /\ Issued' = Issued \cup {numTasks}
    /\ new \in Task
    /\ tasks' \in [0 .. numTasks -> Task]
    /\ tasks'[numTasks] = new
    /\ \A t \in Issued : tasks'[t] = tasks[t]
    /\ numLevels' = (IF d = numLevels THEN d + 1 ELSE numLevels)
    /\ levels' \in [0 .. numLevels' - 1 -> Seq(Issued')]
    /\ \A l \in 0 .. numLevels - 1 : l # d => levels'[l] = levels[l]
    /\ d < numLevels => levels'[d] = Append(levels[d], numTasks)
    /\ d = numLevels => levels'[d] = <<numTasks>>

NewTask(fn, op, lits, deps) ==
    [fn |-> fn, deps |-> deps, depth |-> NewDepth(deps),
     op_id |-> op, literals |-> lits]

\* What one append does: the new task has the next id, an exact depth, a place
\* on the level of that depth, and everything else stays where it was.
LEMMA AppendTaskEffect ==
    ASSUME GraphInv, NEW fn \in TaskFns, NEW op \in CallerOpIds \cup {PlainOp},
           NEW lits \in Literals \cup {<<>>}, NEW deps \in Seq(Nat), Known(deps),
           AppendTask(fn, op, lits, deps)
    PROVE  Appended(NewDepth(deps), NewTask(fn, op, lits, deps))
<1> DEFINE n == numTasks
           d == NewDepth(deps)
           new == [fn |-> fn, deps |-> deps, depth |-> d,
                   op_id |-> op, literals |-> lits]
<1>1. n \in Nat /\ numLevels \in Nat /\ numTasks' = n + 1
  BY DEF GraphInv, GraphTypeOK, AppendTask
<1>2. /\ d \in 0 .. n
      /\ d = 0 \/ \E i \in DOMAIN deps : tasks[deps[i]].depth + 1 = d
  BY NewDepthProperty DEF GraphInv
<1>3. d <= numLevels
  <2>1. CASE d = 0
    BY <2>1, <1>1
  <2>2. ASSUME NEW i \in DOMAIN deps, tasks[deps[i]].depth + 1 = d
        PROVE  d <= numLevels
    <3>1. deps[i] \in Issued
      BY DEF Known, Issued, GraphInv, GraphTypeOK
    <3>2. tasks[deps[i]].depth \in Nat
      BY <3>1 DEF GraphInv, GraphTypeOK, Task
    <3>3. tasks[deps[i]].depth < numLevels
      BY <3>1 DEF GraphInv, LevelsPartition
    <3> QED
      BY <3>2, <3>3, <2>2, <1>1
  <2> QED
    BY <2>1, <2>2, <1>2
<1>4. new \in Task
  BY <1>2, <1>1 DEF Task
<1>5. /\ tasks' \in [0 .. n -> Task]
      /\ tasks'[n] = new
      /\ \A t \in Issued : tasks'[t] = tasks[t]
  BY <1>1, <1>4 DEF GraphInv, GraphTypeOK, AppendTask, Issued
<1> DEFINE size == IF d >= numLevels THEN d + 1 ELSE numLevels
           old(l) == IF l < numLevels THEN levels[l] ELSE <<>>
<1>6. /\ numLevels' = size
      /\ levels' = [l \in 0 .. size - 1 |->
                       IF l = d THEN Append(old(l), n) ELSE old(l)]
  BY DEF AppendTask, PushLevel
<1>7. /\ numLevels' = (IF d = numLevels THEN d + 1 ELSE numLevels)
      /\ numLevels' \in Nat
  BY <1>6, <1>1, <1>2, <1>3
<1>8. \A l \in 0 .. size - 1 : old(l) \in Seq(0 .. n)
  <2>1. SUFFICES ASSUME NEW l \in 0 .. size - 1 PROVE old(l) \in Seq(0 .. n)
    OBVIOUS
  <2>2. CASE l < numLevels
    <3>1. levels[l] \in Seq(Issued)
      BY <2>2, <2>1, <1>6, <1>7, <1>1 DEF GraphInv, GraphTypeOK
    <3>2. Issued \subseteq 0 .. n
      BY <1>1 DEF Issued
    <3> QED
      BY <3>1, <3>2, <2>2, SeqMonotonic
  <2>3. CASE ~(l < numLevels)
    BY <2>3, EmptySeq
  <2> QED
    BY <2>2, <2>3
<1>9. \A l \in 0 .. size - 1 : Append(old(l), n) \in Seq(0 .. n)
  BY <1>8, <1>1, AppendProperties
<1>10. levels' \in [0 .. numLevels' - 1 -> Seq(0 .. n)]
  BY <1>6, <1>8, <1>9
<1>11. /\ \A l \in 0 .. numLevels - 1 : l # d => levels'[l] = levels[l]
       /\ d < numLevels => levels'[d] = Append(levels[d], n)
  BY <1>6, <1>1, <1>2, <1>3, SMTT(20)
<1>12. d = numLevels => levels'[d] = <<n>>
  <2>1. Append(<<>>, n) = <<n>>
    BY AppendProperties
  <2>2. ASSUME d = numLevels PROVE d \in 0 .. size - 1 /\ old(d) = <<>>
    BY <2>2, <1>6, <1>1, <1>2
  <2>3. ASSUME d = numLevels PROVE levels'[d] = Append(old(d), n)
    BY <2>2, <2>3, <1>6
  <2> QED
    BY <2>1, <2>2, <2>3
<1>13. Issued' = Issued \cup {n} /\ Issued' = 0 .. n
  <2>1. Issued' = 0 .. n
    BY <1>1, numTasks' - 1 = n DEF Issued
  <2> QED
    BY <2>1, <1>1 DEF Issued
<1>14. Appended(d, new)
  <2> HIDE DEF d, new
  <2> QED
    BY <1>1, <1>2, <1>3, <1>4, <1>5, <1>7, <1>10, <1>11, <1>12, <1>13
    DEF Appended
<1> QED
  BY <1>14 DEF NewTask

\* An accepted add_task or add_named_task keeps the invariant.
LEMMA AppendTaskKeepsGraph ==
    ASSUME GraphInv, NEW fn \in TaskFns, NEW op \in CallerOpIds \cup {PlainOp},
           NEW lits \in Literals \cup {<<>>}, NEW deps \in Seq(Nat), Known(deps),
           op = PlainOp \/ (op \in DOMAIN ops /\ fn = ops[op]),
           numTasks < MaxTasks, UNCHANGED ops,
           AppendTask(fn, op, lits, deps)
    PROVE  GraphInv'
<1> DEFINE n == numTasks
<1>a. Appended(NewDepth(deps), NewTask(fn, op, lits, deps))
  BY AppendTaskEffect
<1>1. PICK d, new :
         /\ d = NewDepth(deps)
         /\ new = [fn |-> fn, deps |-> deps, depth |-> d,
                   op_id |-> op, literals |-> lits]
         /\ Appended(d, new)
  BY <1>a DEF NewTask
<1>2. /\ n \in Nat /\ numLevels \in Nat /\ MaxTasks \in Nat /\ d \in Nat
      /\ Issued' = Issued \cup {n} /\ Issued = 0 .. n - 1
      /\ n \notin Issued
  BY <1>1, DepListAssumption DEF GraphInv, GraphTypeOK, Appended, Issued
<1>3. /\ tasks'[n] = new /\ new \in Task
      /\ new.depth = d /\ new.deps = deps /\ new.op_id = op /\ new.fn = fn
      /\ \A t \in Issued : tasks'[t] = tasks[t]
  BY <1>1 DEF Appended
<1>4. \A i \in DOMAIN deps : /\ deps[i] \in Issued
                             /\ tasks[deps[i]].depth \in Nat
                             /\ tasks[deps[i]].depth + 1 <= d
  <2>1. \A i \in DOMAIN deps : deps[i] \in Issued
    BY DEF Known, Issued, GraphInv, GraphTypeOK
  <2>2. \A i \in DOMAIN deps : tasks[deps[i]].depth + 1 <= d
    BY <1>1, NewDepthProperty DEF GraphInv
  <2> QED
    BY <2>1, <2>2 DEF GraphInv, GraphTypeOK, Task
<1>4a. /\ numLevels' = (IF d = numLevels THEN d + 1 ELSE numLevels)
       /\ levels' \in [0 .. numLevels' - 1 -> Seq(Issued')]
       /\ \A l \in 0 .. numLevels - 1 : l # d => levels'[l] = levels[l]
       /\ d < numLevels => levels'[d] = Append(levels[d], n)
       /\ d = numLevels => levels'[d] = <<n>>
       /\ d <= numLevels /\ d <= n
  <2> HIDE DEF n
  <2>1. Appended(d, new)
    BY <1>1
  <2> QED
    BY <2>1 DEF Appended, n
<1>5. GraphTypeOK'
  <2>1. ret' \in [ok : BOOLEAN, id : Int]
    BY <1>2 DEF AppendTask, Ok
  <2>2. numTasks' \in 0 .. MaxTasks /\ numLevels' \in Nat
    BY <1>1, <1>2, <1>4a DEF Appended
  <2>3. tasks' \in [Issued' -> Task]
    BY <1>1, <1>2 DEF Appended
  <2> QED
    BY <2>1, <2>2, <2>3, <1>4a DEF GraphTypeOK, GraphInv
<1>6. DepthBound'
  BY <1>2, <1>3, <1>4a DEF GraphInv, DepthBound
<1>7. DepsPrecede'
  <2>1. SUFFICES ASSUME NEW t \in Issued', NEW e \in DepsOfTask(t)'
                 PROVE  /\ e \in 0 .. t - 1
                        /\ tasks'[e].depth < tasks'[t].depth
    BY DEF DepsPrecede
  <2>2. CASE t \in Issued
    <3>1. e \in DepsOfTask(t)
      BY <2>1, <2>2, <1>3 DEF DepsOfTask
    <3>2. e \in 0 .. t - 1 /\ tasks[e].depth < tasks[t].depth
      BY <3>1, <2>2 DEF GraphInv, DepsPrecede
    <3>3. e \in Issued
      BY <3>2, <2>2, <1>2
    <3> QED
      BY <3>2, <3>3, <2>2, <1>3, <1>4a
  <2>3. CASE t = n
    <3>1. PICK i \in DOMAIN deps : e = deps[i]
      BY <2>1, <2>3, <1>3 DEF DepsOfTask
    <3>2. e \in Issued /\ tasks[e].depth \in Nat /\ tasks[e].depth + 1 <= d
      BY <3>1, <1>4
    <3>3. tasks'[t].depth = d /\ tasks'[e].depth = tasks[e].depth
      BY <2>3, <3>2, <1>3
    <3> QED
      BY <3>2, <3>3, <2>3, <1>3, <1>4a, <1>2, SMTT(20)
  <2> QED
    BY <2>2, <2>3, <1>2
<1>8. WavefrontIsTight'
  <2>1. SUFFICES ASSUME NEW t \in Issued', tasks'[t].depth > 0
                 PROVE  \E e \in DepsOfTask(t)' :
                            tasks'[e].depth = tasks'[t].depth - 1
    BY DEF WavefrontIsTight
  <2>2. CASE t \in Issued
    <3>1. PICK e \in DepsOfTask(t) : tasks[e].depth = tasks[t].depth - 1
      BY <2>1, <2>2, <1>3 DEF GraphInv, WavefrontIsTight
    <3>2. e \in Issued
      BY <3>1, <2>2, <1>2 DEF GraphInv, DepsPrecede
    <3>3. e \in DepsOfTask(t)'
      BY <3>1, <2>2, <1>3 DEF DepsOfTask
    <3> QED
      BY <3>1, <3>2, <3>3, <2>2, <1>3, <1>4a
  <2>3. CASE t = n
    <3>1. d > 0
      BY <2>1, <2>3, <1>3, <1>4a
    <3>2. PICK i \in DOMAIN deps : tasks[deps[i]].depth + 1 = d
      BY <3>1, <1>1, <1>2, NewDepthProperty DEF GraphInv
    <3>3. deps[i] \in DepsOfTask(t)'
      BY <2>3, <1>3 DEF DepsOfTask
    <3>4. tasks'[deps[i]].depth = tasks'[t].depth - 1
      BY <3>2, <2>3, <1>2, <1>3, <1>4, SMTT(20)
    <3> QED
      BY <3>3, <3>4
  <2> QED
    BY <2>2, <2>3, <1>2
<1>9. LevelsPartition'
  <2>1. ASSUME NEW l \in 0 .. numLevels' - 1
        PROVE  /\ Len(levels'[l]) > 0
               /\ \A i \in 1 .. Len(levels'[l]) : tasks'[levels'[l][i]].depth = l
               /\ \A i, j \in 1 .. Len(levels'[l]) :
                     i < j => levels'[l][i] < levels'[l][j]
    <3>1. CASE l # d
      <4>a. numLevels' = numLevels \/ (numLevels' = numLevels + 1 /\ d = numLevels)
        BY <1>4a
      <4>b. l \in 0 .. numLevels - 1
        BY <4>a, <3>1, <1>2
      <4>1. l \in 0 .. numLevels - 1 /\ levels'[l] = levels[l]
        BY <4>b, <3>1, <1>4a
      <4>2. \A i \in 1 .. Len(levels[l]) : levels[l][i] \in Issued
        BY <4>1, ElementOfSeq DEF GraphInv, GraphTypeOK
      <4> QED
        BY <4>1, <4>2, <1>3 DEF GraphInv, LevelsPartition, GraphTypeOK
    <3>2. CASE l = d /\ d < numLevels
      <4> DEFINE s == levels[d]
      <4>1. s \in Seq(Issued) /\ levels'[l] = Append(s, n)
        BY <3>2, <1>3, <1>4a, <1>3 DEF GraphInv, GraphTypeOK
      <4>2. /\ Len(Append(s, n)) = Len(s) + 1 /\ Len(s) \in Nat
            /\ Append(s, n)[Len(s) + 1] = n
            /\ \A i \in 1 .. Len(s) : /\ Append(s, n)[i] = s[i]
                                      /\ s[i] \in Issued
        BY <4>1, <1>3, <1>4a
      <4>3. /\ \A i \in 1 .. Len(s) : tasks[s[i]].depth = d
            /\ \A i, j \in 1 .. Len(s) : i < j => s[i] < s[j]
        BY <3>2, <1>3, <1>4a, <1>3 DEF GraphInv, LevelsPartition
      <4>4. \A i \in 1 .. Len(s) : s[i] < n
        BY <4>2, <1>2, <1>3, <1>4a
      <4> HIDE DEF s
      <4>5. \A i \in 1 .. Len(Append(s, n)) : i \in 1 .. Len(s) \/ i = Len(s) + 1
        BY <4>2
      <4>6. \A i \in 1 .. Len(Append(s, n)) : tasks'[Append(s, n)[i]].depth = d
        <5>1. ASSUME NEW i \in 1 .. Len(s)
              PROVE  tasks'[Append(s, n)[i]].depth = d
          BY <4>2, <4>3, <1>3
        <5>2. tasks'[Append(s, n)[Len(s) + 1]].depth = d
          BY <4>2, <1>3
        <5> QED
          BY <5>1, <5>2, <4>5
      <4>7. \A i, j \in 1 .. Len(Append(s, n)) :
               i < j => Append(s, n)[i] < Append(s, n)[j]
        BY <4>2, <4>3, <4>4, <4>5
      <4> QED
        BY <4>1, <4>2, <4>6, <4>7, <3>2
    <3>3. CASE l = d /\ d = numLevels
      <4>1. levels'[l] = <<n>>
        BY <3>3, <1>3, <1>4a
      <4> QED
        BY <4>1, <3>3, <1>3, <1>4a
    <3> QED
      BY <3>1, <3>2, <3>3, <1>3, <1>4a, <1>2
  <2>2. ASSUME NEW t \in Issued'
        PROVE  /\ tasks'[t].depth < numLevels'
               /\ \E i \in 1 .. Len(levels'[tasks'[t].depth]) :
                     levels'[tasks'[t].depth][i] = t
    <3>1. CASE t \in Issued
      <4> DEFINE l == tasks[t].depth
      <4>1. tasks'[t].depth = l /\ l \in Nat /\ l < numLevels
        BY <3>1, <1>3 DEF GraphInv, GraphTypeOK, Task, LevelsPartition
      <4>2. PICK i \in 1 .. Len(levels[l]) : levels[l][i] = t
        BY <3>1 DEF GraphInv, LevelsPartition
      <4>3. levels[l] \in Seq(Issued)
        BY <4>1, <1>2 DEF GraphInv, GraphTypeOK
      <4> HIDE DEF l
      <4>4. levels'[l] = levels[l] \/ levels'[l] = Append(levels[l], n)
        <5>1. l \in 0 .. numLevels - 1
          BY <4>1, <1>2
        <5> QED
          BY <5>1, <4>1, <1>2, <1>4a
      <4>5. i \in 1 .. Len(levels'[l]) /\ levels'[l][i] = t
        <5>1. CASE levels'[l] = levels[l]
          BY <5>1, <4>2
        <5>2. CASE levels'[l] = Append(levels[l], n)
          <6>1. /\ Len(Append(levels[l], n)) = Len(levels[l]) + 1
                /\ Append(levels[l], n)[i] = levels[l][i]
            BY <4>2, <4>3, <1>2, AppendProperties
          <6>2. Len(levels[l]) \in Nat
            BY <4>3
          <6> QED
            BY <5>2, <6>1, <6>2, <4>2
        <5> QED
          BY <5>1, <5>2, <4>4
      <4> QED
        BY <4>1, <4>5, <1>3, <1>4a, <1>2
    <3>2. CASE t = n
      <4>1. tasks'[t].depth = d
        BY <3>2, <1>3, <1>4a
      <4>2. CASE d < numLevels
        <5>1. levels[d] \in Seq(Issued) /\ levels'[d] = Append(levels[d], n)
          BY <4>2, <1>2, <1>4a DEF GraphInv, GraphTypeOK
        <5>2. /\ Len(levels[d]) + 1 \in 1 .. Len(levels'[d])
              /\ levels'[d][Len(levels[d]) + 1] = n
          BY <5>1, <1>3, <1>4a
        <5> QED
          BY <5>2, <4>1, <4>2, <3>2, <1>3, <1>4a, <1>2
      <4>3. CASE d = numLevels
        <5>1. levels'[d] = <<n>>
          BY <4>3, <1>3, <1>4a
        <5>2. 1 \in 1 .. Len(levels'[d]) /\ levels'[d][1] = n
          BY <5>1
        <5> QED
          BY <5>2, <4>1, <4>3, <3>2, <1>3, <1>4a, <1>2
      <4> QED
        BY <4>2, <4>3, <1>3, <1>4a, <1>2
    <3> QED
      BY <3>1, <3>2, <1>2
  <2> QED
    BY <2>1, <2>2 DEF LevelsPartition
<1>10. NamedBodyAgrees'
  BY <1>3, <1>4a, <1>2, ZenonT(40) DEF GraphInv, NamedBodyAgrees
<1> QED
  BY <1>5, <1>6, <1>7, <1>8, <1>9, <1>10 DEF GraphInv

-----------------------------------------------------------------------------

\* An empty graph satisfies the invariant.
LEMMA GraphInitOK == ASSUME GraphInit PROVE GraphInv
<1>1. Issued = {} /\ 0 .. numLevels - 1 = {}
  BY DEF GraphInit, Issued
<1>2. GraphTypeOK
  <2>1. numTasks \in 0 .. MaxTasks /\ numLevels \in Nat
    BY DepListAssumption DEF GraphInit
  <2>2. ret \in [ok : BOOLEAN, id : Int]
    BY DEF GraphInit, Ok
  <2>3. ops \in [DOMAIN ops -> TaskFns] /\ DOMAIN ops \subseteq CallerOpIds
    BY DEF GraphInit
  <2>4. tasks \in [Issued -> Task]
    BY <1>1 DEF GraphInit
  <2>5. levels \in [0 .. numLevels - 1 -> Seq(Issued)]
    BY <1>1 DEF GraphInit
  <2> QED
    BY <2>1, <2>2, <2>3, <2>4, <2>5 DEF GraphTypeOK
<1> QED
  BY <1>1, <1>2 DEF GraphInv, DepthBound, DepsPrecede, WavefrontIsTight,
                    LevelsPartition, NamedBodyAgrees

\* A rejected call and a stuttering step keep what the invariant mentions.
LEMMA UnchangedKeepsGraph ==
    ASSUME GraphInv, UNCHANGED <<tasks, levels, numTasks, numLevels>>,
           ret' \in [ok : BOOLEAN, id : Int],
           DOMAIN ops' \subseteq CallerOpIds, ops' \in [DOMAIN ops' -> TaskFns],
           \A o \in DOMAIN ops : o \in DOMAIN ops' /\ ops'[o] = ops[o]
    PROVE  GraphInv'
<1>1. Issued' = Issued
  BY DEF Issued
<1>2. GraphTypeOK'
  BY <1>1 DEF GraphInv, GraphTypeOK
<1>3. DepthBound' /\ WavefrontIsTight' /\ DepsPrecede'
  BY <1>1 DEF GraphInv, DepthBound, WavefrontIsTight, DepsPrecede, DepsOfTask
<1>4. LevelsPartition'
  BY <1>1 DEF GraphInv, LevelsPartition
<1>5. NamedBodyAgrees'
  BY <1>1 DEF GraphInv, NamedBodyAgrees
<1> QED
  BY <1>2, <1>3, <1>4, <1>5 DEF GraphInv

\* Every builder and registry operation keeps the invariant.
LEMMA GraphNextOK ==
    ASSUME GraphInv, [GraphNext]_graphVars PROVE GraphInv'
<1>0. DOMAIN ops \subseteq CallerOpIds /\ ops \in [DOMAIN ops -> TaskFns]
  BY DEF GraphInv, GraphTypeOK
<1>1. ASSUME NEW id \in CallerOpIds, NEW fn \in TaskFns, RegisterOp(id, fn)
      PROVE  GraphInv'
  <2>1. UNCHANGED <<tasks, levels, numTasks, numLevels>>
    BY <1>1 DEF RegisterOp
  <2>2. ret' \in [ok : BOOLEAN, id : Int]
    <3>1. ret' = Ok(-1) \/ ret' = DomainError
      BY <1>1 DEF RegisterOp
    <3>2. Ok(-1) \in [ok : BOOLEAN, id : Int]
      BY DEF Ok
    <3>3. DomainError \in [ok : BOOLEAN, id : Int]
      BY DEF DomainError
    <3> QED
      BY <3>1, <3>2, <3>3
  <2>3. CASE validate_op_id(id) /\ id \notin DOMAIN ops
    <3>1. ops' = [o \in DOMAIN ops \cup {id} |-> IF o = id THEN fn ELSE ops[o]]
      BY <2>3, <1>1 DEF RegisterOp
    <3>2. DOMAIN ops' = DOMAIN ops \cup {id} /\ ops' \in [DOMAIN ops' -> TaskFns]
      BY <3>1, <1>0
    <3>3. \A o \in DOMAIN ops : ops'[o] = ops[o]
      BY <3>1, <2>3
    <3> QED
      BY <3>2, <3>3, <2>1, <2>2, <1>0, UnchangedKeepsGraph
  <2>4. CASE ~(validate_op_id(id) /\ id \notin DOMAIN ops)
    <3>1. ops' = ops
      BY <2>4, <1>1 DEF RegisterOp
    <3> QED
      BY <3>1, <2>1, <2>2, <1>0, UnchangedKeepsGraph
  <2> QED
    BY <2>3, <2>4
<1>2. ASSUME Reject, UNCHANGED ops
      PROVE  GraphInv'
  <2>1. ret' \in [ok : BOOLEAN, id : Int]
    BY <1>2 DEF Reject, DomainError
  <2> QED
    BY <2>1, <1>0, <1>2, UnchangedKeepsGraph DEF Reject
<1>3. ASSUME NEW fn \in TaskFns, NEW deps \in DepLists, AddTask(fn, deps)
      PROVE  GraphInv'
  <2>1. deps \in Seq(Nat) /\ numTasks < MaxTasks /\ UNCHANGED ops
    BY <1>3, DepListAssumption DEF AddTask
  <2>2. CASE Known(deps)
    <3>1. AppendTask(fn, PlainOp, <<>>, deps)
      BY <2>2, <1>3 DEF AddTask
    <3> QED
      BY <3>1, <2>1, <2>2, AppendTaskKeepsGraph
  <2>3. CASE ~Known(deps)
    BY <2>3, <2>1, <1>2, <1>3 DEF AddTask
  <2> QED
    BY <2>2, <2>3
<1>4. ASSUME NEW op \in CallerOpIds, NEW lits \in Literals, NEW deps \in DepLists,
             AddNamedTask(op, lits, deps)
      PROVE  GraphInv'
  <2>1. deps \in Seq(Nat) /\ numTasks < MaxTasks /\ UNCHANGED ops
    BY <1>4, DepListAssumption DEF AddNamedTask
  <2>2. CASE op \in DOMAIN ops /\ Known(deps)
    <3>1. AppendTask(ops[op], op, lits, deps)
      BY <2>2, <1>4 DEF AddNamedTask
    <3>2. ops[op] \in TaskFns
      BY <2>2, <1>0
    <3> QED
      BY <3>1, <3>2, <2>1, <2>2, AppendTaskKeepsGraph
  <2>3. CASE ~(op \in DOMAIN ops /\ Known(deps))
    BY <2>3, <2>1, <1>2, <1>4 DEF AddNamedTask
  <2> QED
    BY <2>2, <2>3
<1>5. CASE UNCHANGED graphVars
  <2>1. ret' \in [ok : BOOLEAN, id : Int]
    BY <1>5 DEF graphVars, GraphInv, GraphTypeOK
  <2> QED
    BY <2>1, <1>0, <1>5, UnchangedKeepsGraph DEF graphVars
<1> QED
  BY <1>1, <1>3, <1>4, <1>5 DEF GraphNext

\* Whatever registrations and appends callers make, in whatever order and
\* whether they succeed or fail, the invariant holds.
LEMMA GraphInvariance == GraphSpec => []GraphInv
<1>1. GraphInit => GraphInv
  BY GraphInitOK
<1>2. GraphInv /\ [GraphNext]_graphVars => GraphInv'
  BY GraphNextOK
<1> QED
  BY <1>1, <1>2, PTL DEF GraphSpec

\* So the graph is well typed, ...
THEOREM GraphTypeCorrect == GraphSpec => []GraphTypeOK
<1>1. GraphInv => GraphTypeOK
  BY DEF GraphInv
<1> QED
  BY <1>1, GraphInvariance, PTL

\* ... acyclic with dependencies in strictly earlier levels, ...
THEOREM Acyclic == GraphSpec => []DepsPrecede
<1>1. GraphInv => DepsPrecede
  BY DEF GraphInv
<1> QED
  BY <1>1, GraphInvariance, PTL

\* ... as shallow as the dependencies allow, ...
THEOREM Tight == GraphSpec => []WavefrontIsTight
<1>1. GraphInv => WavefrontIsTight
  BY DEF GraphInv
<1> QED
  BY <1>1, GraphInvariance, PTL

\* ... and levels_ is the partition of the tasks by depth that the executors
\* iterate over.
THEOREM LevelsAreAPartition == GraphSpec => []LevelsPartition
<1>1. GraphInv => LevelsPartition
  BY DEF GraphInv
<1> QED
  BY <1>1, GraphInvariance, PTL

\* A named task's copied body is the body its op id still names.
THEOREM NamedBodies == GraphSpec => []NamedBodyAgrees
<1>1. GraphInv => NamedBodyAgrees
  BY DEF GraphInv
<1> QED
  BY <1>1, GraphInvariance, PTL

\* The graph a caller has built, as an executor takes it.
Built ==
    [n |-> numTasks, numLevels |-> numLevels,
     deps |-> [t \in Issued |-> tasks[t].deps],
     depth |-> [t \in Issued |-> tasks[t].depth]]

\* The invariant makes the built graph one of those the executors run.
LEMMA BuiltIsGraph == ASSUME GraphInv PROVE IsTaskGraph(Built)
<1> DEFINE b == Built
<1>1. /\ b.n = numTasks /\ b.numLevels = numLevels
      /\ b.deps = [t \in Issued |-> tasks[t].deps]
      /\ b.depth = [t \in Issued |-> tasks[t].depth]
  BY DEF Built
<1> HIDE DEF b
<1>2. /\ numTasks \in Nat /\ numLevels \in Nat /\ tasks \in [Issued -> Task]
      /\ TaskIdsOf(b) = Issued /\ Issued = 0 .. numTasks - 1
  BY <1>1 DEF GraphInv, GraphTypeOK, TaskIdsOf, Issued
<1>3. ASSUME NEW t \in Issued
      PROVE  /\ tasks[t].deps \in Seq(Nat) /\ tasks[t].depth \in 0 .. numLevels - 1
             /\ \A i \in DOMAIN tasks[t].deps :
                   /\ tasks[t].deps[i] \in Issued /\ tasks[t].deps[i] < t
                   /\ tasks[tasks[t].deps[i]].depth < tasks[t].depth
  <2>1. tasks[t].deps \in Seq(Nat) /\ tasks[t].depth \in Nat
    BY <1>2 DEF Task
  <2>2. tasks[t].depth < numLevels
    BY DEF GraphInv, LevelsPartition
  <2>3. ASSUME NEW i \in DOMAIN tasks[t].deps
        PROVE  tasks[t].deps[i] \in 0 .. t - 1 /\ tasks[tasks[t].deps[i]].depth < tasks[t].depth
    BY DEF GraphInv, DepsPrecede, DepsOfTask
  <2> QED
    BY <1>2, <2>1, <2>2, <2>3
<1>4. b.deps \in [TaskIdsOf(b) -> Seq(TaskIdsOf(b))]
  <2>1. ASSUME NEW t \in Issued PROVE tasks[t].deps \in Seq(Issued)
    BY <1>3
  <2> QED
    BY <1>1, <1>2, <2>1
<1>5. b.depth \in [TaskIdsOf(b) -> 0 .. b.numLevels - 1]
  BY <1>1, <1>2, <1>3
<1>6. ASSUME NEW t \in TaskIdsOf(b), NEW i \in DOMAIN b.deps[t]
      PROVE  b.deps[t][i] < t /\ b.depth[b.deps[t][i]] < b.depth[t]
  <2>1. t \in Issued /\ b.deps[t] = tasks[t].deps /\ b.depth[t] = tasks[t].depth
    BY <1>1, <1>2
  <2>2. /\ tasks[t].deps[i] \in Issued /\ tasks[t].deps[i] < t
        /\ tasks[tasks[t].deps[i]].depth < tasks[t].depth
    BY <1>3, <2>1
  <2> QED
    BY <1>1, <2>1, <2>2
<1>7. IsTaskGraph(b)
  BY <1>1, <1>2, <1>4, <1>5, <1>6 DEF IsTaskGraph
<1> QED
  BY <1>7 DEF b

\* What the executors assume of a graph is what TaskGraph builds, whatever its
\* callers do: GraphAssumption is met by every graph that can be handed over.
THEOREM BuiltGraphsAreTaskGraphs == GraphSpec => []IsTaskGraph(Built)
<1>1. GraphInv => IsTaskGraph(Built)
  BY BuiltIsGraph
<1> QED
  BY <1>1, GraphInvariance, PTL

=============================================================================
