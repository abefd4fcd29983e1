---------------------------- MODULE TaskSemantics ----------------------------
(***************************************************************************)
(* What running a task means to every executor of nimblecas.taskdag: the   *)
(* argument list a body is given, and run_or_poison, the outcome of a task *)
(* from the outcomes of its dependencies.                                  *)
(*                                                                         *)
(* A TaskFn is pure: Invoke(body, args) is its Result.  A graph is a       *)
(* record whose fields are functions on 0 .. n-1, as TaskGraph builds it.  *)
(***************************************************************************)
EXTENDS Integers, Sequences, FiniteSets

CONSTANTS
    Invoke(_, _),  \* the Result of a task body on an argument list
    Graphs,        \* the graphs run
    Empty          \* the payload of a default-constructed Result

None == -1        \* an empty std::optional<size_t>
Error(e) == [ok |-> FALSE, err |-> e]

TaskIdsOf(gr) == 0 .. gr.n - 1

\* What TaskGraph guarantees of a graph (its DepsPrecede and LevelsPartition).
IsTaskGraph(gr) ==
    /\ gr.n \in Nat /\ gr.numLevels \in Nat
    /\ gr.deps \in [TaskIdsOf(gr) -> Seq(TaskIdsOf(gr))]
    /\ gr.depth \in [TaskIdsOf(gr) -> 0 .. gr.numLevels - 1]
    /\ \A t \in TaskIdsOf(gr) : \A i \in DOMAIN gr.deps[t] :
          /\ gr.deps[t][i] < t
          /\ gr.depth[gr.deps[t][i]] < gr.depth[t]

ASSUME GraphAssumption == \A gr \in Graphs : IsTaskGraph(gr)

VARIABLE g         \* the graph, fixed for the run

-----------------------------------------------------------------------------
TaskIds == TaskIdsOf(g)
Level(l) == {t \in TaskIds : g.depth[t] = l}
DepsOf(t) == {g.deps[t][i] : i \in DOMAIN g.deps[t]}

FailedDeps(t, out) == {d \in DepsOf(t) : ~out[d].ok}
OriginOf(d, org) == IF org[d] = None THEN d ELSE org[d]
Blamed(t, out, org) == {OriginOf(d, org) : d \in FailedDeps(t, out)}

\* Literals first, then parent outputs in declared order.
Args(t, out) ==
    g.literals[t] \o [i \in DOMAIN g.deps[t] |-> out[g.deps[t][i]].val]

\* Mutant of run_or_poison: blames the lowest failed dependency, not the
\* failure it inherited.
run_or_poison_nearest(t, out, org) ==
    IF FailedDeps(t, out) # {}
    THEN LET best == CHOOSE o \in FailedDeps(t, out) :
                        \A p \in FailedDeps(t, out) : o <= p
         IN  [output |-> Error(out[best].err), origin |-> best,
              executed |-> FALSE]
    ELSE LET res == Invoke(g.body[t], Args(t, out))
         IN  [output |-> res, origin |-> IF res.ok THEN None ELSE t,
              executed |-> TRUE]

\* run_or_poison: the lowest origin blamed by a failed dependency poisons the
\* task; otherwise its body runs, and a failing body blames itself.
run_or_poison(t, out, org) ==
    IF FailedDeps(t, out) # {}
    THEN LET best == CHOOSE o \in Blamed(t, out, org) :
                        \A p \in Blamed(t, out, org) : o <= p
         IN  [output |-> Error(out[best].err), origin |-> best,
              executed |-> FALSE]
    ELSE LET res == Invoke(g.body[t], Args(t, out))
         IN  [output |-> res, origin |-> IF res.ok THEN None ELSE t,
              executed |-> TRUE]

-----------------------------------------------------------------------------
\* Reference semantics, independent of levels and schedules: a task whose
\* ancestors all succeed yields its body's Result; any other task yields the
\* error of its lowest failing ancestor, one whose own body failed.
Ancestors[t \in TaskIds] ==
    DepsOf(t) \cup UNION {Ancestors[d] : d \in DepsOf(t)}

OwnResult[t \in TaskIds] ==
    IF \E d \in DepsOf(t) : ~OwnResult[d].ok
    THEN Error("poisoned")
    ELSE Invoke(g.body[t],
                g.literals[t] \o [i \in DOMAIN g.deps[t] |-> OwnResult[g.deps[t][i]].val])

\* The tasks that ran and failed.
FailedBodies ==
    {t \in TaskIds : ~OwnResult[t].ok /\ \A d \in DepsOf(t) : OwnResult[d].ok}

Expected(t) ==
    LET bad == Ancestors[t] \cap FailedBodies
    IN  IF bad = {} THEN OwnResult[t]
        ELSE OwnResult[CHOOSE b \in bad : \A c \in bad : b <= c]

=============================================================================
