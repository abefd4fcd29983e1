------------------------------ MODULE Wavefront ------------------------------
(***************************************************************************)
(* The three in-process executors of nimblecas.taskdag and                 *)
(* nimblecas.taskdag_sched: serial, local_parallel and cost_ordered_local. *)
(* They walk the levels of a finished TaskGraph; the parallel ones fan a   *)
(* level out over threads that each fill a slot of their own, wait for all *)
(* of them, and then write the slots back in list order.                   *)
(***************************************************************************)
EXTENDS CostOrder, TaskSemantics

CONSTANTS
    CostTables,    \* cost tables by op id; << >> is none
    Lambdas        \* ScheduleParams::risk_lambda

\* Any doubles at all: not finite, negative or huge.
ASSUME ScheduleAssumption ==
    /\ \A gr \in Graphs : gr.hint \in [TaskIdsOf(gr) -> CostHint]
    /\ \A table \in CostTables : \A op \in DOMAIN table : table[op] \in CostHint
    /\ Lambdas \subseteq Number

Executors == {"serial", "local_parallel", "cost_ordered_local"}

VARIABLES
    executor,  \* which executor runs it
    sched,     \* cost table and lambda of cost_ordered_local
    lvl,       \* loop variable of run()
    phase,     \* "fan" | "write" | "done"
    outputs,   \* outputs[id]
    origins,   \* origins[id], None when empty
    executed,  \* counter of invoked tasks
    inflight,  \* id -> outcome a thread has computed and not yet stored
    slots,     \* id -> outcome in its slot
    written    \* ids written back in this level

vars == <<g, executor, sched, lvl, phase, outputs, origins, executed,
          inflight, slots, written>>

-----------------------------------------------------------------------------
CostOf(t) == effective_cost(g.hint[t], g.op[t], sched.table, sched.lambda)

\* The order a level is listed in: issuance order, or level_order's.
Precedes(t, u) ==
    IF executor = "cost_ordered_local"
    THEN Before(CostOf(t), t, CostOf(u), u)
    ELSE t < u

First(S, t) == t \in S /\ \A u \in S \ {t} : Precedes(t, u)

-----------------------------------------------------------------------------
\* outputs(n) and origins(n): default-constructed, that is an empty payload
\* and an empty optional.
Init ==
    /\ g \in Graphs
    /\ executor \in Executors
    /\ sched \in [table : CostTables, lambda : Lambdas]
    /\ lvl = 0
    /\ phase = IF g.numLevels = 0 THEN "done" ELSE "fan"
    /\ outputs = [t \in TaskIds |-> [ok |-> TRUE, val |-> Empty]]
    /\ origins = [t \in TaskIds |-> None]
    /\ executed = 0
    /\ inflight = [t \in {} |-> {}]
    /\ slots = [t \in {} |-> {}]
    /\ written = {}

Store(t, o) ==
    /\ outputs' = [outputs EXCEPT ![t] = o.output]
    /\ origins' = [origins EXCEPT ![t] = o.origin]
    /\ executed' = executed + (IF o.executed THEN 1 ELSE 0)

Put(f, t, o) == [u \in DOMAIN f \cup {t} |-> IF u = t THEN o ELSE f[u]]
Drop(f, t) == [u \in DOMAIN f \ {t} |-> f[u]]

\* SerialExecutor::run, one task of the level.
RunSerial(t) ==
    /\ executor = "serial" /\ phase = "fan"
    /\ First(Level(lvl) \ written, t)
    /\ Store(t, run_or_poison(t, outputs, origins))
    /\ written' = written \cup {t}
    /\ UNCHANGED <<g, executor, sched, lvl, phase, inflight, slots>>

\* Mutant of BeginTask: no barrier between this level and the next.
BeginTaskAhead(t) ==
    /\ executor # "serial" /\ phase = "fan"
    /\ t \in (Level(lvl) \cup Level(lvl + 1)) \ (DOMAIN inflight \cup DOMAIN slots)
    /\ inflight' = Put(inflight, t, run_or_poison(t, outputs, origins))
    /\ UNCHANGED <<g, executor, sched, lvl, phase, outputs, origins, executed,
                   slots, written>>

\* transform_index: a thread of the pool evaluates run_or_poison for one id...
BeginTask(t) ==
    /\ executor # "serial" /\ phase = "fan"
    /\ t \in Level(lvl) \ (DOMAIN inflight \cup DOMAIN slots)
    /\ inflight' = Put(inflight, t, run_or_poison(t, outputs, origins))
    /\ UNCHANGED <<g, executor, sched, lvl, phase, outputs, origins, executed,
                   slots, written>>

\* Mutant of FillSlot: the outcome goes to a copy of the slot.
FillSlotLost(t) ==
    /\ t \in DOMAIN inflight
    /\ slots' = slots
    /\ inflight' = Drop(inflight, t)
    /\ UNCHANGED <<g, executor, sched, lvl, phase, outputs, origins, executed,
                   written>>

\* ... and stores the outcome in the slot of that id.
FillSlot(t) ==
    /\ t \in DOMAIN inflight
    /\ slots' = Put(slots, t, inflight[t])
    /\ inflight' = Drop(inflight, t)
    /\ UNCHANGED <<g, executor, sched, lvl, phase, outputs, origins, executed,
                   written>>

\* for_ranges is blocking: it returns once every slot of the level is filled.
Join ==
    /\ executor # "serial" /\ phase = "fan"
    /\ DOMAIN slots = Level(lvl)
    /\ phase' = "write"
    /\ UNCHANGED <<g, executor, sched, lvl, outputs, origins, executed,
                   inflight, slots, written>>

\* One iteration of the write-back loop.
WriteBack(t) ==
    /\ phase = "write"
    /\ First(Level(lvl) \ written, t)
    /\ Store(t, slots[t])
    /\ written' = written \cup {t}
    /\ UNCHANGED <<g, executor, sched, lvl, phase, inflight, slots>>

\* Mutant of NextLevel: the loop over the level stops early.
NextLevelEarly ==
    /\ phase = (IF executor = "serial" THEN "fan" ELSE "write")
    /\ written # {}
    /\ lvl' = lvl + 1
    /\ phase' = IF lvl + 1 < g.numLevels THEN "fan" ELSE "done"
    /\ slots' = [t \in {} |-> {}]
    /\ written' = {}
    /\ UNCHANGED <<g, executor, sched, outputs, origins, executed, inflight>>

\* ++lvl, or return the TaskRunResult after the last level.
NextLevel ==
    /\ phase = (IF executor = "serial" THEN "fan" ELSE "write")
    /\ written = Level(lvl)
    /\ lvl' = lvl + 1
    /\ phase' = IF lvl + 1 < g.numLevels THEN "fan" ELSE "done"
    /\ slots' = [t \in {} |-> {}]
    /\ written' = {}
    /\ UNCHANGED <<g, executor, sched, outputs, origins, executed, inflight>>

Terminated == phase = "done" /\ UNCHANGED vars

Step == \/ Join
        \/ NextLevel
        \/ \E t \in TaskIds : \/ RunSerial(t)
                              \/ BeginTask(t)
                              \/ FillSlot(t)
                              \/ WriteBack(t)

Next == Step \/ Terminated

\* The pool's threads and the calling thread keep running; nothing waits.
Spec == Init /\ [][Next]_vars /\ WF_vars(Step)

-----------------------------------------------------------------------------
(* Properties *)

\* Tasks whose output the run has written.
Settled == {t \in TaskIds : g.depth[t] < lvl} \cup written

\* Level, phase and tables are in range; an id is computed by one thread at a
\* time, at most once, and only ids of the current level are.
TypeOK ==
    /\ g \in Graphs
    /\ executor \in Executors
    /\ lvl \in 0 .. g.numLevels
    /\ phase \in {"fan", "write", "done"}
    /\ DOMAIN outputs = TaskIds
    /\ origins \in [TaskIds -> TaskIds \cup {None}]
    /\ executed \in 0 .. g.n
    /\ DOMAIN inflight \cup DOMAIN slots \subseteq Level(lvl)
    /\ DOMAIN inflight \cap DOMAIN slots = {}
    /\ written \subseteq Level(lvl)

\* Every written outcome is the one run_or_poison gives on the outputs as they
\* are now: the inputs a task read were final when it read them, and no later
\* write-back has changed them.
OutcomesConsistent ==
    \A t \in Settled : LET o == run_or_poison(t, outputs, origins)
                       IN  outputs[t] = o.output /\ origins[t] = o.origin

\* What a thread computed and has not yet been written back is not stale: it
\* would compute the same outcome now.
NothingStale ==
    /\ \A t \in DOMAIN inflight : inflight[t] = run_or_poison(t, outputs, origins)
    /\ \A t \in DOMAIN slots : slots[t] = run_or_poison(t, outputs, origins)

\* The executors are a TaskRun that never aborts: tasks settle one at a time,
\* after their dependencies, with run_or_poison's outcome, and never change.
Run == INSTANCE TaskRun WITH
    out <- [t \in Settled |-> [output |-> outputs[t], origin |-> origins[t]]],
    status <- IF phase = "done" THEN "returned" ELSE "running"

ImplementsTaskRun == Run!Spec

\* Whichever executor ran and however its threads interleaved, the returned
\* outputs are the reference's, and executed counts exactly the tasks that no
\* failing ancestor poisoned.
MatchesReference ==
    phase = "done" =>
        /\ \A t \in TaskIds : outputs[t] = Expected(t)
        /\ executed = Cardinality({t \in TaskIds :
                                      Ancestors[t] \cap FailedBodies = {}})

\* level_order's comparator is a strict total order on every level, whatever
\* the hints are: std::sort is given a valid ordering.
OrderIsTotal ==
    \A t, u \in TaskIds : g.depth[t] = g.depth[u] =>
        /\ ~Precedes(t, t)
        /\ t # u => (Precedes(t, u) <=> ~Precedes(u, t))
        /\ \A v \in Level(g.depth[t]) :
              Precedes(t, u) /\ Precedes(u, v) => Precedes(t, v)

\* Every run returns.
Termination == <>(phase = "done")

=============================================================================
