------------------------------ MODULE TaskGraph ------------------------------
(***************************************************************************)
(* nimblecas.taskdag: the TaskRegistry of named operations and the         *)
(* TaskGraph that is built from it, one append at a time.                  *)
(*                                                                         *)
(* std::vectors are functions on 0 .. size-1, so that an index here is the *)
(* index in the code.  A TaskFn is an opaque body; an OpId is a sequence   *)
(* of character classes, which is all that validate_op_id looks at.        *)
(***************************************************************************)
EXTENDS Integers, Sequences

CONSTANTS
    Chars,        \* character classes an OpId is made of
    CallerOpIds,  \* the OpIds callers pass to register_op / add_named_task
    MaxOpIdLen,   \* the 256-byte limit of the OpId grammar
    TaskFns,      \* opaque task bodies
    Literals,     \* literal argument lists a caller may bind
    DepLists,     \* dependency lists a caller may pass (TaskId values)
    MaxTasks      \* bound: tasks a caller appends

ASSUME OpIdAssumption == /\ CallerOpIds \subseteq Seq(Chars)
                         /\ MaxOpIdLen \in Nat

ASSUME DepListAssumption == /\ DepLists \subseteq Seq(Nat)
                            /\ MaxTasks \in Nat

VARIABLES
    ops,        \* TaskRegistry::ops_, OpId -> TaskFn
    tasks,      \* TaskGraph::tasks_, TaskId -> Task
    levels,     \* TaskGraph::levels_, depth -> TaskIds in issuance order
    numTasks,   \* tasks_.size()
    numLevels,  \* levels_.size()
    ret         \* the Result of the last call

graphVars == <<ops, tasks, levels, numTasks, numLevels, ret>>

PlainOp == <<>>                   \* op_id of a plain closure task
DomainError == [ok |-> FALSE, id |-> -1]
Ok(id) == [ok |-> TRUE, id |-> id]

-----------------------------------------------------------------------------
(* TaskRegistry *)

Digit(c) == c = "0"
Ascii(c) == c \notin {"nonascii", "nul"}

\* Positions of "/v" in id (1-based).
VersionMarks(id) == {i \in 1 .. Len(id) - 1 : id[i] = "/" /\ id[i + 1] = "v"}

\* The version marker rfind("/v") returns is the last one.  A dot somewhere
\* before it and digits only after it are the rest of the grammar enforced.
validate_op_id(id) ==
    /\ id # <<>> /\ Len(id) <= MaxOpIdLen
    /\ \A i \in 1 .. Len(id) : Ascii(id[i])
    /\ \E v \in VersionMarks(id) :
          /\ \A w \in VersionMarks(id) : w <= v
          /\ v # 1
          /\ \E i \in 1 .. v - 1 : id[i] = "."
          /\ v + 1 < Len(id)
          /\ \A i \in v + 2 .. Len(id) : Digit(id[i])

\* register_op: emplace keeps the first body registered under an id.
RegisterOp(id, fn) ==
    /\ IF validate_op_id(id) /\ id \notin DOMAIN ops
       THEN /\ ops' = [o \in DOMAIN ops \cup {id} |->
                          IF o = id THEN fn ELSE ops[o]]
            /\ ret' = Ok(-1)
       ELSE ops' = ops /\ ret' = DomainError
    /\ UNCHANGED <<tasks, levels, numTasks, numLevels>>

-----------------------------------------------------------------------------
(* TaskGraph *)

Issued == 0 .. numTasks - 1
DepsOfTask(t) == {tasks[t].deps[i] : i \in DOMAIN tasks[t].deps}
Known(deps) == \A i \in DOMAIN deps : deps[i] < numTasks

\* Mutants of NewDepth: depth of a child not above its parents; one level per
\* dependency instead of one level per generation.
NewDepthNoStep(deps) ==
    CHOOSE m \in 0 .. numTasks :
        /\ \A i \in DOMAIN deps : tasks[deps[i]].depth <= m
        /\ m = 0 \/ \E i \in DOMAIN deps : tasks[deps[i]].depth = m

NewDepthPerDep(deps) ==
    IF deps = <<>> THEN 0 ELSE NewDepthNoStep(deps) + Len(deps)

\* The running maximum of parent depth + 1; 0 without dependencies.
NewDepth(deps) ==
    CHOOSE m \in 0 .. numTasks :
        /\ \A i \in DOMAIN deps : tasks[deps[i]].depth + 1 <= m
        /\ m = 0 \/ \E i \in DOMAIN deps : tasks[deps[i]].depth + 1 = m

\* Mutants of PushLevel: the id is read after the task is appended; the table
\* is resized unconditionally, which drops deeper levels.
PushLevelLateId(d, id) ==
    LET size == IF d >= numLevels THEN d + 1 ELSE numLevels
        old(l) == IF l < numLevels THEN levels[l] ELSE <<>>
    IN  /\ numLevels' = size
        /\ levels' = [l \in 0 .. size - 1 |->
                         IF l = d THEN Append(old(l), id + 1) ELSE old(l)]

PushLevelTruncating(d, id) ==
    LET old(l) == IF l < numLevels THEN levels[l] ELSE <<>>
    IN  /\ numLevels' = d + 1
        /\ levels' = [l \in 0 .. d |->
                         IF l = d THEN Append(old(l), id) ELSE old(l)]

\* levels_.resize(d + 1) when the depth is new, then push_back(id).
PushLevel(d, id) ==
    LET size == IF d >= numLevels THEN d + 1 ELSE numLevels
        old(l) == IF l < numLevels THEN levels[l] ELSE <<>>
    IN  /\ numLevels' = size
        /\ levels' = [l \in 0 .. size - 1 |->
                         IF l = d THEN Append(old(l), id) ELSE old(l)]

\* The common tail of add_task and add_named_task once the call is accepted.
AppendTask(fn, op, lits, deps) ==
    LET d == NewDepth(deps)
    IN  /\ tasks' = [t \in 0 .. numTasks |->
                        IF t = numTasks
                        THEN [fn |-> fn, deps |-> deps, depth |-> d,
                              op_id |-> op, literals |-> lits]
                        ELSE tasks[t]]
        /\ numTasks' = numTasks + 1
        /\ PushLevel(d, numTasks)
        /\ ret' = Ok(numTasks)

Reject == ret' = DomainError /\ UNCHANGED <<tasks, levels, numTasks, numLevels>>

\* add_task: a closure without an op id or literals.
AddTask(fn, deps) ==
    /\ numTasks < MaxTasks
    /\ IF Known(deps) THEN AppendTask(fn, PlainOp, <<>>, deps) ELSE Reject
    /\ UNCHANGED ops

\* add_named_task: the body is COPIED from the registry at this moment.
AddNamedTask(op, lits, deps) ==
    /\ numTasks < MaxTasks
    /\ IF op \in DOMAIN ops /\ Known(deps)
       THEN AppendTask(ops[op], op, lits, deps)
       ELSE Reject
    /\ UNCHANGED ops

GraphInit ==
    /\ ops = [o \in {} |-> {}]
    /\ tasks = [t \in {} |-> {}]
    /\ levels = [l \in {} |-> {}]
    /\ numTasks = 0 /\ numLevels = 0
    /\ ret = Ok(-1)

GraphNext ==
    \/ \E id \in CallerOpIds, fn \in TaskFns : RegisterOp(id, fn)
    \/ \E fn \in TaskFns, deps \in DepLists : AddTask(fn, deps)
    \/ \E op \in CallerOpIds, lits \in Literals, deps \in DepLists :
          AddNamedTask(op, lits, deps)

GraphSpec == GraphInit /\ [][GraphNext]_graphVars

-----------------------------------------------------------------------------
(* Properties *)

Task == [fn : TaskFns, deps : Seq(Nat), depth : Nat,
         op_id : CallerOpIds \cup {PlainOp}, literals : Literals \cup {<<>>}]

\* The registry, the task vector and the level table have the types the
\* class declarations give them, and the sizes match the tables.
GraphTypeOK ==
    /\ numTasks \in 0 .. MaxTasks
    /\ numLevels \in Nat
    /\ DOMAIN ops \subseteq CallerOpIds
    /\ ops \in [DOMAIN ops -> TaskFns]
    /\ tasks \in [Issued -> Task]
    /\ levels \in [0 .. numLevels - 1 -> Seq(Issued)]
    /\ ret \in [ok : BOOLEAN, id : Int]

\* "acyclic by construction": every dependency was issued before its task and
\* sits at a strictly smaller depth, so a level only reads earlier levels.
DepsPrecede ==
    \A t \in Issued : \A d \in DepsOfTask(t) :
        /\ d \in 0 .. t - 1
        /\ tasks[d].depth < tasks[t].depth

\* A task waits no longer than its dependencies make it: past level 0 one of
\* its dependencies lies in the level just before (depth is the longest chain).
WavefrontIsTight ==
    \A t \in Issued : tasks[t].depth > 0 =>
        \E d \in DepsOfTask(t) : tasks[d].depth = tasks[t].depth - 1

\* levels_ is the partition of the tasks by depth: a level lists tasks of its
\* own depth only, in ascending issuance order without repetition, every task
\* is listed, and no level is empty (num_levels() counts depths present).
LevelsPartition ==
    /\ \A l \in 0 .. numLevels - 1 :
          /\ Len(levels[l]) > 0
          /\ \A i \in 1 .. Len(levels[l]) : tasks[levels[l][i]].depth = l
          /\ \A i, j \in 1 .. Len(levels[l]) :
                i < j => levels[l][i] < levels[l][j]
    /\ \A t \in Issued :
          /\ tasks[t].depth < numLevels
          /\ \E i \in 1 .. Len(levels[tasks[t].depth]) :
                levels[tasks[t].depth][i] = t

\* The body a named task copied is still the one its op id names: a worker
\* that looks the op up by name later runs the body the coordinator holds.
NamedBodyAgrees ==
    \A t \in Issued : tasks[t].op_id # PlainOp =>
        /\ tasks[t].op_id \in DOMAIN ops
        /\ tasks[t].fn = ops[tasks[t].op_id]

=============================================================================
