# A TLA+ verification of NimbleCAS's task execution

NimbleCAS is a computer algebra system in C++23. Most of its 165 modules are pure functions
over numbers and expressions. The part that keeps state, runs concurrently, talks to other
processes and has to survive their failures is the *task execution* layer: task graphs, the
executors that run them in threads or on a cluster, the work broker and its gRPC client, and
the memo tables. The other part with state and failures of its own is the *GPU* layer: host
functions that drive the CUDA runtime, and kernels whose threads share memory. This project
models both layers, model-checks them with TLC and proves their safety with TLAPS, refinements
included: every invariant and action property the runs check and find to hold is also a theorem for
all values of the constants.

Paths below are relative to the repository root (`src/taskdag/taskdag.cppm` is
`src/src/taskdag/taskdag.cppm` in `PROJECT.json`).

## 1. The system

    TaskRegistry ──> TaskGraph ──> TaskExecutor::run
                                     ├── Serial / LocalParallel / CostOrderedLocal  (threads)
                                     └── SgeeDistributedExecutor                    (processes)
                                            │ enqueue, sweep, state      │ try_get   │ lookup, publish
                                            v                            v           v
                                        BrokerPort  <── lease,      ResultChannel  DistributedMemo
                                            ^           complete,        ^         (InProcess, File,
                                            └────────── run_worker_pump ─┘ put      Postgres)
                                        GrpcBrokerPort, GrpcResultChannel ──> a cluster of nodes

    solvers, pricing, transforms ──> nimblecas_gpu_* bridges ──> CUDA runtime ──> kernels

| component | state | operations | what is hard | what makes it correct |
|---|---|---|---|---|
| **registry, graph** `taskdag` | ops by id; tasks with deps, depth, body; the level table | `register_op`, `add_task`, `add_named_task` | long call sequences, rejected calls, re-registration | acyclic; each depth tight; levels a partition in issuance order; a named task runs what the registry says |
| **local executors** `taskdag`, `taskdag_sched`, `parallel` | outputs, origins, executed count; per-level slots | `run`; `run_or_poison`; `level_order` | threads of a level read and fill tables; poisoning through `origins`; odd cost hints given to `std::sort` | same outcome as a schedule-free reference; nothing stale is read; always returns |
| **broker** `taskdag_sgee` (`FakeBrokerPort`) | queue of entries (state, attempt, token, deadline), id and token counters, clock | `enqueue`, `lease`, `complete`, `fail`, `heartbeat`, `sweep_expired` | holders of expired leases; attempts at their limit; time | a task is committed at most once, by its newest lease; attempts accounted; verdicts final |
| **distributed executor** `taskdag_sgee` | per-run tables as above, pending qids, twins, aliases, recoveries | `run` | everything at once: expired leases, unfenced late `put`s, lost results, foreign registries, collisions of hashes, deadline | every task settles as in a serial run, or the run aborts; it ends once its own pump threads do, past the deadline at the latest |
| **worker pump** `taskdag_sgee` | the lease it holds; heartbeat thread | lease, run, put, complete/fail | dies at any point, or is a thread that `run` must join; its lease may expire under it | a completed task has a result; answers belong to their task |
| **gRPC transport** `sgee_backend_grpc.cpp` | endpoint ring with an active index, lease-token table, one per process | one RPC per broker or channel call, retried and redirected for 5 s | lost requests and replies, leaders that change, a port and a channel turning one ring, reads that consume | no success made up; a lease's holder can use it; waste bounded by what was lost; every call reaches the leader |
| **in-process memo** `memo_dist` | shards of buckets, a relaxed entry counter | `lookup`, `publish` | bound read under one of many mutexes; shared fingerprints | one immutable first-writer-wins table; bounded overshoot |
| **durable memo** `memo_dist` (`FileMemo`) | log of checksummed records, index, append cursor | `create`, `lookup`, `publish` | crash or failed write inside an append, repair at open, damaged media | the same table across processes; nothing served that was not published |
| **GPU bridges** `gpu/*.cu` (host) | per call: device and host buffers, streams, page-locked ranges; CUDA's per-thread last error | 31 `nimblecas_gpu_*` functions | each runtime call may fail; loops with many exits; two calls on one host array | nothing leaks; nothing uninitialised is read; success means all results are there |
| **GPU kernels** `gpu/*.cu` (device) | shared memory of a block, registers | reductions, transforms, batched solvers | reuse of shared buffers and flags, barriers under branches, partial segments | no race, no divergent barrier, complete sums, one report per system |
| PostgreSQL memo `memo_postgres` | pool of connections | same as a memo | pool exhaustion, broken connections | as the other memos |
| expression memo `cache` | shards of buckets | `get_or_compute` | computes unlocked between two locked sections | one value per key |
| distributed solvers `csp_dist`, `sat_dist`, `search_dist`, `planning_dist`, `logic_dist`, `modgcd_dist` | open list, incumbent, per-round graphs | partition, submit, merge | partition must cover; merge must be order-free | same answer as the sequential solver |
| in-process solvers (CSP, SAT, search, logic, planning) | search state | sequential | long search bookkeeping | soundness of pruning |
| everything else | none or values | pure functions | arithmetic | numerical, algebraic |

`PROJECT.json` lists the same components with all their sources, and the hazards of the
code, each at its line with the properties that cover it.

## 2. Modules

| module | models | state ↔ code, actions ↔ operations |
|---|---|---|
| `TaskGraph` | `TaskRegistry`, `TaskGraph` | `ops` ↔ `ops_`, `tasks` ↔ `tasks_`, `levels` ↔ `levels_`. `RegisterOp`, `AddTask`, `AddNamedTask` are the calls; a rejected call leaves everything as it was. The op id grammar is parsed position by position, as `validate_op_id` does, over character classes. |
| `TaskSemantics` | argument lists, `run_or_poison` | Pure operators over the run's graph `g`, shared by all executors, and the schedule-free reference `Expected` the runs compare with. `GraphAssumption` is what `TaskGraph` guarantees. |
| `TaskRun` | the contract of `TaskExecutor::run` | Abstract: sets of tasks settle once, after their dependencies, with `run_or_poison`'s outcome; the run returns when all are settled, or aborts. |
| `CostOrder` | `sanitize`, `effective_cost`, `level_order`'s comparator | Costs are integers, `NaN`, or too large (overflow → 0, as the code's last check makes it). |
| `Wavefront` | the three local executors | `outputs`, `origins`, `executed` are the locals of `run`; `inflight` is what a thread has computed and not yet stored, `slots` the level's slots. `RunSerial`; `BeginTask`/`FillSlot` (a thread reads, then stores), `Join` (the fan-out returned), `WriteBack` in list order, `NextLevel`. |
| `Broker` | `FakeBrokerPort`, the in-memory implementation of the `BrokerPort` contract | `entries`, `nextQid`, `nextToken`, `now`, `faults` are its members; `leases` and `commits` are history. One action per call. |
| `SgeeRun` | `SgeeDistributedExecutor::run` and `run_worker_pump`, over an *instance of* `Broker` and a result channel | The coordinator's locals, a program counter for its phases (preflight, dispatch, polling round, drained level, joining), the shared memo and result channel, and one record per pump. `Own` pumps are `PumpGuard::threads` (`threads`: those that have not ended); the others belong to other processes. |
| `MemoTable` | the `DistributedMemo` contract | Abstract: the first value stored for a key, for ever; publishing may be refused. |
| `InProcessMemo` | `InProcessMemo` | `buckets` ↔ the shards' maps, `total` ↔ `total_entries_`. `Publish` is the locked section up to the bound check, `Insert` the rest, so other shards run in between. `seen`/`released` give each thread the values a relaxed read of the counter may return. |
| `FileMemo` | `FileMemo` | `file` ↔ the log, a sequence of cells; `index`, `good`, `fsize`, `damaged` ↔ `index_`, `good_prefix_`, `file_size_`, `damaged_`. `Open` is `create`: it indexes the verified prefix and cuts the rest. `PublishLanded`, `PublishFailed` (the write stops part-way and the process goes on), `PublishCut` (it dies there), `Exit`, `Rot` (the medium damages a cell). |
| `GrpcPort` | `GrpcBrokerPort`, `GrpcResultChannel`, `EndpointRing` | `call` ↔ the call each handle has in progress, with the endpoint it is at; `active` ↔ `active_index`; `table` ↔ `leases_`. The cluster (`tasks`, `leader`, `believes`, `stored`) is external: it is what the client's code and comments say of it. Requests and replies get lost, nodes crash and come back, leaders change. |
| `GpuPrograms` | the host functions of `gpu/*.cu` | One operator per bridge: its runtime calls in order, what each reads and writes, what its two release ladders name, which buffers the header promises. No state. |
| `GpuCall` | those functions being run | `call` ↔ a thread's activation: position, device and host buffers it holds, what has been written, what has been copied back. `lastError` ↔ CUDA's error of the thread, `locked` ↔ the process's page-locked ranges. Every step may fail. |
| `BlockKernels` | the kernels that use `__syncthreads` | One program per kernel, `pc` per thread; `log` ↔ who touched which cell since the last barrier; sums are bags of terms, so a sum that misses or repeats a term differs. |

`Wavefront` and `SgeeRun` both implement `TaskRun` under a refinement mapping
(`ImplementsTaskRun`), so "distributed equals local" is one specification to which both conform.
`InProcessMemo` and `FileMemo` both implement `MemoTable` (`IsMemoTable`). All four refinements are
model-checked and proved. `SgeeRun`'s
broker steps *are* `Broker`'s actions. `GpuCall` runs the programs of `GpuPrograms`.

Every `MC*.tla` gives one of them small constants; the operators named `...Late`,
`...Unsettled`, `...OffByOne` and so on, each marked *Mutant of*, are plausible bugs: putting
one in place of the definition it names must break the property `PROJECT.json` pairs it with.
`*_proofs.tla` hold the proofs.

### Atomicity and abstraction

* A locked section is one action: `FakeBrokerPort`, the memo shards and the in-memory channel
  hold a mutex for each call. Between two calls anything may happen.
* `Wavefront`: a task's body runs between `BeginTask` (reads its inputs) and `FillSlot`. Task
  bodies are pure (the contract at `taskdag.cppm:58-60`), so `Invoke(body, args)` is a function;
  the runs take it injective on argument lists, so a swapped or stale argument shows.
* `SgeeRun` lets the dispatch loop take the tasks of a level in any order, which includes the
  cost order as well as issuance order. `content_key` is an arbitrary function: the runs make
  *every* pair of keys collide. A run without a memo is one whose lookups all miss and whose
  publishes are all refused. A port call that fails is `Abort` for the coordinator; for a pump
  it is `Abandon` (died, or the call never arrived). Whichever way `run` leaves its loops after
  the pump threads were started, it is `returning` or `aborting`: the stop flag is up, each thread
  finishes what it has in hand and looks at the flag (`LooksAtStop`; one that was past its last look
  may take one more lease), and `Join` waits for all of them. In that phase the clock, the channel
  and the pumps of other processes are not followed: nothing reads what they do. A consuming read whose reply is lost, or a
  failed-over node, is `LoseResult`.
* `FileMemo`: one action per call, since every call holds the mutex, except that a publish may
  stop inside its write. A record is a header cell, the cells of its value and a checksum cell;
  the checksum is perfect: cells are accepted exactly when they are some record's image.
* `GrpcPort`: an attempt of a call is a request that is served or lost and a reply that arrives
  or is lost; between attempts the ring may have been turned by the process's other handle. The
  retry budget is not a clock: a call that the code would give up after 5 s may go on, or, for
  the safety properties, stop at any point.
* `GpuCall`: a runtime call is one action, with its failing twin. A copy that the code skips
  because its array is empty counts as done. Loops and branches on values the host computed may
  go either way. `Decline` stands for rejected arguments and empty inputs.
* `BlockKernels`: a statement is one step of one thread, a barrier one step of all. The elements
  of an array that one thread owns are one cell. Of numbers only what decides branches is kept.
* The encoded task is a sequence of version, registry fingerprint, op id and arguments, with
  the routing tag at the end in version 2; the bytes themselves are not modelled.

## 3. Runs

| run | question | bounds |
|---|---|---|
| `task_graph` | Does any sequence of builder calls keep the graph acyclic, tight and partitioned? | 3 tasks, dependency lists of length ≤ 2 that reach one past the last task; 4 op ids, two of them malformed. Depth 2, diamonds, duplicates and rejected calls all occur. |
| `wavefront` | Do the executors agree with the reference under every interleaving? | all 3-task graphs with lists ≤ 2 × all bodies that succeed or fail two ways; a 5-task graph with two failures at different distances; NaN and overflowing hints. Three tasks give every shape of poisoning (direct, inherited, two origins); five add a poisoned task with a nearer failure that has the larger id. |
| `broker` | Fencing, attempts, verdicts | 2 tasks, one tagged; up to 2 attempts each; any client presents any lease it ever had; clock 0..3 with leases of 1 and 2; one fault. Two attempts are what it takes for a stale lease to exist; two tasks, to mix them up. |
| `sgee_run` | Twins, a pump of a foreign registry, expiry, late puts, recovery, memo contents, termination | per graph: two twins with a task on top (2 attempts); two twins alone, and failing twins with a task on top (2 attempts, 1 recovery); two distinct tasks, one routed by a tag (memo empty, filled, corrupt; dedup on and off); a graph that is not registered; the empty one. 2 pumps: a thread of the run, and one of another process with another registry. All hashes collide. |
| `late_put` | *violated*: is a committed result stable? | as `sgee_run` |
| `in_process_memo` | Linearizability and overshoot of the sharded table | 3 threads on 2 shards with room for 2 entries; 5 keys: two share a whole fingerprint, one only their bucket, two live in the other shard; 4 calls. More threads than shards tell the two terms of the overshoot's bound, `min(shards, threads) - 1`, apart, and it is reached. Threads are symmetric. |
| `file_memo` | Is the log one table through crashes, failed writes and reopening? What does damage cost? | 2 keys with one fingerprint; a value without cells and one with two, so that a record is overlaid by a shorter one; 4 calls, 3 opens, one torn or failed write, one damaged cell |
| `grpc_port` | Retries, redirects and lost replies | 3 nodes, so that a hint may name neither the leader nor the endpoint that failed, and a majority is left when one stays down; one process with its port and its channel; 2 tasks, 2 leases, 1 read, one loss, crash or election. One fault is what separates a call from its retry; two leases make a table entry stale. The local halves of the tokens are distinct. |
| `grpc_consume` | *violated*: is an absent result absent? | 1 endpoint (results are consumed as they are read), 2 reads |
| `gpu_call` | Leaks, uninitialised reads, missing results | all 31 bridges, each called by one thread; two workloads of two threads on arrays in common. The failures are not bounded. |
| `gpu_error` | *violated*: is a return code the call's own? | two calls of `poly_eval` by one thread |
| `gpu_block` | Races, barriers, sums, reports | blocks of 2 and 4 threads; 3 outer and 3 inner iterations; the damping gives up when raised 3 times; 2 systems per block; segments of 2 paths; transforms of 1 to 8 samples. Terms below, at and above the number of threads. The fit with 4 threads, at one outer and two inner iterations, was checked once as well. |

Deadlock is checked in every run. `Done` and `Ended` are the stutters of a finished system.

**Bounds by name.** `MaxTasks`, `MaxOpIdLen` (`TaskGraph`); `MaxQids`, `MaxNow`, `MaxFaults`
(`Broker`; `SgeeRun` sets `MaxQids` to the number of dispatches its recoveries allow, so this one
never cuts a behaviour off); `MaxCalls` (`InProcessMemo`); `MaxCalls`, `MaxRuns`, `MaxTorn`,
`MaxRot` (`FileMemo`); `MaxQids`, `MaxGrants`, `MaxFaults`, `MaxGets` (`GrpcPort`). `MaxOpIdLen`
is the code's 256 bytes, 7 in the runs so that ids of that length occur. `SgeeRun`'s runs have
leases of one tick and a clock that stops at 1: a lease granted at 0 expires once, which is what
makes a pump stale; leases granted after that do not expire in the instance. `MaxIter`,
`MaxInner`, `Huge`, `Systems` and `SegPaths` (`BlockKernels`) are the code's own parameters or
constants made small; `GpuCall` has no bound besides its workloads.

**Fairness.** `Wavefront`: weak fairness of its steps. The calling thread blocks until the
fan-out has run every index (`parallel.cppm:75`), and TBB, PPL and the serial fallback all run
what they were given. `SgeeRun`: weak fairness of the coordinator's own steps (its thread is not
suspended for ever), *strong* fairness of `Deadline` (the action is looked at in every round, and
`steady_clock` passes any deadline, so a run that polls for ever would see it), and weak fairness
of `Works(w)` for each pump thread of the run. The last is an assumption on the user's operations
and on the port, not something the code enforces: `~PumpGuard` joins its threads
(`taskdag_sgee.cppm:1764-1769`), and nothing bounds the call of the operation (1658) or of the
port, so an operation that never returns keeps `run` from returning long after `run_deadline_ms`.
That the coordinator's own port calls return is part of its fairness. Nothing is assumed of pumps
of other processes, broker clock or channel: with `num_workers` 0 (`Own` empty) and every worker
gone the run still ends.
`GrpcPort`: weak fairness of a call's own steps (the thread making it runs), and of the cluster,
which is external, that it elects a leader when a majority is up, that the leader's heartbeats tell
every node that is up (`Learn`), and that a crashed node comes back when no majority is left
(`Rescue`); with a majority up a crashed node may stay down. The code's retry loop is made for
exactly that: it waits out an election instead of failing. `Learn` is needed: with three nodes, two
that go on naming a leader of the past send the ring back and forth between themselves
(`sgee_backend_grpc.cpp:193-201` leaves the hinted endpoint only for the next in order), and the
third, which leads, is never tried. Losses are bounded by `MaxFaults`, so from some point on
requests and replies arrive; nothing is assumed about the order in which port and channel turn the
ring. The memos, the broker
and the GPU modules have no liveness of their own; `gpu_call` and `gpu_block` check deadlock.

### What the properties say

* `TaskGraph`: `DepsPrecede`, `WavefrontIsTight`, `LevelsPartition`.
* `Wavefront`: `OutcomesConsistent` (every written outcome is the one its dependencies' *final*
  outputs give), `NothingStale`, `MatchesReference`, `OrderIsTotal`, `ImplementsTaskRun`,
  `Termination`.
* `Broker`: `FencedCommit`, `LivesAccounted`, `NoEarlyReclaim`.
* `SgeeRun`: `ImplementsTaskRun`, `OriginsSound`, `InFlightAccounted`, `ResultsBelong`,
  `CompletedHasResult`, `MemoSound`, `Termination`.
* `InProcessMemo`: `IsMemoTable`, `BoundedOvershoot`.
* `FileMemo`: `IsMemoTable`, `ServesOnlyOffered`, `IntactPrefixSurvives`.
* `GrpcPort`: `HolderCanFinish`, `OkIsCommitted`, `WasteIsLostReplies` (orphan tasks and spent
  lives number at most the losses), `HeldUntilDelivered`, `EveryCallReturns`.
* `GpuCall`: `ReturnsClean`, `PinsAreKept`, `ReadsAreReady`, `OkDelivers`, `ResidIsOfX` (the
  residual a solver reports was computed from the x it returns, on each of its exits).
* `BlockKernels`: `NoRace`, `NoDesync`, `ReductionsAreComplete`, `ReportedOnce`.

### Findings

1. **Late put** (`late_put`). The result channel is unfenced, "safe only because ops are
   deterministic (the retry republishes identical bytes)". A pump of another registry puts a
   `bridge_error`, which is not the same bytes: if its lease has expired, it replaces the answer
   another pump has put *and committed*, and the run aborts on a task that was completed.
   `sgee_run` shows that this is the worst that happens: no wrong output is returned.
2. **Consumed, not delivered** (`grpc_consume`). With one endpoint, reads consume. A read that
   was served but whose reply was lost is retried, and finds "genuinely absent" what the node
   has just handed out (`sgee_backend_grpc.cpp:692`). With `max_result_recoveries` at its default
   of 0, a run whose tasks all succeeded aborts. With more endpoints nothing is consumed, and
   `HeldUntilDelivered` holds.
3. **Somebody else's error** (`gpu_error`). Launches are checked with `cudaGetLastError`, which
   returns what *any* earlier call of the thread left behind. A `cudaMalloc` that failed returns
   its own code, but leaves the error set; the next bridge called on this thread then fails at
   its first launch although all its own work succeeded (`gpu_kernels.cu:508`), unless a
   page-locked range or a failed attribute query happens to clear the error in between.

Smaller observations, each reproduced by changing one constant of a run, or by reading:

* `FileMemo` (`memo_dist.cppm:856`): a publish that fails after part of its record was written
  leaves those bytes behind the append cursor. A *shorter* record written there next may leave
  the rest of them on a record boundary; if the failed value contains the image of a record, the
  next open indexes it. `create` cuts damaged tails for this very reason ("Truncation removes
  that class entirely", `memo_dist.cppm:639-644`). With `Values = {"short", "copy"}`,
  `Keys = {1, 3}`, `Bounds = {3}`, `file_memo` violates `IsMemoTable`. The run's own values do not
  contain images.
* `FileMemo` (`memo_dist.cppm:718`): a log opened with a smaller `max_value_bytes` is cut at the
  first larger record, although it is healthy. With `Bounds = {0, 2}`, `file_memo` violates
  `IsMemoTable`.
* Heartbeat (`taskdag_sgee.cppm:482`): `heartbeat` *replaces* the deadline by now + 10 s when it is
  passed 0, as `run_worker_pump` does; on a lease of the default 30 s, an early heartbeat
  shortens the lease, whereas code and test speak of extension. No property would catch it:
  `NoEarlyReclaim` compares with the deadline as it stands.
* Op ids (`taskdag.cppm:72-73`, `127-130`): the registry only asks that some dot stands before
  the version mark, so `./v0`, with neither domain nor operation, registers, although the
  comments promise that `<domain>.<op>/v<N>` is enforced.

## 4. Proofs

Everything in this section is checked by TLAPS for every value of the constants. TLC checked the
statements, and the inductive invariants it can evaluate, before they were proved; those of
`BlockKernels` and of `GpuCall`'s data flow speak of certificates, which TLC cannot enumerate.

### Assumptions

The modules name what they assume of their constants, and TLC evaluates it in every run:

* `OpIdAssumption`, `DepListAssumption`: callers pass sequences, bounds are naturals.
* `GraphAssumption`: a graph is one `TaskGraph` can build; `BuiltGraphsAreTaskGraphs` establishes it.
* `RunAssumption`: a registered op has one body, argument lists are lists, a tag is one cell or
  none, a pre-filled memo holds a key's own answer or something that does not decode.
* `BrokerAssumption`, `GrpcPortAssumption`, `MemoAssumption`: bounds, timeouts, limits and hashes
  are naturals, there is a node, a thread, and a life to spend.
* `CostAssumption`: NaN is no number, the two caps are naturals.
* `FileMemoAssumption`: a value is a sequence of cells, none of which is a damaged one; a cell
  that looks like a record's head is the head of some record.
* `GpuAssumption`: each bridge names in its release ladders what its steps acquire.
* `BlockAssumption`: there are naturally many systems, and a segment has a path at least.

Some theorems have a hypothesis of their own, because the code does not guarantee it and the
statement is false without it, or because it describes code outside the model. The constants of
the runs satisfy each of them:

* `InvokeYieldsResults`: a task's body returns a value or an error. (`TaskFn` returns a
  `Result<Value>`; what the model invokes is a constant.)
* `LocalTellsLeases`: a lease's local token, which is all `GrpcBrokerPort`'s table is keyed and
  compared by, differs from those of other leases of the same task.
* `Programs \subseteq Bridges`: the threads call the functions of `gpu_bridge.h`, and no others.
* `~Consume`: the result channel has more than one endpoint, so `consume_on_get_` is off. With one
  endpoint the two statements fail: finding 2.
* `NoCopies`, `NoHeads`: values do not embed record heads and checksums (`NoCopies`: not both of
  one record; `NoHeads`: no head at all). `publish` does not look at the bytes it is given: the
  first observation under Findings shows what a value with a record's image does.
* `KernelsOfCode`: a block runs one of the modelled kernels, with a power of two of threads (the
  reductions halve a block until one thread is left), or transforms a power of two of samples; counts
  of terms, paths, options, blocks and systems are any. The code launches 256 threads and its hosts
  refuse other lengths of transform.
* `OneBound`: every open of a log gives the same `max_value_bytes`; the second observation shows
  what a smaller one does.

### What is proved, and how

* **`Wavefront_proofs`, the graphs**: `GraphTypeCorrect`, `Acyclic`, `Tight`,
  `LevelsAreAPartition`, `NamedBodies`, `BuiltGraphsAreTaskGraphs`. The module extends `TaskGraph`
  as well as `Wavefront`, which is why the former calls its specification `GraphSpec`. The invariant (`GraphInv`) is the conjunction of the five and of `DepthBound` (no task is
  deeper than its id), since none is inductive alone: an append is tight only if the old depths
  are, and its level exists only if no level below it is empty. `AppendTaskEffect` states what one
  append does to the tables, once for `AddTask` and `AddNamedTask`; each conjunct is then one lemma
  about that effect. `BuiltGraphsAreTaskGraphs` closes the gap between builder and executors: whatever
  calls were made, the graph as an executor takes it is an `IsTaskGraph`, which is what every theorem
  about `Wavefront` and `SgeeRun` assumes of its graphs.
* **`Wavefront_proofs`, the executors**: `TypeCorrect`, `Consistent` (`OutcomesConsistent`), `NoStaleOutcome`
  (`NothingStale`), `Determinism`, `LevelOrderIsTotal` (`OrderIsTotal`), `ImplementsRun`
  (`ImplementsTaskRun`), `MatchesReferenceAlways` (`MatchesReference`).
  The strengthening adds `LoopOK` (which tables are empty in which phase) and `OriginsBelow`: the
  origin of a failed task is a settled task with no larger id and depth, so what `run_or_poison`
  reads (`ReadsOnly`) lies in lower levels, which no step of this level writes. `Determinism` says
  the result of a finished run is the *only* assignment of outputs and origins that satisfies
  `run_or_poison` at every task. `ImplementsRun` uses the same locality: a step of the run settles
  the tasks it writes in an order that puts dependencies first. `MatchesReferenceAlways` is about
  the recursive reference. That its functions `Ancestors` and `OwnResult` satisfy their own
  equations is proved by a task of least id at which they would not, the equations then say that
  an executor's outputs are the reference's (`CleanIffDepsOk`), and `CountExact` that `executed`
  counts the tasks all of whose dependencies succeeded. `LevelOrderIsTotal`: whatever the hint, the
  sanitized cost is an integer, so the comparator is a lexicographic order with the id last.
* **`Broker_proofs`**: `TypeCorrect`, `Fencing`, `FreshTokens`, `LivesNeverOverdrawn`,
  `VerdictsAreFinal`, `LeasesAreKept` (`NoEarlyReclaim`). The invariant adds that the set of leases
  is finite; `LivesAccounted` counts it. `fail`, `heartbeat`, the sweep, the clock and faults are
  covered by one lemma about steps that keep an entry, move its deadline or release it (`Kept`).
* **`SgeeRun_proofs`**: `ResultsBelongAlways`, `CompletedHasResultAlways`, `OriginsSoundAlways`,
  `InFlightAccountedAlways`, `MemoSoundAlways` and `ImplementsRun`: for every graph, any number of
  pumps of any registries, any deaths, late puts, expired leases, lost results, recoveries, memo
  contents and collisions of content keys, a run that returns `ok` has settled every task with the
  outcome of a serial run. Two invariants are stacked. `ChannelInv` is about the cluster alone: the
  queue's entries are tasks of this run (`QueueOK`), a pump's lease and the answer it holds belong
  to its qid (`PumpsOK`), and the channel has nothing else; since a pump may put after its lease
  has expired, this must say what *any* pump of a qid would put. `IInv` adds the coordinator's
  tables. `SettledOK`: all levels below the current one are settled, none above it, and each settled
  outcome is `run_or_poison`'s on the outputs as they are (with `OriginsBelow`, as above).
  `TableInv`: every pending qid carries the bytes of its task, a twin is an alias of a pending
  task with the same *bytes* and not only the same key, no task is in flight twice, and at each
  program counter the handled tasks are exactly those settled or in flight. `MemoOK`: a memo entry
  is its key's answer or does not decode. A recovery re-enqueues what `PendingOK` says is this
  task's, so the new qid falls under `QueueOK` again.
* **`GrpcPort_proofs`**: `OkIsCommittedAlways`, `WasteIsLostRepliesAlways`,
  `HolderCanFinishAlways`, `HeldUntilDeliveredAlways`, and `AbsentIsGenuineAlways`, the property that
  `grpc_consume` violates: with consuming reads off it holds, so these alone are the cause. For any
  number of processes, nodes, leases, losses, crashes and elections. `IInv` says of every call in
  progress what its request may already have done at the cluster (`AckedOK`, `LeasesOK`) and counts
  orphan tasks and spent lives against the losses *and* the calls whose reply is still due;
  `WasteIsLostReplies` is what remains when none is. `HolderInv` follows a lease from the grant
  through the reply into the table of the right port, and says that no call still under way is
  about to erase it (`EndsCarryEnded`). With one endpoint the ring never turns (`OneEndpoint`).
* **`InProcessMemo_proofs`**: `BoundedOvershootAlways` and `ImplementsMemoTable` (`IsMemoTable`), for
  any number of threads, shards and entries and any collisions of fingerprints. The relaxed read is
  coherent: a thread that has seen a full table never sees a smaller count again, nor does one that
  takes a mutex whose last holder had. `CapacityOK` therefore counts the late threads and the late
  shards: those that inserted into a full table cannot do so again, so the entries beyond the bound
  are fewer than both. `MutexOK` adds that two threads about to insert hold different shards, and
  that what they insert is still absent.
* **`FileMemo_proofs`**: `ServesOnlyOfferedAlways` (with `NoCopies`, *any* bounds),
  `IntactPrefixSurvivesAlways` (with `OneBound`, *any* values), `LogIsMemoTable` (`IsMemoTable`, with
  `OneBound` and `NoHeads`), for any keys, fingerprints, values, crashes, failed and torn writes.
  `create`'s scan is a recursive function of the file; `ScanDefined` and `ScanChain` show that it
  is well defined and returns a chain of records, each starting where the last ends; `RecStays` and
  `SameBelow` that a record depends on its own cells only, so what happens behind the cursor leaves
  the chain before it alone. `ServesOnlyOffered` rests on `Traced`: every head and checksum in the
  file is a cell of a record handed to `publish`, or of a value. `IntactPrefixSurvives` rests on
  `IntactInv`: an acknowledged record without damage before it is its key's first on the chain that a
  load would find, and the open object's index lists it and, before it, records only. The refinement
  maps the abstract table to *what the next load would find*. Its hard step is a torn or failed
  write: `TailInv` says that behind the cursor there is at most one head, right at the cursor, so a
  reopen finds one record more or none (`Reveal`), and that record is an abstract `Store` which
  reports failure.
* **`GpuCall_proofs`**: `PinsStay` (`PinsAreKept`) and `NothingLeaks` (`ReturnsClean`), for any
  number of threads, any workloads and any bridges that meet `GpuAssumption`, whichever steps
  fail; TLC evaluates that assumption on all 31. The invariant says that before the ladders run,
  a call holds no more than they name; while the second runs, what is still registered is *ahead*
  of its position; that every locked range belongs to exactly one call that holds it; and that no
  range has two owners. The last two are what makes `Unregister` harmless to other threads: `PinsAreKept` alone is not
  inductive, since a range with two owners could be dropped by one of them.

  `ReadsAreReadyAlways`, `OkDeliversAlways` and `ResidIsOfXAlways`, for any threads and workloads
  over the 31 bridges, and any passes of their loops. What a call may rely on at a position of its
  bridge is a record of sets (`At`): memory it holds, memory with contents, results downloaded since
  they were last written, memory that follows from the current x, and memory that may follow from
  an earlier one. A bridge is `Sound` if it has a certificate (`Cert`): one such record per position
  and per label, where each step finds what it reads and leads to the next record, a jump may lose
  knowledge but never gain it, and the last record has the results and the residual. `FlowInv`: a
  running call is as its position's record says, at least. It is inductive whatever the bridges
  (`FlowHeld`), so the rest is a certificate each. They are put together from pieces (`PathCat`): a
  ladder around one kernel has one whatever its arrays (`LadderFlows`, `KernelLadder`), which covers
  most bridges; those with two kernels, the simulations, the search, the captured graph, the LSM
  regression and the solvers need a middle of their own. In the loops of BiCGSTAB and GMRES a label
  is reached with residuals of this x and of earlier ones, so the certificate claims nothing of
  the kind there; what makes their residual right is that every exit leads to its recomputation
  (`TrueResidualPath`, `SolverSound`), which reads only x, b and the matrix before it writes.

* **`BlockKernels_proofs`**: `Race` (`NoRace`), `Desync` (`NoDesync`), `Reductions`
  (`ReductionsAreComplete`), `Reporting` (`ReportedOnce`), for every kernel with a barrier, any power of
  two of threads and data of any size, under every interleaving.

  The properties are not inductive: that no thread races depends on where all the others may be. The
  invariant compares the threads with one sequence of control states. A *certificate* of a kernel says
  for each position of its body which cells may have been touched since the last barrier, by anybody
  (`open`) or by their owner alone (`shut`), who owns which cell until the next barrier, whether the
  threads' registers agree, what has been reported, and which sums are complete. `Lockstep`: there is
  a path of control states from the last barrier, computed from the words as they were then, and every
  thread is at one of its states. A statement may read only what no thread may be writing, so a slow
  thread still finds the words and sums a fast one found: it takes the same branches (`NoDesync`), its
  accesses meet nobody's writes (`NoRace`), and what it adds up is what the certificate says
  (`ReductionsAreComplete`). `RepOK` follows thread 0's reports (`ReportedOnce`). `Invariance` is that
  induction, whatever the kernels, provided each has a certificate.

  The rest gives each its certificate. Paths are put together (`PathCat`), labels and jumps included.
  In the tree, thread j holds the terms of the threads congruent to j at that stage, for every power of
  two. `Strided`, `GridStrided` and the segments of paths are shown to hand out each term once, and the
  solvers' statements are one lemma each. For the transform, `ReverseTwice` says that bit reversal is
  its own inverse, so the scatter loses no sample; after the stages up to length `len`, cell p holds element
  p mod len of the transform of the samples that agree with it in the remaining bits (`Placed`); the
  butterfly joins two such cells into two of the next stage (`ButterflySums`), and after the last the
  cells are `Transform`, the definition of the DFT over powers of w.

`NamedBodies`, `FreshTokens`, `VerdictsAreFinal` and `Wavefront`'s `TypeCorrect` and `Determinism`
state formulas no passing run lists as its property; they were checked by TLC before they were
proved.

### Only model-checked

* Liveness (`Termination`, twice, and `EveryCallReturns`), which the prover does not reach.
  `EveryCallReturns` was also checked for enqueues alone with 3 and 4 nodes and two faults.
* That each bridge meets `GpuAssumption`, which TLC evaluates on all 31. For those written with
  `Ladder`, whose releases are derived from the acquisitions, its release part holds by
  construction and says nothing of the code; the rest of it does.
* The three violations under Findings.

## 5. Not modelled

* `FakeBrokerPort`'s test hooks `force_state` and `set_time_ms`, which put it in states no client
  reaches; measured seconds and the cost tables learnt from them; affinity tables; WAL files; the
  `MemoStats` counters, which decide nothing.
* The exception path of the thread pool: task bodies report errors as values.
* Byte layouts, checksums and malformed envelopes beyond "does not decode" or "does not verify".
* Periods: the heartbeat's, the poll interval, the 5 s retry budget. `Beat` may come at any time
  or never, and a retry may too.
* The C API transport and the stubs: thin layers that forward or refuse each call.
* CUDA faults that are reported asynchronously and poison the whole context, and `cudaFree` that
  fails: nothing the bridges do afterwards has a defined effect.
* Kernels without a barrier: one thread computes one result, nothing is shared. What kernels
  compute beyond which terms enter a sum.
* `PostgresMemo` (its atomicity is that of one SQL statement of an external database), `ExprMemo`,
  the distributed and in-process solvers: see the plan.
* Algebra, numerics, simulation, SIMD, bindings, rendering: pure functions or I/O.

## 6. Plan

In order of importance:

1. A timed module of `LeaseHeartbeat` (period, extension, slow call) over `Broker`'s deadline.
2. `GrpcPort` under `SgeeRun`: a coordinator and a pump whose broker calls are those of two rings.
3. `ExprMemo` (compute outside the lock) and `PostgresMemo` (pool), both against `MemoTable`.
4. Partition and merge of `csp_dist` and `sat_dist`; the relaxation rounds of `search_dist`.

## 7. Running

    tlc -workers 2 -config MCBroker.cfg MCBroker
    tlapm Broker_proofs.tla

Each run takes from a few seconds to about two minutes.
