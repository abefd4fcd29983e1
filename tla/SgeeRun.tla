------------------------------- MODULE SgeeRun -------------------------------
(***************************************************************************)
(* SgeeDistributedExecutor::run with the worker pumps that serve it: the   *)
(* coordinator walks the levels of a graph, short-circuits tasks it can    *)
(* answer (poisoned, identical to one already dispatched, found in the     *)
(* memo), enqueues the rest at the broker and polls until the level has    *)
(* drained.  Pumps lease a task, run its operation, put the result in a    *)
(* channel that knows nothing of lease tokens, and complete the lease.     *)
(*                                                                         *)
(* The broker is module Broker; a port call that fails has no effect here  *)
(* (see Abort and Drop), so its fault counters stay at zero.               *)
(***************************************************************************)
EXTENDS TaskSemantics

CONSTANTS
    Workers,         \* the pumps
    Own,             \* those that are threads of run() itself; the others are
                     \* pumps of other processes on the same queue
    Registry,        \* op id -> body, the coordinator's TaskRegistry
    Fingerprint(_),  \* registry fingerprint of a pump; Mine is the coordinator's
    Mine,
    FilterOf(_),     \* WorkerPumpConfig::payload_filter
    NoOp,            \* op id of a task added without a name
    content_key(_),  \* 128-bit hash of an encoded task: may collide
    Memos(_),        \* contents the memo may have when the run of a graph starts
    Dedups(_),       \* settings of dedup_identical_tasks for it
    MaxRecoveries(_),\* max_result_recoveries for it
    MaxAttempts(_),  \* max_attempts of its tasks
    LeaseTimeout, DefaultExtend, \* visibility timeout; heartbeat extension
    MaxNow           \* bound: the broker's clock

VARIABLES
    \* run()
    dedup, lvl, outputs, origins, executed,
    pc,        \* where the coordinator is
    handled,   \* tasks of the level the dispatch loop is done with
    index,     \* run_index: set of [id, key]
    dispatched,\* dispatched_this_level
    aliases,   \* pending_aliases: set of <<alias, twin>>
    pending,   \* pending_tasks: qid -> [id, key, recoveries]
    todo,      \* qids this polling round has not looked at
    \* shared with others
    memo,      \* DistributedMemo: key -> envelope
    results,   \* ResultChannel: qid -> envelope
    lost,      \* history: qids whose result was dropped
    wk,        \* pump -> what it is doing
    threads,   \* PumpGuard: the Own pumps whose thread has not ended
    \* the broker
    entries, nextQid, nextToken, now, leases, commits

runVars == <<g, dedup, lvl, outputs, origins, executed, pc, handled, index,
             dispatched, aliases, pending, todo>>
brokerVars == <<entries, nextQid, nextToken, now, leases, commits>>
vars == <<runVars, memo, results, lost, wk, threads, brokerVars>>

B == INSTANCE Broker WITH
        faults <- [op \in {"enqueue", "lease", "complete", "fail", "heartbeat",
                           "sweep", "state"} |-> 0],
        Payloads <- {}, Filters <- {}, AttemptLimits <- {}, Timeouts <- {},
        DefaultMaxAttempts <- 3, DefaultTimeout <- LeaseTimeout,
        MaxFaults <- 0, MaxQids <- g.n * (1 + MaxRecoveries(g))

Put(f, k, v) == [u \in DOMAIN f \cup {k} |-> IF u = k THEN v ELSE f[u]]
Drop(f, k) == [u \in DOMAIN f \ {k} |-> f[u]]
NoneYet == [k \in {} |-> {}]

-----------------------------------------------------------------------------
(* Envelopes.  An encoded task is a sequence: version, fingerprint, op,      *)
(* arguments; version 2 carries a routing tag behind them.                   *)

encode_task(t) == <<1, Mine, g.op[t]>> \o Args(t, outputs)

with_routing_tag(key, tag) == IF tag = <<>> THEN key ELSE <<2>> \o Tail(key) \o tag

without_routing_tag(wire) ==
    IF wire[1] = 2 THEN <<1>> \o SubSeq(wire, 2, Len(wire) - 1) ELSE wire

BridgeError == [status |-> "bridge_error"]

ToEnvelope(res) == IF res.ok THEN [status |-> "ok", val |-> res.val]
                             ELSE [status |-> "math_error", err |-> res.err]

FromEnvelope(env) == IF env.status = "ok" THEN [ok |-> TRUE, val |-> env.val]
                                          ELSE Error(env.err)

is_memoizable_status(s) == s \in {"ok", "math_error"}

\* What the operation named by an encoded task yields.
Answer(key) == ToEnvelope(Invoke(Registry[key[3]], SubSeq(key, 4, Len(key))))

\* A pump's reply: it refuses tasks of another registry.
Reply(w, wire) ==
    LET key == without_routing_tag(wire)
    IN  IF key[2] # Fingerprint(w) \/ key[3] \notin DOMAIN Registry
        THEN BridgeError ELSE Answer(key)

\* A task's body is the operation of its name, its literals are a list, and it
\* has one routing tag at most; what a memo holds at the start of a run has
\* been put there by runs like this one, or is not usable.
ASSUME RunAssumption ==
    \A gr \in Graphs :
        /\ Dedups(gr) \subseteq BOOLEAN
        /\ \A t \in TaskIdsOf(gr) :
              /\ gr.op[t] \in DOMAIN Registry => gr.body[t] = Registry[gr.op[t]]
              /\ LET lit == gr.literals[t]
                 IN  lit \in Seq({lit[i] : i \in DOMAIN lit})
              /\ gr.tag[t] = <<>> \/ gr.tag[t] = <<gr.tag[t][1]>>
        /\ \A m \in Memos(gr) : \A key \in DOMAIN m :
              is_memoizable_status(m[key].status) => m[key] = Answer(key)

\* Pump threads of the run are given the coordinator's registry.
ASSUME OwnAssumption ==
    Own \subseteq Workers /\ \A w \in Own : Fingerprint(w) = Mine

-----------------------------------------------------------------------------
Init ==
    /\ g \in Graphs /\ dedup \in Dedups(g)
    /\ lvl = 0 /\ executed = 0 /\ pc = "preflight"
    /\ outputs = [t \in TaskIds |-> [ok |-> TRUE, val |-> Empty]]
    /\ origins = [t \in TaskIds |-> None]
    /\ handled = {} /\ index = {} /\ dispatched = {} /\ aliases = {}
    /\ pending = NoneYet /\ todo = {}
    /\ memo \in Memos(g) /\ results = NoneYet /\ lost = {}
    /\ wk = [w \in Workers |-> NoneYet] /\ threads = {}
    /\ entries = NoneYet /\ nextQid = 0 /\ nextToken = 0 /\ now = 0
    /\ leases = {} /\ commits = {}

Outside == UNCHANGED <<results, lost, wk, threads>>

Unregistered == \E t \in TaskIds : g.op[t] = NoOp \/ g.op[t] \notin DOMAIN Registry

\* Every task must be named and registered before the transport is opened and
\* the pump threads are started.
Preflight ==
    /\ pc = "preflight"
    /\ pc' = IF g.n = 0 THEN "returned" ELSE IF Unregistered THEN "aborted" ELSE "dispatch"
    /\ threads' = IF pc' = "dispatch" THEN Own ELSE {}
    /\ UNCHANGED <<g, dedup, lvl, outputs, origins, executed, handled, index,
                   dispatched, aliases, pending, todo, memo>>
    /\ UNCHANGED <<brokerVars, results, lost, wk>>

\* Mutant of Apply: the origin of a failure is not recorded.
ApplyNoOrigin(t, res) ==
    /\ outputs' = [outputs EXCEPT ![t] = res]
    /\ UNCHANGED origins

\* A result becomes the output of a task; a failing task is its own origin.
Apply(t, res) ==
    /\ outputs' = [outputs EXCEPT ![t] = res]
    /\ origins' = [origins EXCEPT ![t] = IF res.ok THEN None ELSE t]

\* The dispatch loop takes the level in issuance or cost order: any order.
Dispatching(t) ==
    /\ pc = "dispatch" /\ t \in Level(lvl) \ handled
    /\ handled' = handled \cup {t}
    /\ UNCHANGED <<g, dedup, lvl, executed, pc, todo>> /\ Outside

Poison(t) ==
    /\ Dispatching(t) /\ FailedDeps(t, outputs) # {}
    /\ LET best == CHOOSE o \in {origins[d] : d \in FailedDeps(t, outputs)} :
                      \A d \in FailedDeps(t, outputs) : o <= origins[d]
       IN  /\ outputs' = [outputs EXCEPT ![t] = Error(outputs[best].err)]
           /\ origins' = [origins EXCEPT ![t] = best]
    /\ UNCHANGED <<index, dispatched, aliases, pending, memo>>
    /\ UNCHANGED brokerVars

Runnable(t) == Dispatching(t) /\ FailedDeps(t, outputs) = {}

\* Mutant of find_identical_task: the hash is taken for the bytes.
find_identical_by_hash(key) ==
    {r.id : r \in {i \in index : content_key(i.key) = content_key(key)}}

\* The dispatched task with the same bytes, among those with the same hash.
find_identical_task(key) ==
    {r.id : r \in {i \in index : content_key(i.key) = content_key(key)
                                 /\ i.key = key}}

\* Mutant of CopyTwin: an in-flight twin is copied like a settled one.
CopyTwinUnsettled(t) ==
    /\ Runnable(t) /\ dedup
    /\ \E twin \in find_identical_task(encode_task(t)) :
          Apply(t, outputs[twin]) /\ UNCHANGED aliases
    /\ UNCHANGED <<index, dispatched, pending, memo>> /\ UNCHANGED brokerVars

\* A settled twin is copied at once, one in flight when the level has drained.
CopyTwin(t) ==
    /\ Runnable(t) /\ dedup
    /\ \E twin \in find_identical_task(encode_task(t)) :
          IF twin \in dispatched
          THEN aliases' = aliases \cup {<<t, twin>>} /\ UNCHANGED <<outputs, origins>>
          ELSE Apply(t, outputs[twin]) /\ UNCHANGED aliases
    /\ UNCHANGED <<index, dispatched, pending, memo>> /\ UNCHANGED brokerVars

NoTwin(t) == dedup => find_identical_task(encode_task(t)) = {}
Indexed(t) == IF dedup THEN index \cup {[id |-> t, key |-> encode_task(t)]} ELSE index

\* An entry that does not decode, or reports a bridge error, is a miss.
MemoHit(t) ==
    /\ Runnable(t) /\ NoTwin(t)
    /\ LET key == encode_task(t)
       IN  /\ key \in DOMAIN memo /\ is_memoizable_status(memo[key].status)
           /\ Apply(t, FromEnvelope(memo[key]))
    /\ index' = Indexed(t)
    /\ UNCHANGED <<dispatched, aliases, pending, memo>> /\ UNCHANGED brokerVars

\* Mutant of EnqueueTask: the dispatched bytes are kept for the key.
EnqueueTaskWireKey(t) ==
    /\ Runnable(t) /\ NoTwin(t)
    /\ LET wire == with_routing_tag(encode_task(t), g.tag[t])
       IN  /\ B!Enqueue(wire, MaxAttempts(g))
           /\ pending' = Put(pending, nextQid', [id |-> t, key |-> wire,
                                                recoveries |-> 0])
    /\ index' = Indexed(t)
    /\ dispatched' = IF dedup THEN dispatched \cup {t} ELSE dispatched
    /\ UNCHANGED <<outputs, origins, aliases, memo>>

\* Dispatch; the memo had no usable entry, or its lookup failed.
EnqueueTask(t) ==
    /\ Runnable(t) /\ NoTwin(t)
    /\ B!Enqueue(with_routing_tag(encode_task(t), g.tag[t]), MaxAttempts(g))
    /\ pending' = Put(pending, nextQid', [id |-> t, key |-> encode_task(t),
                                         recoveries |-> 0])
    /\ index' = Indexed(t)
    /\ dispatched' = IF dedup THEN dispatched \cup {t} ELSE dispatched
    /\ UNCHANGED <<outputs, origins, aliases, memo>>

AfterPoll == IF DOMAIN pending = {} THEN "drained" ELSE "round"

EndDispatch ==
    /\ pc = "dispatch" /\ handled = Level(lvl)
    /\ pc' = AfterPoll
    /\ UNCHANGED <<g, dedup, lvl, outputs, origins, executed, handled, index,
                   dispatched, aliases, pending, todo, memo>>
    /\ UNCHANGED brokerVars /\ Outside

\* Mutant of Deadline: looked at once a level, after it has drained.
DeadlinePerLevel ==
    /\ pc = "drained"
    /\ pc' = "aborting"
    /\ UNCHANGED <<g, dedup, lvl, outputs, origins, executed, handled, index,
                   dispatched, aliases, pending, todo, memo>>
    /\ UNCHANGED brokerVars /\ Outside

\* Every polling round begins by giving up when run_deadline_ms has passed.
Deadline ==
    /\ pc = "round"
    /\ pc' = "aborting"
    /\ UNCHANGED <<g, dedup, lvl, outputs, origins, executed, handled, index,
                   dispatched, aliases, pending, todo, memo>>
    /\ UNCHANGED brokerVars /\ Outside

\* Otherwise expired leases are swept and every pending task is looked at.
StartRound ==
    /\ pc = "round"
    /\ B!SweepExpired /\ pc' = "collect" /\ todo' = DOMAIN pending
    /\ UNCHANGED <<g, dedup, lvl, outputs, origins, executed, handled, index,
                   dispatched, aliases, pending, memo>>
    /\ Outside

Visit(q) ==
    /\ pc = "collect" /\ q \in todo /\ todo' = todo \ {q}
    /\ UNCHANGED <<g, dedup, lvl, handled, index, dispatched, aliases>> /\ Outside

StillOpen(q) ==
    /\ Visit(q) /\ entries[q].state \in {"pending", "leased"}
    /\ UNCHANGED <<outputs, origins, executed, pc, pending, memo>>
    /\ UNCHANGED brokerVars

\* Publishing may be refused (capacity, I/O); the first writer of a key wins.
Published(key, env) == {memo} \cup
    (IF key \notin DOMAIN memo THEN {Put(memo, key, env)} ELSE {})

\* Mutant of CollectResult: everything is published.
CollectAndPublishAll(q) ==
    /\ Visit(q) /\ entries[q].state = "completed" /\ q \in DOMAIN results
    /\ LET env == results[q]
           info == pending[q]
       IN  /\ memo' \in Published(info.key, env)
           /\ IF is_memoizable_status(env.status)
              THEN /\ Apply(info.id, FromEnvelope(env))
                   /\ executed' = executed + 1
                   /\ pending' = Drop(pending, q)
                   /\ UNCHANGED pc
              ELSE pc' = "aborting" /\ UNCHANGED <<outputs, origins, executed, pending>>
    /\ UNCHANGED brokerVars

\* A completed task whose result is there: publish it, then apply it; a
\* bridge error is neither.
CollectResult(q) ==
    /\ Visit(q) /\ entries[q].state = "completed" /\ q \in DOMAIN results
    /\ LET env == results[q]
           info == pending[q]
       IN  IF is_memoizable_status(env.status)
           THEN /\ memo' \in Published(info.key, env)
                /\ Apply(info.id, FromEnvelope(env))
                /\ executed' = executed + 1
                /\ pending' = Drop(pending, q)
                /\ UNCHANGED pc
           ELSE pc' = "aborting" /\ UNCHANGED <<outputs, origins, executed, pending, memo>>
    /\ UNCHANGED brokerVars

\* A completed task whose result is absent is dispatched anew, or the run
\* gives up.
Recover(q) ==
    /\ Visit(q) /\ entries[q].state = "completed" /\ q \notin DOMAIN results
    /\ LET info == pending[q]
       IN  IF info.recoveries < MaxRecoveries(g)
           THEN /\ B!Enqueue(with_routing_tag(info.key, g.tag[info.id]), MaxAttempts(g))
                /\ pending' = Put(Drop(pending, q), nextQid',
                                  [info EXCEPT !.recoveries = @ + 1])
                /\ UNCHANGED pc
           ELSE pc' = "aborting" /\ UNCHANGED pending /\ UNCHANGED brokerVars
    /\ UNCHANGED <<outputs, origins, executed, memo>>

Dead(q) ==
    /\ Visit(q) /\ entries[q].state = "dead"
    /\ pc' = "aborting"
    /\ UNCHANGED <<outputs, origins, executed, pending, memo>>
    /\ UNCHANGED brokerVars

EndRound ==
    /\ pc = "collect" /\ todo = {}
    /\ pc' = AfterPoll
    /\ UNCHANGED <<g, dedup, lvl, outputs, origins, executed, handled, index,
                   dispatched, aliases, pending, todo, memo>>
    /\ UNCHANGED brokerVars /\ Outside

TwinOf(t) == CHOOSE u \in TaskIds : <<t, u>> \in aliases
Aliased == {a[1] : a \in aliases}

\* The level has drained: the tasks collapsed onto a twin take its output.
SettleAliases ==
    /\ pc = "drained"
    /\ outputs' = [t \in TaskIds |-> IF t \in Aliased THEN outputs[TwinOf(t)]
                                                     ELSE outputs[t]]
    /\ origins' = [t \in TaskIds |-> IF t \notin Aliased THEN origins[t]
                                     ELSE IF outputs'[t].ok THEN None ELSE t]
    /\ aliases' = {} /\ pc' = "next"
    /\ UNCHANGED <<g, dedup, lvl, executed, handled, index, dispatched, pending,
                   todo, memo>>
    /\ UNCHANGED brokerVars /\ Outside

NextLevel ==
    /\ pc = "next"
    /\ lvl' = lvl + 1 /\ handled' = {} /\ dispatched' = {}
    /\ pc' = IF lvl + 1 < g.numLevels THEN "dispatch" ELSE "returning"
    /\ UNCHANGED <<g, dedup, outputs, origins, executed, index, aliases, pending,
                   todo, memo>>
    /\ UNCHANGED brokerVars /\ Outside

\* No transport could be made; enqueue, sweep_expired, state or try_get failed,
\* a task did not encode, a result did not decode: the run is given up.
Abort ==
    /\ pc \in {"preflight", "dispatch", "round", "collect"}
    /\ g.n > 0
    /\ pc' = IF pc = "preflight" THEN "aborted" ELSE "aborting"
    /\ UNCHANGED <<g, dedup, lvl, outputs, origins, executed, handled, index,
                   dispatched, aliases, pending, todo, memo>>
    /\ UNCHANGED brokerVars /\ Outside

\* Whichever way run() leaves its loops, ~PumpGuard has raised the stop flag and
\* joins the pump threads first.
Join ==
    /\ pc \in {"returning", "aborting"} /\ threads = {}
    /\ pc' = IF pc = "returning" THEN "returned" ELSE "aborted"
    /\ UNCHANGED <<g, dedup, lvl, outputs, origins, executed, handled, index,
                   dispatched, aliases, pending, todo, memo>>
    /\ UNCHANGED brokerVars /\ Outside

Running == pc \notin {"returned", "aborted"}
Stopping == pc \in {"returning", "aborting"}

Coordinator ==
    \/ Preflight \/ EndDispatch \/ StartRound \/ EndRound \/ SettleAliases \/ NextLevel
    \/ Join
    \/ \E t \in TaskIds : Poison(t) \/ CopyTwin(t) \/ MemoHit(t) \/ EnqueueTask(t)
    \/ \E q \in todo : StillOpen(q) \/ CollectResult(q) \/ Recover(q) \/ Dead(q)

-----------------------------------------------------------------------------
(* The pumps.  The run's own look at the stop flag before every lease and end  *)
(* there; one that was past that look may still take a last task.  Pumps of    *)
(* other processes know no flag; once the run stops nothing reads what they do. *)

Idle(w) == DOMAIN wk[w] = {}

Pump(w) ==
    /\ Running /\ (IF w \in Own THEN w \in threads ELSE ~Stopping)
    /\ UNCHANGED <<runVars, memo>>

\* Mutant of LooksAtStop: the threads are joined with the flag not raised.
LooksAtNoStop(w) == threads

\* What is left of the pump threads when w looks at the stop flag.
LooksAtStop(w) == IF Stopping THEN threads \ {w} ELSE threads

Exit(w) ==
    /\ w \in Own /\ Pump(w) /\ Idle(w) /\ Stopping
    /\ threads' = LooksAtStop(w)
    /\ UNCHANGED <<results, lost, wk>> /\ UNCHANGED brokerVars

LeaseTask(w) ==
    /\ Pump(w) /\ Idle(w)
    /\ B!LeaseFiltered(0, FilterOf(w))
    /\ \E q \in 1 .. nextQid :
          /\ entries'[q].token = nextToken'
          /\ wk' = [wk EXCEPT ![w] = [qid |-> q, token |-> nextToken', at |-> "run"]]
    /\ UNCHANGED <<results, lost, threads>>

\* The heartbeat thread of the lease, at any time while the pump holds it.
Beat(w) ==
    /\ Pump(w) /\ ~Idle(w)
    /\ B!Heartbeat(wk[w].qid, wk[w].token, 0)
    /\ Outside

\* Mutant of PutResult: the result goes to the newest task of the queue.
PutResultMisfiled(w) ==
    /\ Pump(w) /\ ~Idle(w) /\ wk[w].at = "run"
    /\ results' = Put(results, nextQid, Reply(w, entries[wk[w].qid].payload))
    /\ wk' = [wk EXCEPT ![w].at = "complete"]
    /\ UNCHANGED <<lost, threads>> /\ UNCHANGED brokerVars

\* results.put is not fenced: it overwrites whatever the qid has.
PutResult(w) ==
    /\ Pump(w) /\ ~Idle(w) /\ wk[w].at = "run"
    /\ results' = Put(results, wk[w].qid, Reply(w, entries[wk[w].qid].payload))
    /\ wk' = [wk EXCEPT ![w].at = "complete"]
    /\ UNCHANGED <<lost, threads>> /\ UNCHANGED brokerVars

\* Mutant of PutFails: a failed put is ignored for every reply.
PutFailsIgnored(w) ==
    /\ Pump(w) /\ ~Idle(w) /\ wk[w].at = "run"
    /\ wk' = [wk EXCEPT ![w].at = "complete"]
    /\ lost' = IF Reply(w, entries[wk[w].qid].payload) = BridgeError
               THEN lost \cup {wk[w].qid} ELSE lost
    /\ UNCHANGED <<results, threads>> /\ UNCHANGED brokerVars

\* A put that fails: an answer is failed back to the queue, the failure to put
\* a bridge error is ignored.
PutFails(w) ==
    /\ Pump(w) /\ ~Idle(w) /\ wk[w].at = "run"
    /\ IF Reply(w, entries[wk[w].qid].payload) = BridgeError
       THEN wk' = [wk EXCEPT ![w].at = "complete"] /\ lost' = lost \cup {wk[w].qid}
       ELSE wk' = [wk EXCEPT ![w].at = "fail"] /\ UNCHANGED lost
    /\ UNCHANGED <<results, threads>> /\ UNCHANGED brokerVars

\* complete or fail; the broker fences it and its verdict is ignored.
Finish(w) ==
    /\ Pump(w) /\ ~Idle(w)
    /\ \/ wk[w].at = "complete" /\ B!Complete(wk[w].qid, wk[w].token)
       \/ wk[w].at = "fail" /\ B!Fail(wk[w].qid, wk[w].token)
    /\ wk' = [wk EXCEPT ![w] = NoneYet] /\ threads' = LooksAtStop(w)
    /\ UNCHANGED <<results, lost>>

\* The pump never learned of its lease, or its last call did not reach the
\* broker, or its process died and is restarted: the lease is left to expire.
Abandon(w) ==
    /\ Pump(w) /\ ~Idle(w)
    /\ wk' = [wk EXCEPT ![w] = NoneYet] /\ threads' = LooksAtStop(w)
    /\ UNCHANGED <<results, lost>> /\ UNCHANGED brokerVars

-----------------------------------------------------------------------------
(* The surroundings.                                                         *)

\* A channel may lose a result: a consuming read whose reply was lost, a
\* failed over node.
LoseResult(q) ==
    /\ Running /\ ~Stopping /\ q \in DOMAIN results
    /\ results' = Drop(results, q) /\ lost' = lost \cup {q}
    /\ UNCHANGED <<runVars, memo, wk, threads>> /\ UNCHANGED brokerVars

Tick ==
    /\ Running /\ ~Stopping /\ B!advance_time_ms
    /\ Outside /\ UNCHANGED <<runVars, memo>>

Ended == ~Running /\ UNCHANGED vars

Next ==
    \/ Coordinator \/ Deadline \/ Abort
    \/ \E w \in Workers : LeaseTask(w) \/ Beat(w) \/ PutResult(w) \/ PutFails(w)
                          \/ Finish(w) \/ Abandon(w) \/ Exit(w)
    \/ \E q \in DOMAIN results : LoseResult(q)
    \/ Tick \/ Ended

\* A pump thread of the run gets on with what it has in hand.
Works(w) == PutResult(w) \/ PutFails(w) \/ Finish(w) \/ Abandon(w) \/ Exit(w)

\* The coordinator's thread keeps running, and steady_clock with it: rounds do
\* not go on for ever without the deadline passing.  The operations that the
\* run's own threads invoke, and the port calls of those threads and of the
\* coordinator, return: nothing in the code bounds them.  Nothing is assumed of
\* the pumps of other processes, the broker's clock or the channel.
Spec ==
    /\ Init /\ [][Next]_vars
    /\ WF_vars(Coordinator) /\ SF_vars(Deadline)
    /\ \A w \in Own : WF_vars(Works(w))

-----------------------------------------------------------------------------
(* Properties *)

\* Tasks whose output is final.
Settled ==
    {t \in TaskIds : g.depth[t] < lvl}
    \cup (handled \ (Aliased \cup {pending[q].id : q \in DOMAIN pending}))

\* The distributed run is a TaskRun: whatever leases expire, results are
\* overwritten, lost or recomputed, and short-circuits are taken, each task
\* settles once with the outcome a serial run gives it, or the run aborts.
Run == INSTANCE TaskRun WITH
    out <- [t \in Settled |-> [output |-> outputs[t], origin |-> origins[t]]],
    status <- IF Running THEN "running" ELSE pc

ImplementsTaskRun == Run!Spec

\* What is in flight is accounted for: every unsettled task of the level that
\* was handled is either one pending qid or an alias of a task that is, and
\* a pending qid still carries its own task's bytes.
InFlightAccounted ==
    /\ \A q \in DOMAIN pending :
          /\ q \in 1 .. nextQid /\ pending[q].id \in handled \ Aliased
          /\ without_routing_tag(entries[q].payload) = pending[q].key
          /\ \A r \in DOMAIN pending : pending[q].id = pending[r].id => q = r
    /\ \A a \in aliases : a[2] \in dispatched \ Aliased
    /\ \A t \in handled \ Settled :
          outputs[t] = [ok |-> TRUE, val |-> Empty] /\ origins[t] = None
    /\ pc = "drained" => DOMAIN pending = {}

\* A failed output names its origin, a settled task that itself failed: the
\* poison check reads origins[d].value() of every failed dependency.
OriginsSound ==
    \A t \in TaskIds :
        /\ outputs[t].ok <=> origins[t] = None
        /\ ~outputs[t].ok => /\ origins[t] \in Settled
                             /\ origins[origins[t]] = origins[t]
                             /\ outputs[origins[t]] = outputs[t]

\* The channel never answers a qid with another task's result, and an answer
\* is the one answer of the task's bytes, whichever attempt put it last.
ResultsBelong ==
    \A q \in DOMAIN results :
        results[q] \in {BridgeError, Answer(without_routing_tag(entries[q].payload))}

\* What a pump commits is there to be read: a completed task has its result in
\* the channel unless the channel dropped it.
CompletedHasResult ==
    \A q \in 1 .. nextQid :
        entries[q].state = "completed" => q \in DOMAIN results \/ q \in lost

\* Nothing transient is cached: an entry this run added to the memo is the
\* answer of its key.
MemoSound ==
    [][\A key \in DOMAIN memo' \ DOMAIN memo : memo'[key] = Answer(key)]_vars

\* run() returns, past its deadline at the latest, whatever leases expire, results
\* are lost or pumps of other processes do; but it joins its own pump threads, so
\* only if the operations they run and the port calls they make return.
Termination == <>~Running

\* "The one field that can differ between attempts is seconds": once a task is
\* completed, a late put does not change what the coordinator will read.
CommittedResultStable ==
    [][\A q \in 1 .. nextQid :
          entries[q].state = "completed" /\ q \in DOMAIN results /\ q \in DOMAIN results'
          => results'[q] = results[q]]_vars

=============================================================================
