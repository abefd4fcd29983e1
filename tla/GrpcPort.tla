------------------------------- MODULE GrpcPort -------------------------------
(***************************************************************************)
(* GrpcBrokerPort and GrpcResultChannel: the client side of a queue that a *)
(* cluster of nodes replicates.  A process has one ring of endpoints with  *)
(* one active index, shared by a port and a channel; each of those makes   *)
(* one call at a time, under its own mutex, and retries it, rotating the   *)
(* ring, while nothing but transport trouble comes back.                   *)
(*                                                                         *)
(* The cluster is external: a committed queue only the leader changes, and *)
(* a result store per node, in memory.  A request or a reply may be lost.  *)
(***************************************************************************)
EXTENDS Naturals, FiniteSets

CONSTANTS
    Clients,        \* processes, each with a port, a channel and a ring
    Coordinator,    \* the one of them that reads results
    N,              \* endpoints of a ring; also the cluster's nodes, 1 .. N
    Local(_),       \* the local half of a lease's token triple
    Consume,        \* consume_on_get_
    MaxAttempts,    \* lives of a task
    MaxQids,        \* bound: tasks enqueued
    MaxGrants,      \* bound: leases granted
    MaxFaults,      \* bound: lost requests and replies, crashes, elections
    MaxGets         \* bound: reads of the result store

Nodes == 1 .. N
Handles == Clients \X {"port", "channel"}

ASSUME GrpcPortAssumption ==
    /\ N \in Nat \ {0} /\ Coordinator \in Clients /\ Consume \in BOOLEAN
    /\ MaxAttempts \in Nat \ {0}
    /\ {MaxQids, MaxGrants, MaxFaults, MaxGets} \subseteq Nat

VARIABLES
    tasks,      \* the committed queue: qid -> [state, attempt, grant]
    grants,     \* leases granted; a lease's triple is named by its number
    leader,     \* the cluster's leader, 0 during an election
    believes,   \* node -> the latest leader it knows of
    down,       \* nodes that do not answer
    died,       \* history: a node has crashed
    stored,     \* node -> qids whose result it holds
    active,     \* client -> active_index + 1
    rotated,    \* some ring's failover_rotations is not 0
    table,      \* client -> (qid -> grant), leases_: on the qids it has
    call,       \* handle -> the call in progress, or Idle
    given,      \* history: <<client, qid, grant>> of leases handed to a caller
    ended,      \* history: those whose caller has completed or failed them
    acked,      \* history: <<op, qid, grant>> of Commits that returned ok
    delivered,  \* history: qids whose result a read returned
    missed,     \* history: qids a read found absent after a put of them returned ok
    gets, faults

cluster == <<tasks, grants, leader, believes, down, died, stored>>
history == <<given, ended, acked, delivered, missed>>
vars == <<cluster, active, rotated, table, call, history, gets, faults>>

Idle == [op |-> "idle"]
Qids == DOMAIN tasks
ChannelOps == {"put", "get"}
Commits == {"enqueue", "complete", "put"}

Request(op, q, g) == [op |-> op, qid |-> q, grant |-> g, at |-> 0, hint |-> 0]

-----------------------------------------------------------------------------
Init ==
    /\ tasks = [q \in {} |-> 0] /\ grants = 0
    /\ leader = 1 /\ believes = [n \in Nodes |-> 1] /\ down = {} /\ died = FALSE
    /\ stored = [n \in Nodes |-> {}]
    /\ active = [c \in Clients |-> 1] /\ rotated = FALSE
    /\ table = [c \in Clients |-> [q \in {} |-> 0]]
    /\ call = [h \in Handles |-> Idle]
    /\ given = {} /\ ended = {} /\ acked = {} /\ delivered = {} /\ missed = {}
    /\ gets = 0 /\ faults = 0

Starts(h, r) ==
    /\ call[h] = Idle
    /\ call' = [call EXCEPT ![h] = r]
    /\ UNCHANGED <<cluster, active, rotated, table, given, acked, delivered, missed, faults>>

\* What the bounds must leave room for: the calls in flight, and the retries
\* of those whose reply may yet be lost.
Reserve(op) == Cardinality({h \in Handles : call[h].op = op}) + MaxFaults - faults

\* enqueue and lease_filtered take the mutex and enter their retry loop.
Enqueue(c) ==
    /\ Cardinality(Qids) + Reserve("enqueue") < MaxQids
    /\ Starts(<<c, "port">>, Request("enqueue", 0, 0)) /\ UNCHANGED <<ended, gets>>

Lease(c) ==
    /\ grants + Reserve("lease") < MaxGrants
    /\ Starts(<<c, "port">>, Request("lease", 0, 0)) /\ UNCHANGED <<ended, gets>>

\* leases_ knows the task under the token the caller presents.
Knows(c, q, g) == q \in DOMAIN table[c] /\ Local(table[c][q]) = Local(g)

\* leases_[q] = g and leases_.erase(q).
Entered(m, q, g) == [p \in DOMAIN m \cup {q} |-> IF p = q THEN g ELSE m[p]]
Erased(m, q) == [p \in DOMAIN m \ {q} |-> m[p]]

\* Mutant of Finish: a stale caller's complete or fail clears the entry too.
FinishClears(c, op, l) ==
    /\ l \in given \ ended /\ l[1] = c
    /\ ended' = ended \cup {l}
    /\ IF Knows(c, l[2], l[3])
       THEN /\ call[<<c, "port">>] = Idle
            /\ call' = [call EXCEPT ![<<c, "port">>] = Request(op, l[2], table[c][l[2]])]
            /\ UNCHANGED table
       ELSE /\ call[<<c, "port">>] = Idle /\ UNCHANGED call
            /\ table' = [table EXCEPT ![c] = Erased(@, l[2])]
    /\ UNCHANGED <<cluster, active, rotated, given, acked, delivered, missed, gets, faults>>

\* complete and fail: refused at once unless leases_ knows the token; the
\* triple recorded there is what is sent.
Finish(c, op, l) ==
    /\ l \in given \ ended /\ l[1] = c
    /\ ended' = ended \cup {l} /\ UNCHANGED gets
    /\ IF Knows(c, l[2], l[3])
       THEN Starts(<<c, "port">>, Request(op, l[2], table[c][l[2]]))
       ELSE /\ call[<<c, "port">>] = Idle
            /\ UNCHANGED <<cluster, active, rotated, table, call, given, acked, delivered,
                           missed, faults>>

Heartbeat(c, l) ==
    /\ l \in given \ ended /\ l[1] = c
    /\ Knows(c, l[2], l[3])
    /\ Starts(<<c, "port">>, Request("heartbeat", l[2], table[c][l[2]]))
    /\ UNCHANGED <<ended, gets>>

\* state: the coordinator polls a task.
State(c) ==
    Starts(<<c, "port">>, Request("state", 0, 0)) /\ UNCHANGED <<ended, gets>>

\* A worker puts the result of a task it was given; the coordinator reads one
\* that state() reported completed.
Put(c, l) ==
    /\ l \in given \ ended /\ l[1] = c
    /\ Starts(<<c, "channel">>, Request("put", l[2], 0)) /\ UNCHANGED <<ended, gets>>

Get(c, q) ==
    /\ tasks[q].state = "completed" /\ q \notin delivered
    /\ gets < MaxGets /\ gets' = gets + 1
    /\ Starts(<<c, "channel">>, Request("get", q, 0)) /\ UNCHANGED ended

-----------------------------------------------------------------------------
(* What a node does with a request, and what it says *)

Leased(q, g) == q \in Qids /\ tasks[q].state = "leased" /\ tasks[q].grant = g
Pending == {q \in Qids : tasks[q].state = "pending"}
Oldest == CHOOSE q \in Pending : \A p \in Pending : q <= p
Spent(q) == IF tasks[q].attempt >= MaxAttempts THEN "dead" ELSE "pending"

Says(rc, q, g) == [rc |-> rc, qid |-> q, grant |-> g]

Reply(n, r) ==
    CASE r.op = "enqueue" -> Says("ok", Cardinality(Qids) + 1, 0)
      [] r.op = "lease" -> IF Pending = {} THEN Says("queue_empty", 0, 0)
                           ELSE Says("ok", Oldest, grants + 1)
      [] r.op = "put" -> Says("ok", r.qid, 0)
      [] r.op = "get" -> Says(IF r.qid \in stored[n] THEN "ok" ELSE "absent", r.qid, 0)
      [] r.op = "state" -> Says("ok", r.qid, 0)
      [] OTHER -> Says(IF Leased(r.qid, r.grant) THEN "ok" ELSE "rejected", r.qid, r.grant)

\* Mutant of Kept: a read consumes whatever the flag says.
KeptConsumes(results, r) ==
    IF r.op = "put" THEN results \cup {r.qid}
    ELSE IF r.op = "get" THEN results \ {r.qid} ELSE results

\* The results a node holds after request r.
Kept(results, r) ==
    IF r.op = "put" THEN results \cup {r.qid}
    ELSE IF r.op = "get" /\ Consume THEN results \ {r.qid} ELSE results

Serves(n, r) ==
    LET reply == Reply(n, r)
        takes == r.op = "lease" /\ reply.rc = "ok"
    IN  /\ tasks' =
             IF r.op = "enqueue"
             THEN [q \in Qids \cup {reply.qid} |-> IF q \in Qids THEN tasks[q]
                      ELSE [state |-> "pending", attempt |-> 0, grant |-> 0]]
             ELSE IF takes
             THEN [tasks EXCEPT ![reply.qid] = [state |-> "leased",
                      attempt |-> @.attempt + 1, grant |-> reply.grant]]
             ELSE IF r.op \in {"complete", "fail"} /\ reply.rc = "ok"
             THEN [tasks EXCEPT ![r.qid].state =
                      IF r.op = "complete" THEN "completed" ELSE Spent(r.qid)]
             ELSE tasks
        /\ grants' = grants + (IF takes THEN 1 ELSE 0)
        /\ stored' = [stored EXCEPT ![n] = Kept(@, r)]
        /\ UNCHANGED <<leader, believes, down, died>>

-----------------------------------------------------------------------------
(* One attempt of a call: an RPC on the ring's active endpoint *)

NodeOf(h) == active[h[1]]
Sending(h) == call[h] # Idle /\ call[h].at = 0

\* A queue write is served by the leader; a node's result store by the node.
Reaches(h) ==
    /\ Sending(h) /\ NodeOf(h) \notin down
    /\ call[h].op \in ChannelOps \/ NodeOf(h) = leader

\* The attempt failed in a retryable way at the endpoint it used; hint is what
\* sgee_grpc_last_leader_hint says: a refusal's, or what was left from before.
Fails(h, hint) == call' = [call EXCEPT ![h].at = NodeOf(h), ![h].hint = hint]

\* A node refuses a write it is not the leader for and names the latest one it
\* knows, or, in an election, possibly none.
Refused(h) ==
    /\ Sending(h) /\ NodeOf(h) \notin down
    /\ ~Reaches(h)
    /\ \E hint \in {believes[NodeOf(h)]} \cup (IF leader = 0 THEN {0} ELSE {}) :
          Fails(h, hint)
    /\ UNCHANGED <<cluster, active, rotated, table, history, gets, faults>>

\* The node is down, or the request is lost on its way.
Unreached(h) ==
    /\ Sending(h)
    /\ IF NodeOf(h) \in down THEN UNCHANGED faults
       ELSE faults < MaxFaults /\ faults' = faults + 1
    /\ Fails(h, call[h].hint)
    /\ UNCHANGED <<cluster, active, rotated, table, history, gets>>

\* The node acts and its reply is lost.
ReplyLost(h) ==
    /\ Reaches(h) /\ faults < MaxFaults /\ faults' = faults + 1
    /\ Serves(NodeOf(h), call[h])
    /\ Fails(h, call[h].hint)
    /\ UNCHANGED <<active, rotated, table, history, gets>>

\* Mutant of Returns: a rejected complete is reported as a success.
ReturnsRejectedOk(h, r, reply) ==
    LET c == h[1]
        takes == r.op = "lease" /\ reply.rc = "ok"
    IN  /\ call' = [call EXCEPT ![h] = Idle]
        /\ table' = IF takes THEN [table EXCEPT ![c] = Entered(@, reply.qid, reply.grant)]
                    ELSE IF r.op \in {"complete", "fail"}
                    THEN [table EXCEPT ![c] = Erased(@, r.qid)] ELSE table
        /\ given' = IF takes THEN given \cup {<<c, reply.qid, reply.grant>>} ELSE given
        /\ acked' = IF reply.rc \in {"ok", "rejected"} /\ r.op \in Commits
                    THEN acked \cup {<<r.op, reply.qid, reply.grant>>} ELSE acked
        /\ delivered' = delivered \cup
                {q \in {r.qid} : r.op = "get" /\ reply.rc = "ok"}
        /\ missed' = missed \cup {q \in {r.qid} : reply.rc = "absent" /\ <<"put", q, 0>> \in acked}

\* What the port or the channel does with a final reply: a lease is entered in
\* leases_, the end of a complete or a fail, whatever it was, takes it out.
Returns(h, r, reply) ==
    LET c == h[1]
        takes == r.op = "lease" /\ reply.rc = "ok"
    IN  /\ call' = [call EXCEPT ![h] = Idle]
        /\ table' = IF takes THEN [table EXCEPT ![c] = Entered(@, reply.qid, reply.grant)]
                    ELSE IF r.op \in {"complete", "fail"}
                    THEN [table EXCEPT ![c] = Erased(@, r.qid)] ELSE table
        /\ given' = IF takes THEN given \cup {<<c, reply.qid, reply.grant>>} ELSE given
        /\ acked' = IF reply.rc = "ok" /\ r.op \in Commits
                    THEN acked \cup {<<r.op, reply.qid, reply.grant>>} ELSE acked
        /\ delivered' = delivered \cup
                {q \in {r.qid} : r.op = "get" /\ reply.rc = "ok"}
        /\ missed' = missed \cup {q \in {r.qid} : reply.rc = "absent" /\ <<"put", q, 0>> \in acked}

\* Mutant of Served: the loop goes round again although the node said ok.
ServedAgain(h) ==
    /\ Reaches(h)
    /\ Serves(NodeOf(h), call[h])
    /\ Fails(h, call[h].hint)
    /\ UNCHANGED <<active, rotated, table, history, gets, faults>>

\* The node acts and the call returns.
Served(h) ==
    /\ Reaches(h)
    /\ Serves(NodeOf(h), call[h])
    /\ Returns(h, call[h], Reply(NodeOf(h), call[h]))
    /\ UNCHANGED <<active, rotated, ended, gets, faults>>

\* Mutant of NextIndex: the hint is trusted even when it names the endpoint
\* that has just failed.
NextIndexTrustHint(at, hint) == IF hint \in Nodes THEN hint ELSE (at % N) + 1

\* Where the ring turns from endpoint at: to the hinted leader, unless the hint
\* is outside the ring or names at itself; else to the next endpoint in order.
NextIndex(at, hint) ==
    IF hint \in Nodes /\ hint # at THEN hint ELSE (at % N) + 1

\* rotate_ring_on_error: the ring turns only if it still is where the attempt
\* found it, so two calls that fail together turn it once.
rotate_ring_on_error(c, at, hint) ==
    IF N > 1 /\ active[c] = at
    THEN /\ active' = [active EXCEPT ![c] = NextIndex(at, hint)]
         /\ rotated' = TRUE
    ELSE UNCHANGED <<active, rotated>>

Rotating(h) == call[h] # Idle /\ call[h].at # 0

\* The retry budget is not used up: another attempt.
Retry(h) ==
    /\ Rotating(h)
    /\ rotate_ring_on_error(h[1], call[h].at, call[h].hint)
    /\ call' = [call EXCEPT ![h].at = 0]
    /\ UNCHANGED <<cluster, table, history, gets, faults>>

\* The budget is used up: distributed_error, and a complete or a fail has lost
\* its entry.
GiveUp(h) ==
    /\ Rotating(h)
    /\ rotate_ring_on_error(h[1], call[h].at, call[h].hint)
    /\ Returns(h, call[h], Says("gave_up", call[h].qid, call[h].grant))
    /\ UNCHANGED <<cluster, ended, gets, faults>>

-----------------------------------------------------------------------------
(* The cluster *)

Elsewhere == UNCHANGED <<active, rotated, table, call, history, gets>>

\* A lease's visibility runs out; the node's own driver sweeps it.
Expire(q) ==
    /\ tasks[q].state = "leased"
    /\ tasks' = [tasks EXCEPT ![q].state = Spent(q)]
    /\ UNCHANGED <<grants, leader, believes, down, died, stored, faults>> /\ Elsewhere

\* A node stops, and its results are lost; it comes back with the queue the
\* others replicate to it.
Crash(n) ==
    /\ n \notin down /\ N > 1
    /\ faults < MaxFaults /\ faults' = faults + 1
    /\ down' = down \cup {n} /\ died' = TRUE /\ stored' = [stored EXCEPT ![n] = {}]
    /\ leader' = IF leader = n THEN 0 ELSE leader
    /\ UNCHANGED <<tasks, grants, believes>> /\ Elsewhere

Restart(n) ==
    /\ n \in down /\ down' = down \ {n}
    /\ UNCHANGED <<tasks, grants, leader, believes, died, stored, faults>> /\ Elsewhere

\* The leader steps down, and some node is elected once a majority is up.
StepDown ==
    /\ N > 1 /\ leader # 0 /\ leader' = 0
    /\ faults < MaxFaults /\ faults' = faults + 1
    /\ UNCHANGED <<tasks, grants, believes, down, died, stored>> /\ Elsewhere

Elect(n) ==
    /\ leader = 0 /\ n \notin down /\ 2 * Cardinality(down) < N
    /\ leader' = n /\ believes' = [believes EXCEPT ![n] = n]
    /\ UNCHANGED <<tasks, grants, down, died, stored, faults>> /\ Elsewhere

Learn(n) ==
    /\ n \notin down /\ leader \notin {0, believes[n]}
    /\ believes' = [believes EXCEPT ![n] = leader]
    /\ UNCHANGED <<tasks, grants, leader, down, died, stored, faults>> /\ Elsewhere

-----------------------------------------------------------------------------
Callers ==
    \/ \E c \in Clients :
          \/ Enqueue(c) \/ Lease(c)
    \/ Qids # {} /\ State(Coordinator)
    \/ \E q \in Qids : Get(Coordinator, q)
    \/ \E l \in given :
          \/ Finish(l[1], "complete", l) \/ Finish(l[1], "fail", l)
          \/ Heartbeat(l[1], l) \/ Put(l[1], l)

Attempt(h) == Refused(h) \/ Unreached(h) \/ ReplyLost(h) \/ Served(h)

Next ==
    \/ Callers
    \/ \E h \in Handles : Attempt(h) \/ Retry(h) \/ GiveUp(h)
    \/ \E q \in Qids : Expire(q)
    \/ \E n \in Nodes : Crash(n) \/ Restart(n) \/ Elect(n) \/ Learn(n)
    \/ StepDown
    \/ UNCHANGED vars

\* A node comes back when too few are left to elect a leader.
Rescue == 2 * Cardinality(down) >= N /\ \E n \in Nodes : Restart(n)

\* A thread in a call keeps at it.  Of the cluster: with a majority up a leader
\* is elected, and its heartbeats reach every node that is up.  A node that
\* crashed need not come back while a majority is up.
Fairness ==
    /\ \A h \in Handles : WF_vars(Attempt(h)) /\ WF_vars(Retry(h) \/ GiveUp(h))
    /\ WF_vars(\E n \in Nodes : Elect(n)) /\ WF_vars(Rescue)
    /\ WF_vars(\E n \in Nodes : Learn(n))

Spec == Init /\ [][Next]_vars
FairSpec == Spec /\ Fairness

-----------------------------------------------------------------------------
(* Properties *)

\* Whatever was retried, expired or completed by a stale caller, the caller
\* that holds a task's current lease can still use it: leases_ has its triple.
HolderCanFinish ==
    \A l \in given \ ended :
        Leased(l[2], l[3]) => l[2] \in DOMAIN table[l[1]] /\ table[l[1]][l[2]] = l[3]

\* A success is never made up: a complete that returned ok is the committed end
\* of the task under that very lease, of which there is one, a task that was
\* acknowledged is queued, and no lease was handed to two callers.
OkIsCommitted ==
    /\ \A a \in acked : a[2] \in Qids
    /\ \A a \in acked : a[1] = "complete" =>
          tasks[a[2]].state = "completed" /\ tasks[a[2]].grant = a[3]
    /\ \A l, m \in given : l[3] = m[3] => l = m

\* What the queue holds beyond what callers were told of is what lost replies
\* left there: orphan tasks and lives spent on leases nobody holds.
WasteIsLostReplies ==
    LET told == Cardinality({a \in acked : a[1] = "enqueue"}) + Cardinality(given)
    IN  Cardinality(Qids) + grants - told <= faults

\* Until the coordinator has it, a result whose put returned ok is held by some
\* node, unless a node died: no read that went astray destroys it.
HeldUntilDelivered ==
    \A q \in Qids : <<"put", q, 0>> \in acked =>
        q \in delivered \/ died \/ \E n \in Nodes : q \in stored[n]

\* "Genuinely absent result (found == false)!": a result whose put returned ok
\* is found absent only after the ring turned to another node or a node died.
AbsentIsGenuine == missed # {} => rotated \/ died

\* With a leader elected and made known to the nodes that are up, every call
\* reaches it and returns, however large k_transport_retry_budget is: neither a
\* node that stays down nor the hint that names it keeps the ring away from it.
EveryCallReturns == \A h \in Handles : []<>(call[h] = Idle)

=============================================================================
