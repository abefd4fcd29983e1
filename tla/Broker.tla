-------------------------------- MODULE Broker --------------------------------
(***************************************************************************)
(* FakeBrokerPort of nimblecas.taskdag_sgee, the in-memory BrokerPort and  *)
(* the contract every other port has to meet: a FIFO of tasks that are     *)
(* leased under fencing tokens, completed or failed by whoever holds the   *)
(* current token, and reclaimed by a sweep when their visibility deadline  *)
(* has passed.  Every method body runs under mutex_, so it is one action.  *)
(*                                                                         *)
(* Clients are unconstrained: they may use any lease they were ever given, *)
(* late and repeatedly, or simply stop.                                    *)
(***************************************************************************)
EXTENDS Integers, Sequences, FiniteSets

CONSTANTS
    Payloads,             \* payloads enqueued: sequences of byte classes
    Filters,              \* payload filters of the workers
    AttemptLimits,        \* max_attempts arguments; 0 asks for the default
    DefaultMaxAttempts,   \* 3 in the code
    Timeouts,             \* timeout_ms / extend_by_ms arguments; 0 is default
    DefaultTimeout,       \* 30'000 ms in the code
    DefaultExtend,        \* 10'000 ms in the code
    MaxQids,              \* bound: tasks enqueued
    MaxNow,               \* bound: the clock
    MaxFaults             \* bound: faults a test arms

ASSUME BrokerAssumption ==
    /\ AttemptLimits \subseteq Nat /\ DefaultMaxAttempts \in Nat \ {0}
    /\ Timeouts \subseteq Nat /\ DefaultTimeout \in Nat \ {0}
    /\ DefaultExtend \in Nat \ {0}
    /\ MaxQids \in Nat /\ MaxNow \in Nat /\ MaxFaults \in Nat

FaultOps ==
    {"enqueue", "lease", "complete", "fail", "heartbeat", "sweep", "state"}

VARIABLES
    entries,    \* tasks_, on 1 .. nextQid (fifo_order_ is 1, 2, ..., nextQid)
    nextQid,    \* next_qid_
    nextToken,  \* next_token_
    now,        \* current_time_ms_
    faults,     \* fault_counters_
    leases,     \* history: every Lease handed out
    commits     \* history: <<qid, token>> of every complete() that returned ok

queueVars == <<entries, nextQid, nextToken>>
vars == <<entries, nextQid, nextToken, now, faults, leases, commits>>

Qids == 1 .. nextQid
QState == {"pending", "leased", "completed", "dead"}

OrDefault(x, d) == IF x = 0 THEN d ELSE x

\* payload_matches_filter: raw unanchored byte search; an empty needle matches.
payload_matches_filter(payload, filter) ==
    \/ filter = <<>>
    \/ \E i \in 1 .. Len(payload) - Len(filter) + 1 :
          SubSeq(payload, i, i + Len(filter) - 1) = filter

\* take_fault: an armed fault is consumed and the call fails untouched.
take_fault(op) ==
    /\ faults[op] > 0
    /\ faults' = [faults EXCEPT ![op] = @ - 1]
    /\ UNCHANGED <<entries, nextQid, nextToken, now, leases, commits>>

NoFault(op) == faults[op] = 0 /\ UNCHANGED faults

Reject == UNCHANGED <<entries, nextQid, nextToken, leases, commits>>

-----------------------------------------------------------------------------
Init ==
    /\ entries = [q \in {} |-> {}]
    /\ nextQid = 0 /\ nextToken = 0 /\ now = 0
    /\ faults = [op \in FaultOps |-> 0]
    /\ leases = {} /\ commits = {}

\* Mutant of Enqueue: max_attempts is stored as given, zero included.
EnqueueNoDefault(payload, max) ==
    /\ nextQid < MaxQids
    /\ NoFault("enqueue")
    /\ nextQid' = nextQid + 1
    /\ entries' = [q \in 1 .. nextQid + 1 |->
                      IF q \in Qids THEN entries[q]
                      ELSE [payload |-> payload, attempt |-> 0, max |-> max,
                            state |-> "pending", token |-> 0, deadline |-> 0]]
    /\ UNCHANGED <<nextToken, now, leases, commits>>

Enqueue(payload, max) ==
    /\ nextQid < MaxQids
    /\ NoFault("enqueue")
    /\ nextQid' = nextQid + 1
    /\ entries' = [q \in 1 .. nextQid + 1 |->
                      IF q \in Qids THEN entries[q]
                      ELSE [payload |-> payload, attempt |-> 0,
                            max |-> OrDefault(max, DefaultMaxAttempts),
                            state |-> "pending", token |-> 0, deadline |-> 0]]
    /\ UNCHANGED <<nextToken, now, leases, commits>>

Leasable(filter) ==
    {q \in Qids : /\ entries[q].state = "pending"
                  /\ payload_matches_filter(entries[q].payload, filter)}

\* The first match in FIFO order is leased: a life is spent, a new token made.
LeaseFiltered(timeout, filter) ==
    /\ NoFault("lease")
    /\ \E q \in Leasable(filter) :
          /\ \A p \in Leasable(filter) : q <= p
          /\ entries' = [entries EXCEPT
                ![q].attempt = @ + 1, ![q].state = "leased",
                ![q].token = nextToken + 1,
                ![q].deadline = now + OrDefault(timeout, DefaultTimeout)]
          /\ leases' = leases \cup {[qid |-> q, token |-> nextToken + 1]}
    /\ nextToken' = nextToken + 1
    /\ UNCHANGED <<nextQid, now, commits>>

\* Mutant of Holds: the token is not compared.
HoldsAnyToken(q, token) == q \in Qids /\ entries[q].state = "leased"

\* The fencing check shared by complete, fail and heartbeat.
Holds(q, token) ==
    q \in Qids /\ entries[q].state = "leased" /\ entries[q].token = token

Complete(q, token) ==
    /\ NoFault("complete")
    /\ IF Holds(q, token)
       THEN /\ entries' = [entries EXCEPT ![q].state = "completed"]
            /\ commits' = commits \cup {<<q, token>>}
            /\ UNCHANGED <<nextQid, nextToken, leases>>
       ELSE Reject
    /\ UNCHANGED now

\* Mutant of Released: one attempt too many.
ReleasedOffByOne(e) == IF e.attempt > e.max THEN "dead" ELSE "pending"

\* A failed or expired attempt: another life, or none left.
Released(e) == IF e.attempt >= e.max THEN "dead" ELSE "pending"

Fail(q, token) ==
    /\ NoFault("fail")
    /\ IF Holds(q, token)
       THEN /\ entries' = [entries EXCEPT ![q].state = Released(entries[q])]
            /\ UNCHANGED <<nextQid, nextToken, leases, commits>>
       ELSE Reject
    /\ UNCHANGED now

Heartbeat(q, token, extend) ==
    /\ NoFault("heartbeat")
    /\ IF Holds(q, token)
       THEN /\ entries' = [entries EXCEPT
                              ![q].deadline = now + OrDefault(extend, DefaultExtend)]
            /\ UNCHANGED <<nextQid, nextToken, leases, commits>>
       ELSE Reject
    /\ UNCHANGED now

\* Mutant of Expired: the deadline is not looked at.
ExpiredAlways(q, t) == entries[q].state = "leased"

Expired(q, t) == entries[q].state = "leased" /\ t >= entries[q].deadline

\* The caller passes the port's own now_ms().
SweepExpired ==
    /\ NoFault("sweep")
    /\ entries' = [q \in Qids |-> IF Expired(q, now)
                                  THEN [entries[q] EXCEPT !.state = Released(entries[q])]
                                  ELSE entries[q]]
    /\ UNCHANGED <<nextQid, nextToken, now, leases, commits>>

advance_time_ms ==
    /\ now < MaxNow
    /\ now' = now + 1
    /\ UNCHANGED <<entries, nextQid, nextToken, faults, leases, commits>>

\* Faults armed so far are not counted: MaxFaults bounds those outstanding.
inject_fault(op) ==
    /\ \A o \in FaultOps \ {op} : faults[o] = 0
    /\ faults[op] < MaxFaults
    /\ faults' = [faults EXCEPT ![op] = @ + 1]
    /\ UNCHANGED <<entries, nextQid, nextToken, now, leases, commits>>

\* A client presents a lease it was given at some time, current or not.
ClientStep ==
    \E l \in leases : \/ Complete(l.qid, l.token)
                      \/ Fail(l.qid, l.token)
                      \/ \E x \in Timeouts : Heartbeat(l.qid, l.token, x)

Next ==
    \/ \E p \in Payloads, m \in AttemptLimits : Enqueue(p, m)
    \/ \E t \in Timeouts, f \in Filters : LeaseFiltered(t, f)
    \/ ClientStep
    \/ SweepExpired
    \/ advance_time_ms
    \/ \E op \in FaultOps : inject_fault(op)
    \/ \E op \in FaultOps : take_fault(op)

Spec == Init /\ [][Next]_vars

-----------------------------------------------------------------------------
(* Properties *)

Entry == [payload : Payloads, attempt : Nat, max : Nat \ {0}, state : QState,
          token : Nat, deadline : Nat]

\* The queue's tables have their types and a task always has a life to spend.
TypeOK ==
    /\ nextQid \in 0 .. MaxQids /\ nextToken \in Nat /\ now \in 0 .. MaxNow
    /\ entries \in [Qids -> Entry]
    /\ faults \in [FaultOps -> Nat]
    /\ leases \subseteq [qid : Qids, token : 1 .. nextToken]
    /\ commits \subseteq (Qids \X (1 .. nextToken))

\* Fencing: whatever stale calls clients make, a task is committed at most
\* once, by the holder of the LAST lease handed out for it, and exactly the
\* completed tasks are committed.
FencedCommit ==
    /\ \A c \in commits :
          /\ entries[c[1]].state = "completed"
          /\ [qid |-> c[1], token |-> c[2]] \in leases
          /\ \A l \in leases : l.qid = c[1] => l.token <= c[2]
    /\ \A c, d \in commits : c[1] = d[1] => c = d
    /\ \A q \in Qids : entries[q].state = "completed" =>
          \E c \in commits : c[1] = q

\* Tokens are never reused: two leases that share a token are the same lease,
\* and a leased task answers only to the newest of its leases.
TokensUnique ==
    /\ \A l, k \in leases : l.token = k.token => l = k
    /\ \A q \in Qids : entries[q].state = "leased" =>
          /\ [qid |-> q, token |-> entries[q].token] \in leases
          /\ \A l \in leases : l.qid = q => l.token <= entries[q].token

\* Every lease spends one life and nothing else does; lives are never
\* overdrawn, a pending task has one left, a dead one has spent them all.
LivesAccounted ==
    \A q \in Qids :
        /\ entries[q].attempt = Cardinality({l \in leases : l.qid = q})
        /\ entries[q].attempt <= entries[q].max
        /\ entries[q].state = "pending" => entries[q].attempt < entries[q].max
        /\ entries[q].state = "dead" => entries[q].attempt = entries[q].max

\* completed and dead are final: no late complete, fail, heartbeat or sweep
\* brings a task back or changes its verdict.
TerminalStates ==
    [][\A q \in Qids : entries[q].state \in {"completed", "dead"} =>
          entries'[q] = entries[q]]_vars

\* A lease is not lost behind its holder's back: a task leaves the leased state
\* only by its own holder's call or when its deadline has passed.
NoEarlyReclaim ==
    [][\A q \in Qids :
          /\ entries[q].state = "leased"
          /\ entries'[q].state \in {"pending", "dead"}
          /\ now < entries[q].deadline
          => \E l \in leases : Fail(l.qid, l.token) /\ l.qid = q
                               /\ l.token = entries[q].token]_vars

=============================================================================
