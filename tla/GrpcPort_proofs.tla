--------------------------- MODULE GrpcPort_proofs ---------------------------
(***************************************************************************)
(* What the gRPC port and channel keep true for any number of processes,   *)
(* endpoints, tasks, leases and faults.                                    *)
(***************************************************************************)
EXTENDS GrpcPort, TLAPS, FiniteSetTheorems, WellFoundedInduction

PortOps == {"enqueue", "lease", "complete", "fail", "heartbeat", "state"}
Ends == {"complete", "fail"}
States == {"pending", "leased", "completed", "dead"}
Task == [state : States, attempt : Nat, grant : 0 .. grants]
Requests == [op : PortOps \cup ChannelOps, qid : Nat, grant : Nat, at : 0 .. N, hint : Nat]

-----------------------------------------------------------------------------
(* The inductive invariant.                                                  *)

\* Qids are handed out in order; a handle makes calls of its own kind.
TypeOK ==
    /\ grants \in Nat /\ faults \in Nat
    /\ \E k \in Nat : Qids = 1 .. k
    /\ tasks \in [Qids -> Task]
    /\ leader \in 0 .. N /\ believes \in [Nodes -> Nodes]
    /\ died \in BOOLEAN /\ rotated \in BOOLEAN
    /\ stored \in [Nodes -> SUBSET Nat]
    /\ active \in [Clients -> Nodes]
    /\ table = [c \in Clients |-> table[c]]
    /\ call \in [Handles -> Requests \cup {Idle}]
    /\ \A c \in Clients : /\ call[<<c, "port">>].op \notin ChannelOps
                          /\ call[<<c, "channel">>].op \notin PortOps

\* A lease is handed to one caller, and what leases_ knows has been granted.
LeasesOK ==
    /\ given \subseteq Clients \X Qids \X (1 .. grants)
    /\ \A l, m \in given : l[3] = m[3] => l = m
    /\ \A c \in Clients : \A q \in DOMAIN table[c] : table[c][q] \in 1 .. grants

\* What was acknowledged is there, and what is put belongs to a task.
AckedOK ==
    /\ acked \subseteq Commits \X Qids \X Nat
    /\ \A a \in acked : a[1] = "complete" =>
          tasks[a[2]].state = "completed" /\ tasks[a[2]].grant = a[3]
    /\ \A h \in Handles : call[h].op = "put" => call[h].qid \in Qids

Finite == IsFiniteSet(given) /\ IsFiniteSet(acked)

IInv == TypeOK /\ LeasesOK /\ AckedOK /\ Finite /\ WasteIsLostReplies

\* The local half of its token tells a lease from all others: leases_ keeps
\* the whole triple, but compares this half only.
LocalTellsLeases == \A x, y \in Nat : Local(x) = Local(y) => x = y

\* A complete or fail in flight carries the lease of a caller that is done.
EndsCarryEnded ==
    \A c \in Clients :
        LET r == call[<<c, "port">>]
        IN  r.op \in Ends =>
                /\ r.qid \in DOMAIN table[c] /\ table[c][r.qid] = r.grant
                /\ <<c, r.qid, r.grant>> \in ended

HolderInv == IInv /\ ended \subseteq given /\ EndsCarryEnded /\ HolderCanFinish

\* Until the ring turns or a node dies, all there is happens at endpoint 1.
OneEndpoint ==
    ~rotated => /\ \A c \in Clients : active[c] = 1
                /\ ~died => \A a \in acked : a[1] = "put" => a[2] \in stored[1]

-----------------------------------------------------------------------------
(* The queue.                                                                *)

\* A non-empty set of naturals has a least element.
LEMMA LeastNat ==
    ASSUME NEW T \in SUBSET Nat, T # {}
    PROVE  \E m \in T : \A n \in T : m <= n
<1>1. PICK m \in T : \A n \in T : <<n, m>> \notin OpToRel(<, Nat)
      BY NatLessThanWellFounded, WFMin, Zenon
<1>2. \A n \in T : ~(n < m)
      BY <1>1 DEF OpToRel
<1> QED BY <1>2

LEMMA QidCount ==
    ASSUME TypeOK
    PROVE  /\ Cardinality(Qids) \in Nat /\ Qids = 1 .. Cardinality(Qids)
           /\ IsFiniteSet(Qids) /\ Cardinality(Qids) + 1 \notin Qids
<1>1. PICK k \in Nat : Qids = 1 .. k
      BY DEF TypeOK
<1>2. Cardinality(1 .. k) = k /\ IsFiniteSet(1 .. k)
      BY FS_Interval
<1> HIDE DEF Qids
<1> QED BY <1>1, <1>2

LEMMA OldestIsPending ==
    ASSUME TypeOK, Pending # {}
    PROVE  Oldest \in Qids /\ tasks[Oldest].state = "pending"
<1>1. Pending \in SUBSET Nat
      BY QidCount DEF Pending
<1>2. \E q \in Pending : \A p \in Pending : q <= p
      BY <1>1, LeastNat
<1>3. Oldest \in Pending
      BY <1>2 DEF Oldest
<1> QED BY <1>3 DEF Pending

Count == Cardinality(Qids)

\* What a node that serves request r does to the queue, and what it says: a
\* new task, a new lease, the end of a lease, or nothing.
Grows(r, reply) ==
    /\ r.op = "enqueue" /\ reply = Says("ok", Count + 1, 0)
    /\ tasks' = [q \in 1 .. Count + 1 |-> IF q \in Qids THEN tasks[q]
                   ELSE [state |-> "pending", attempt |-> 0, grant |-> 0]]
    /\ grants' = grants

Grants(r, reply) ==
    /\ r.op = "lease" /\ grants' = grants + 1
    /\ reply.rc = "ok" /\ reply.grant = grants + 1
    /\ reply.qid \in Qids /\ tasks[reply.qid].state = "pending"
    /\ tasks' = [tasks EXCEPT ![reply.qid] = [state |-> "leased",
                    attempt |-> tasks[reply.qid].attempt + 1, grant |-> grants + 1]]

EndsLease(r, reply) ==
    /\ r.op \in Ends /\ Leased(r.qid, r.grant) /\ grants' = grants
    /\ reply = Says("ok", r.qid, r.grant)
    /\ \E s \in States \ {"leased"} :
          /\ tasks' = [tasks EXCEPT ![r.qid] = [@ EXCEPT !.state = s]]
          /\ r.op = "complete" => s = "completed"

Nothing(r, reply) ==
    /\ UNCHANGED <<tasks, grants>>
    /\ r.op # "enqueue" /\ (r.op \in Ends \cup {"lease"} => reply.rc # "ok")
    /\ r.op = "put" => reply = Says("ok", r.qid, 0)
    /\ r.op = "get" => reply.qid = r.qid

LEMMA ServesEffect ==
    ASSUME TypeOK, NEW n \in Nodes, NEW r \in Requests, Serves(n, r)
    PROVE  LET reply == Reply(n, r)
           IN  \/ Grows(r, reply) \/ Grants(r, reply) \/ EndsLease(r, reply)
               \/ Nothing(r, reply)
<1> DEFINE reply == Reply(n, r)
<1>1. CASE r.op = "enqueue"
  <2>1. reply = Says("ok", Count + 1, 0)
        BY <1>1 DEF Reply, Count
  <2>2. reply.qid = Count + 1 /\ Qids \cup {Count + 1} = 1 .. Count + 1
        BY <2>1, QidCount DEF Says, Count
  <2> QED BY <1>1, <2>1, <2>2 DEF Serves, Grows, TypeOK
<1>2. CASE r.op = "lease" /\ Pending # {}
  <2>1. reply = Says("ok", Oldest, grants + 1)
        BY <1>2 DEF Reply
  <2> QED BY <1>2, <2>1, OldestIsPending DEF Serves, Grants, Says, TypeOK
<1>3. CASE r.op = "lease" /\ Pending = {}
  <2>1. reply.rc = "queue_empty"
        BY <1>3 DEF Reply, Says
  <2> QED BY <1>3, <2>1 DEF Serves, Nothing, Ends, TypeOK
<1>4. CASE r.op \in Ends /\ Leased(r.qid, r.grant)
  <2>1. reply = Says("ok", r.qid, r.grant)
        BY <1>4 DEF Reply, Ends
  <2>2. tasks' = [tasks EXCEPT ![r.qid].state =
                     IF r.op = "complete" THEN "completed" ELSE Spent(r.qid)]
        BY <1>4, <2>1 DEF Serves, Ends, Says
  <2>3. (IF r.op = "complete" THEN "completed" ELSE Spent(r.qid)) \in States \ {"leased"}
        BY DEF Spent, States
  <2>4. grants' = grants
        BY <1>4 DEF Serves, Ends, TypeOK
  <2>5. tasks' = [tasks EXCEPT ![r.qid] = [@ EXCEPT !.state =
                     IF r.op = "complete" THEN "completed" ELSE Spent(r.qid)]]
        BY <2>2
  <2> QED BY <1>4, <2>1, <2>3, <2>4, <2>5 DEF EndsLease
<1>5. CASE r.op \in Ends /\ ~Leased(r.qid, r.grant)
  <2>1. reply.rc = "rejected"
        BY <1>5 DEF Reply, Ends, Says
  <2> QED BY <1>5, <2>1 DEF Serves, Nothing, Ends, TypeOK
<1>6. CASE r.op \in {"heartbeat", "state", "put", "get"}
  <2>1. r.op = "put" => reply = Says("ok", r.qid, 0)
        BY DEF Reply
  <2>2. r.op = "get" => reply.qid = r.qid
        BY DEF Reply, Says
  <2> QED BY <1>6, <2>1, <2>2 DEF Serves, Nothing, Ends, TypeOK
<1> QED BY <1>1, <1>2, <1>3, <1>4, <1>5, <1>6 DEF Requests, PortOps, ChannelOps, Ends

-----------------------------------------------------------------------------
(* What no step undoes.                                                      *)

\* Tasks and leases are only added, a completed task stays as it is, and a
\* lease that has been granted is never granted again.
Advances ==
    /\ grants \in Nat /\ grants' \in Nat /\ grants <= grants'
    /\ \E k \in Nat : Qids' = 1 .. k
    /\ Qids \subseteq Qids'
    /\ tasks' \in [Qids' -> Task']
    /\ \A q \in Qids : tasks[q].state = "completed" => tasks'[q] = tasks[q]
    /\ \A q \in Nat, g \in 1 .. grants : Leased(q, g)' => Leased(q, g)

LEMMA QuietAdvances ==
    ASSUME TypeOK, UNCHANGED <<tasks, grants>>
    PROVE  Advances
BY DEF TypeOK, Advances, Qids, Leased, Task

\* A lease's end, by its holder or by the node's own sweep.
LEMMA EndAdvances ==
    ASSUME TypeOK, NEW q \in Qids, tasks[q].state = "leased", UNCHANGED grants,
           NEW s \in States \ {"leased"},
           tasks' = [tasks EXCEPT ![q] = [@ EXCEPT !.state = s]]
    PROVE  Advances /\ Qids' = Qids
<1>1. tasks[q] \in Task /\ [tasks[q] EXCEPT !.state = s] \in Task
      BY DEF TypeOK, Task
<1>2. Task' = Task
      BY DEF Task
<1>3. Qids' = Qids /\ tasks' \in [Qids' -> Task']
      BY <1>1, <1>2 DEF TypeOK, Qids
<1>4. \A p \in Qids : tasks[p].state = "completed" => tasks'[p] = tasks[p]
      BY DEF Qids
<1>5. ASSUME NEW p \in Nat, NEW g \in 1 .. grants, Leased(p, g)'
      PROVE  Leased(p, g)
  <2>1. p \in Qids /\ tasks'[p].state = "leased" /\ tasks'[p].grant = g
        BY <1>3, <1>5 DEF Leased
  <2>2. p # q
        BY <2>1, <1>1 DEF Qids, Task
  <2> QED BY <2>1, <2>2 DEF Leased, Qids
<1> QED BY <1>3, <1>4, <1>5 DEF Advances, TypeOK

LEMMA GrowsAdvances ==
    ASSUME TypeOK, NEW r, NEW reply, Grows(r, reply)
    PROVE  Advances /\ Qids' = Qids \cup {Count + 1}
<1>1. Count \in Nat /\ Qids = 1 .. Count
      BY QidCount DEF Count
<1>2. Qids' = 1 .. Count + 1
      BY DEF Qids, Grows
<1>3. Qids' = Qids \cup {Count + 1} /\ Qids \subseteq Qids'
      BY <1>1, <1>2
<1>4. Task' = Task /\ [state |-> "pending", attempt |-> 0, grant |-> 0] \in Task
      BY DEF Grows, Task, States, TypeOK
<1>5. tasks' \in [Qids' -> Task']
      BY <1>1, <1>2, <1>4 DEF Grows, TypeOK
<1>6. \A q \in Qids : tasks'[q] = tasks[q]
      BY <1>1 DEF Grows
<1>7. ASSUME NEW p \in Nat, NEW g \in 1 .. grants, Leased(p, g)'
      PROVE  Leased(p, g)
  <2>1. p \in Qids' /\ tasks'[p].state = "leased"
        BY <1>7 DEF Leased
  <2>2. p \in Qids
        BY <2>1, <1>2 DEF Grows
  <2> QED BY <2>2, <1>6, <1>7 DEF Leased
<1> QED BY <1>1, <1>2, <1>3, <1>5, <1>6, <1>7 DEF Advances, TypeOK, Grows

LEMMA GrantsAdvances ==
    ASSUME TypeOK, NEW r, NEW reply, Grants(r, reply)
    PROVE  Advances /\ Qids' = Qids
<1> DEFINE q == reply.qid
           t == [state |-> "leased", attempt |-> tasks[q].attempt + 1, grant |-> grants + 1]
<1>1. q \in Qids /\ tasks[q].state = "pending" /\ tasks' = [tasks EXCEPT ![q] = t]
      BY DEF Grants
<1>2. t \in Task'
      BY <1>1 DEF Task, States, TypeOK, Grants
<1>3. Task \subseteq Task'
      BY DEF Task, Grants, TypeOK
<1> HIDE DEF t
<1>4. Qids' = Qids /\ tasks' \in [Qids' -> Task']
      BY <1>1, <1>2, <1>3 DEF TypeOK, Qids
<1>5. \A p \in Qids : p # q => tasks'[p] = tasks[p]
      BY <1>1 DEF Qids
<1>6. ASSUME NEW p \in Nat, NEW g \in 1 .. grants, Leased(p, g)'
      PROVE  Leased(p, g)
  <2>1. p \in Qids /\ tasks'[p].grant = g
        BY <1>4, <1>6 DEF Leased
  <2>2. tasks'[q].grant = grants + 1
        BY <1>1 DEF t, Qids
  <2>3. p # q
        BY <2>1, <2>2 DEF TypeOK
  <2> QED BY <2>1, <2>3, <1>5, <1>6 DEF Leased
<1> QED BY <1>1, <1>4, <1>5, <1>6 DEF Advances, TypeOK, Grants

LEMMA ServesAdvances ==
    ASSUME TypeOK, NEW n \in Nodes, NEW r \in Requests, Serves(n, r)
    PROVE  Advances
<1> DEFINE reply == Reply(n, r)
<1>1. CASE Grows(r, reply)
      BY <1>1, GrowsAdvances
<1>2. CASE Grants(r, reply)
      BY <1>2, GrantsAdvances
<1>3. CASE EndsLease(r, reply)
      BY <1>3, EndAdvances DEF EndsLease, Leased
<1>4. CASE Nothing(r, reply)
      BY <1>4, QuietAdvances DEF Nothing
<1> QED BY <1>1, <1>2, <1>3, <1>4, ServesEffect

LEMMA ExpireAdvances ==
    ASSUME TypeOK, NEW q \in Qids, Expire(q)
    PROVE  Advances /\ Qids' = Qids
<1>1. Spent(q) \in States \ {"leased"}
      BY DEF Spent, States
<1>2. tasks' = [tasks EXCEPT ![q] = [@ EXCEPT !.state = Spent(q)]]
      BY DEF Expire
<1> QED BY <1>1, <1>2, EndAdvances DEF Expire

-----------------------------------------------------------------------------
(* The calls.                                                                *)

\* A caller starts call r at handle h.
Asks(h, r) ==
    /\ call[h] = Idle
    /\ r.op \in (IF h[2] = "port" THEN PortOps ELSE ChannelOps)
    /\ r.op = "put" => r.qid \in Qids
    /\ r.op \in Ends => \E l \in ended' :
          l[1] = h[1] /\ Knows(l[1], l[2], l[3]) /\ r.qid = l[2] /\ r.grant = table[l[1]][l[2]]

\* The call at h goes on, as r, to its next attempt.
GoesOn(h, r) ==
    /\ call[h] # Idle
    /\ r.op = call[h].op /\ r.qid = call[h].qid /\ r.grant = call[h].grant

CallMoves ==
    \E h \in Handles, r \in Requests \cup {Idle} :
        /\ call' = [call EXCEPT ![h] = r]
        /\ r = Idle \/ (r \in Requests /\ (Asks(h, r) \/ GoesOn(h, r)))

LEMMA HandleFacts ==
    ASSUME TypeOK, NEW h \in Handles
    PROVE  /\ h[1] \in Clients /\ h[2] \in {"port", "channel"} /\ h = <<h[1], h[2]>>
           /\ NodeOf(h) \in Nodes
           /\ call[h] # Idle => call[h] \in Requests
BY DEF TypeOK, Handles, NodeOf

LEMMA RingTurns ==
    ASSUME TypeOK, NEW c \in Clients, NEW at \in Nodes, NEW hint \in Nat,
           rotate_ring_on_error(c, at, hint)
    PROVE  active' \in [Clients -> Nodes] /\ rotated' \in BOOLEAN /\ (rotated => rotated')
<1>1. NextIndex(at, hint) \in Nodes
  <2>1. CASE N \in Nat \ {0} /\ at < N
        BY <2>1 DEF NextIndex, Nodes
  <2>2. CASE N \in Nat \ {0} /\ at = N
        BY <2>2 DEF NextIndex, Nodes
  <2> QED BY <2>1, <2>2, GrpcPortAssumption DEF Nodes
<1> QED BY <1>1 DEF rotate_ring_on_error, TypeOK

\* Callers give up leases of theirs, for good.
EndedGrows == ended \subseteq ended' /\ ended' \subseteq ended \cup given

\* A caller asks for a call, or is refused before one is made.
LEMMA CallersMove ==
    ASSUME TypeOK, LeasesOK, Callers
    PROVE  /\ UNCHANGED <<cluster, active, rotated, table, given, acked, delivered, missed, faults>>
           /\ EndedGrows
           /\ call' = call \/ CallMoves
<1>1. ASSUME NEW h \in Handles, NEW r \in Requests, Starts(h, r), EndedGrows, 
             r.op \in (IF h[2] = "port" THEN PortOps ELSE ChannelOps),
             r.op = "put" => r.qid \in Qids,
             r.op \in Ends => \E l \in ended' : l[1] = h[1] /\ Knows(l[1], l[2], l[3])
                                 /\ r.qid = l[2] /\ r.grant = table[l[1]][l[2]]
      PROVE  /\ UNCHANGED <<cluster, active, rotated, table, given, acked, delivered, missed, faults>>
             /\ CallMoves
      BY <1>1 DEF Starts, CallMoves, Asks
<1>2. \A op \in PortOps \cup ChannelOps, q \in Nat, g \in Nat :
         Request(op, q, g) \in Requests /\ Request(op, q, g).op = op
           /\ Request(op, q, g).qid = q /\ Request(op, q, g).grant = g
      BY GrpcPortAssumption DEF Request, Requests
<1>3. Qids \subseteq Nat
      BY QidCount
<1>4. ASSUME NEW c \in Clients, Enqueue(c) \/ Lease(c)
      PROVE  /\ UNCHANGED <<cluster, active, rotated, table, given, acked, delivered, missed, faults>>
             /\ EndedGrows /\ CallMoves
  <2>1. <<c, "port">> \in Handles
        BY DEF Handles
  <2>2. {"enqueue", "lease"} \subseteq PortOps
        BY DEF PortOps
  <2>3. \E op \in {"enqueue", "lease"} :
           Starts(<<c, "port">>, Request(op, 0, 0)) /\ EndedGrows
        BY <1>4 DEF Enqueue, Lease, EndedGrows
  <2> QED BY <2>1, <2>2, <2>3, <1>1, <1>2 DEF Ends
<1>5. ASSUME NEW c \in Clients, State(c)
      PROVE  /\ UNCHANGED <<cluster, active, rotated, table, given, acked, delivered, missed, faults>>
             /\ EndedGrows /\ CallMoves
  <2>1. <<c, "port">> \in Handles /\ "state" \in PortOps
        BY DEF Handles, PortOps
  <2> QED BY <2>1, <1>1, <1>2, <1>5 DEF State, Ends, EndedGrows
<1>6. ASSUME NEW c \in Clients, NEW q \in Qids, Get(c, q)
      PROVE  /\ UNCHANGED <<cluster, active, rotated, table, given, acked, delivered, missed, faults>>
             /\ EndedGrows /\ CallMoves
  <2>1. <<c, "channel">> \in Handles /\ "get" \in ChannelOps
        BY DEF Handles, ChannelOps
  <2> QED BY <2>1, <1>1, <1>2, <1>3, <1>6 DEF Get, Ends, EndedGrows
<1>7. ASSUME NEW l \in given, Finish(l[1], "complete", l) \/ Finish(l[1], "fail", l)
      PROVE  /\ UNCHANGED <<cluster, active, rotated, table, given, acked, delivered, missed, faults>>
             /\ EndedGrows /\ (call' = call \/ CallMoves)
  <2>1. PICK op \in Ends : Finish(l[1], op, l)
        BY <1>7 DEF Ends
  <2>2. l[1] \in Clients /\ l[2] \in Qids
        BY DEF LeasesOK
  <2>3. ended' = ended \cup {l}
        BY <2>1 DEF Finish
  <2>4. CASE Knows(l[1], l[2], l[3])
    <3>1. Starts(<<l[1], "port">>, Request(op, l[2], table[l[1]][l[2]]))
          BY <2>1, <2>4 DEF Finish
    <3>2. table[l[1]][l[2]] \in Nat
          BY <2>2, <2>4 DEF Knows, LeasesOK, TypeOK
    <3>3. <<l[1], "port">> \in Handles /\ op \in PortOps
          BY <2>2 DEF Handles, PortOps, Ends
    <3> DEFINE t == table[l[1]][l[2]]
               r == Request(op, l[2], t)
    <3> HIDE DEF t
    <3>4. r \in Requests /\ r.op = op /\ r.qid = l[2] /\ r.grant = t
      <4>1. l[2] \in Nat /\ op \in PortOps \cup ChannelOps /\ t \in Nat
            BY <1>3, <2>2, <3>2, <3>3 DEF t
      <4> QED BY <1>2, <4>1
    <3>5. op # "put"
          BY DEF Ends
    <3>6. Starts(<<l[1], "port">>, r)
          BY <3>1 DEF t
    <3> HIDE DEF r
    <3> DEFINE h == <<l[1], "port">>
    <3>7. h \in Handles /\ h[1] = l[1] /\ h[2] = "port" /\ Starts(h, r)
          BY <3>3, <3>6
    <3> HIDE DEF h
    <3>8. EndedGrows
          BY <2>3 DEF EndedGrows
    <3>9. r.op \in (IF h[2] = "port" THEN PortOps ELSE ChannelOps)
          BY <3>3, <3>4, <3>7
    <3>10. r.op \in Ends => \E m \in ended' : m[1] = h[1] /\ Knows(m[1], m[2], m[3])
                                /\ r.qid = m[2] /\ r.grant = table[m[1]][m[2]]
          BY <2>3, <2>4, <3>4, <3>7 DEF t
    <3>11. r.op = "put" => r.qid \in Qids
          BY <3>4, <3>5
    <3>12. r \in Requests
          BY <3>4
    <3> QED BY <1>1, <3>7, <3>8, <3>9, <3>10, <3>11, <3>12
  <2>5. CASE ~Knows(l[1], l[2], l[3])
        BY <2>1, <2>3, <2>5 DEF Finish, EndedGrows
  <2> QED BY <2>4, <2>5
<1>8. ASSUME NEW l \in given, Heartbeat(l[1], l)
      PROVE  /\ UNCHANGED <<cluster, active, rotated, table, given, acked, delivered, missed, faults>>
             /\ EndedGrows /\ CallMoves
  <2>1. l[1] \in Clients /\ l[2] \in Qids
        BY DEF LeasesOK
  <2>2. table[l[1]][l[2]] \in Nat
        BY <1>8, <2>1 DEF Heartbeat, Knows, LeasesOK, TypeOK
  <2>3. <<l[1], "port">> \in Handles /\ "heartbeat" \in PortOps
        BY <2>1 DEF Handles, PortOps
  <2> DEFINE t == table[l[1]][l[2]]
             r == Request("heartbeat", l[2], t)
  <2> HIDE DEF t
  <2>4. r \in Requests /\ r.op = "heartbeat"
    <3>1. l[2] \in Nat /\ "heartbeat" \in PortOps \cup ChannelOps /\ t \in Nat
          BY <1>3, <2>1, <2>2, <2>3 DEF t
    <3> QED BY <1>2, <3>1
  <2>5. Starts(<<l[1], "port">>, r) /\ ended' = ended
        BY <1>8 DEF Heartbeat, t
  <2> DEFINE h == <<l[1], "port">>
  <2>6. h \in Handles /\ Starts(h, r) /\ EndedGrows
        BY <2>3, <2>5 DEF EndedGrows
  <2>7. r.op \in (IF h[2] = "port" THEN PortOps ELSE ChannelOps)
        BY <2>3, <2>4
  <2>8. r.op # "put" /\ r.op \notin Ends
        BY <2>4 DEF Ends
  <2> HIDE DEF r, h
  <2> QED BY <1>1, <2>4, <2>6, <2>7, <2>8
<1>9. ASSUME NEW l \in given, Put(l[1], l)
      PROVE  /\ UNCHANGED <<cluster, active, rotated, table, given, acked, delivered, missed, faults>>
             /\ EndedGrows /\ CallMoves
  <2>1. l[1] \in Clients /\ l[2] \in Qids
        BY DEF LeasesOK
  <2>2. <<l[1], "channel">> \in Handles /\ "put" \in ChannelOps
        BY <2>1 DEF Handles, ChannelOps
  <2> DEFINE q == l[2]
             r == Request("put", q, 0)
  <2> HIDE DEF q
  <2>3. r \in Requests /\ r.op = "put" /\ r.qid \in Qids
    <3>1. q \in Nat /\ q \in Qids /\ "put" \in PortOps \cup ChannelOps
          BY <1>3, <2>1, <2>2 DEF q
    <3> QED BY <1>2, <3>1
  <2>4. Starts(<<l[1], "channel">>, r) /\ ended' = ended
        BY <1>9 DEF Put, q
  <2> DEFINE h == <<l[1], "channel">>
  <2>5. h \in Handles /\ Starts(h, r) /\ EndedGrows
        BY <2>2, <2>4 DEF EndedGrows
  <2>6. r.op \in (IF h[2] = "port" THEN PortOps ELSE ChannelOps)
        BY <2>2, <2>3
  <2>7. r.op \notin Ends
        BY <2>3 DEF Ends
  <2> HIDE DEF r, h
  <2> QED BY <1>1, <2>3, <2>5, <2>6, <2>7
<1> QED BY <1>4, <1>5, <1>6, <1>7, <1>8, <1>9, GrpcPortAssumption DEF Callers

LEMMA FailsMoves ==
    ASSUME TypeOK, NEW h \in Handles, call[h] # Idle, NEW hint \in Nat, Fails(h, hint)
    PROVE  CallMoves
<1> DEFINE r == [call[h] EXCEPT !.at = NodeOf(h), !.hint = hint]
<1>1. call[h] \in Requests /\ NodeOf(h) \in Nodes /\ NodeOf(h) \in 0 .. N
      BY HandleFacts, GrpcPortAssumption DEF Nodes
<1>2. r \in Requests /\ r.op = call[h].op /\ r.qid = call[h].qid /\ r.grant = call[h].grant
      BY <1>1 DEF Requests
<1>3. call' = [call EXCEPT ![h] = r]
      BY <1>1 DEF Fails, TypeOK, Requests
<1> HIDE DEF r
<1> QED BY <1>2, <1>3 DEF CallMoves, GoesOn

\* What a move leaves of the types of the calls.
LEMMA CallsTyped ==
    ASSUME TypeOK, AckedOK, Qids \subseteq Qids', call' = call \/ CallMoves
    PROVE  /\ call' \in [Handles -> Requests \cup {Idle}]
           /\ \A c \in Clients : /\ call'[<<c, "port">>].op \notin ChannelOps
                                 /\ call'[<<c, "channel">>].op \notin PortOps
           /\ \A h \in Handles : call'[h].op = "put" => call'[h].qid \in Qids'
<1>1. CASE call' = call
      BY <1>1 DEF TypeOK, AckedOK
<1>2. CASE CallMoves
  <2>1. PICK h \in Handles, r \in Requests \cup {Idle} :
           /\ call' = [call EXCEPT ![h] = r]
           /\ r = Idle \/ (r \in Requests /\ (Asks(h, r) \/ GoesOn(h, r)))
        BY <1>2 DEF CallMoves
  <2>2. call' \in [Handles -> Requests \cup {Idle}]
        BY <2>1 DEF TypeOK
  <2>3. \A k \in Handles : k # h => call'[k] = call[k]
        BY <2>1 DEF TypeOK
  <2>4. call'[h] = r
        BY <2>1 DEF TypeOK
  <2>5. r.op = "put" => r.qid \in Qids'
        BY <2>1 DEF AckedOK, Asks, GoesOn, Idle
  <2>6. /\ h[2] = "port" => r.op \notin ChannelOps
        /\ h[2] = "channel" => r.op \notin PortOps
    <3>1. CASE r = Idle
          BY <3>1 DEF Idle, ChannelOps, PortOps
    <3>2. CASE Asks(h, r)
          BY <3>2 DEF Asks, ChannelOps, PortOps
    <3>3. CASE GoesOn(h, r)
      <4>1. PICK c \in Clients : h = <<c, "port">> \/ h = <<c, "channel">>
            BY DEF Handles
      <4>2. /\ call[<<c, "port">>].op \notin ChannelOps
            /\ call[<<c, "channel">>].op \notin PortOps
            BY DEF TypeOK
      <4>3. CASE h = <<c, "port">>
            BY <3>3, <4>2, <4>3 DEF GoesOn
      <4>4. CASE h = <<c, "channel">>
            BY <3>3, <4>2, <4>4 DEF GoesOn
      <4> QED BY <4>1, <4>3, <4>4
    <3> QED BY <2>1, <3>1, <3>2, <3>3
  <2>7. ASSUME NEW c \in Clients
        PROVE  /\ call'[<<c, "port">>].op \notin ChannelOps
               /\ call'[<<c, "channel">>].op \notin PortOps
    <3>1. <<c, "port">> \in Handles /\ <<c, "channel">> \in Handles
          BY DEF Handles
    <3>2. call'[<<c, "port">>].op \notin ChannelOps
          BY <2>3, <2>4, <2>6, <3>1 DEF TypeOK
    <3>3. call'[<<c, "channel">>].op \notin PortOps
          BY <2>3, <2>4, <2>6, <3>1 DEF TypeOK
    <3> QED BY <3>2, <3>3
  <2>8. \A k \in Handles : call'[k].op = "put" => call'[k].qid \in Qids'
        BY <2>3, <2>4, <2>5 DEF AckedOK
  <2> QED BY <2>2, <2>7, <2>8
<1> QED BY <1>1, <1>2

\* A request adds a task or a lease at most.
LEMMA ServesCount ==
    ASSUME TypeOK, NEW n \in Nodes, NEW r \in Requests, Serves(n, r)
    PROVE  /\ Count \in Nat /\ Count' \in Nat
           /\ Count' + grants' <= Count + grants + 1
<1> DEFINE reply == Reply(n, r)
<1>1. Count \in Nat /\ grants \in Nat
      BY QidCount DEF Count, TypeOK
<1>2. CASE Grows(r, reply)
  <2>1. Qids' = 1 .. Count + 1
        BY <1>2 DEF Grows, Qids
  <2>2. Count' = Count + 1
        BY <1>1, <2>1, FS_Interval DEF Count
  <2> QED BY <1>1, <1>2, <2>2 DEF Grows
<1>3. CASE Grants(r, reply)
  <2>1. Count' = Count
        BY <1>3, GrantsAdvances DEF Count
  <2> QED BY <1>1, <1>3, <2>1 DEF Grants
<1>4. CASE EndsLease(r, reply)
  <2>1. Count' = Count
        BY <1>4, EndAdvances DEF Count, EndsLease, Leased
  <2> QED BY <1>1, <1>4, <2>1 DEF EndsLease
<1>5. CASE Nothing(r, reply)
      BY <1>1, <1>5 DEF Nothing, Count, Qids
<1> QED BY <1>2, <1>3, <1>4, <1>5, ServesEffect

\* What every step does, seen from far: the queue advances, calls move, and,
\* unless a call returns, the port's and the callers' books are not touched
\* while the queue gains no more than was lost.
Quiet ==
    /\ UNCHANGED <<table, given, acked, delivered>>
    /\ EndedGrows
    /\ call' = call \/ CallMoves
    /\ Count' + grants' + faults <= Count + grants + faults'

Places ==
    /\ leader \in 0 .. N /\ believes \in [Nodes -> Nodes]
    /\ died \in BOOLEAN /\ rotated \in BOOLEAN
    /\ stored \in [Nodes -> SUBSET Nat]
    /\ active \in [Clients -> Nodes]

LEMMA CallersStep ==
    ASSUME TypeOK, LeasesOK, Callers
    PROVE  Quiet /\ Advances /\ Places' /\ faults' = faults
<1>1. UNCHANGED <<tasks, grants>> /\ Places' /\ Count' = Count /\ grants \in Nat /\ faults \in Nat
      BY CallersMove DEF cluster, Places, TypeOK, Count, Qids
<1>2. Count \in Nat
      BY QidCount DEF Count
<1> QED BY <1>1, <1>2, CallersMove, QuietAdvances DEF Quiet

\* An attempt that does not reach the node that would serve it.
LEMMA MissStep ==
    ASSUME TypeOK, NEW h \in Handles, Refused(h) \/ Unreached(h)
    PROVE  Quiet /\ Advances /\ Places' /\ faults' \in Nat
<1>1. call[h] # Idle
      BY DEF Refused, Unreached, Sending
<1>2. call[h] \in Requests /\ NodeOf(h) \in Nodes
      BY <1>1, HandleFacts
<1>3. \E hint \in Nat : Fails(h, hint)
  <2>1. CASE Refused(h)
    <3>1. PICK hint \in {believes[NodeOf(h)]} \cup (IF leader = 0 THEN {0} ELSE {}) : Fails(h, hint)
          BY <2>1 DEF Refused
    <3>2. believes[NodeOf(h)] \in Nat
          BY <1>2, GrpcPortAssumption DEF TypeOK, Nodes
    <3> QED BY <3>1, <3>2
  <2>2. CASE Unreached(h)
        BY <2>2, <1>2 DEF Unreached, Requests
  <2> QED BY <2>1, <2>2
<1>4. CallMoves
      BY <1>1, <1>3, FailsMoves
<1>5. UNCHANGED <<cluster, active, rotated, table, history>>
      BY DEF Refused, Unreached
<1>6. faults' \in Nat /\ faults <= faults'
      BY DEF Refused, Unreached, TypeOK
<1>7. Count \in Nat /\ Count' = Count /\ grants \in Nat
      BY <1>5, QidCount DEF Count, Qids, cluster, TypeOK
<1>8. Advances /\ Places'
      BY <1>5, QuietAdvances DEF cluster, Places, TypeOK
<1>9. Count' + grants' + faults <= Count + grants + faults'
      BY <1>5, <1>6, <1>7 DEF cluster, TypeOK
<1> QED BY <1>4, <1>5, <1>6, <1>8, <1>9 DEF Quiet, history, EndedGrows

LEMMA ServesPlaces ==
    ASSUME TypeOK, NEW n \in Nodes, NEW r \in Requests, Serves(n, r)
    PROVE  /\ UNCHANGED <<leader, believes, down, died>>
           /\ stored' = [stored EXCEPT ![n] = Kept(@, r)]
           /\ stored' \in [Nodes -> SUBSET Nat]
BY DEF Serves, Kept, Requests, TypeOK

LEMMA ReplyLostStep ==
    ASSUME TypeOK, NEW h \in Handles, ReplyLost(h)
    PROVE  Quiet /\ Advances /\ Places' /\ faults' \in Nat
<1>1. call[h] # Idle /\ Serves(NodeOf(h), call[h])
      BY DEF ReplyLost, Reaches, Sending
<1>2. call[h] \in Requests /\ NodeOf(h) \in Nodes
      BY <1>1, HandleFacts
<1>3. call[h].hint \in Nat /\ Fails(h, call[h].hint)
      BY <1>2 DEF ReplyLost, Requests
<1>4. CallMoves
      BY <1>1, <1>3, FailsMoves
<1>5. UNCHANGED <<active, rotated, table, history>>
      BY DEF ReplyLost
<1>6. faults' = faults + 1 /\ faults \in Nat /\ grants \in Nat
      BY DEF ReplyLost, TypeOK
<1>7. Advances
      BY <1>1, <1>2, ServesAdvances
<1>8. Places'
      BY <1>1, <1>2, <1>5, ServesPlaces DEF Places, TypeOK
<1>9. Count \in Nat /\ Count' \in Nat /\ Count' + grants' <= Count + grants + 1
      BY <1>1, <1>2, ServesCount
<1>10. Count' + grants' + faults <= Count + grants + faults'
      BY <1>6, <1>7, <1>9 DEF Advances
<1> QED BY <1>4, <1>5, <1>6, <1>7, <1>8, <1>10 DEF Quiet, history, EndedGrows

LEMMA RetryStep ==
    ASSUME TypeOK, NEW h \in Handles, Retry(h)
    PROVE  Quiet /\ Advances /\ Places' /\ faults' = faults /\ (rotated => rotated')
<1>1. call[h] # Idle /\ call[h].at # 0
      BY DEF Retry, Rotating
<1>2. call[h] \in Requests
      BY <1>1, HandleFacts
<1>3. call[h].at \in Nodes /\ call[h].hint \in Nat
      BY <1>1, <1>2, GrpcPortAssumption DEF Requests, Nodes
<1>4. active' \in [Clients -> Nodes] /\ rotated' \in BOOLEAN /\ (rotated => rotated')
      BY <1>3, RingTurns, HandleFacts DEF Retry
<1> DEFINE r == [call[h] EXCEPT !.at = 0]
<1>5. r \in Requests /\ r.op = call[h].op /\ r.qid = call[h].qid /\ r.grant = call[h].grant
      BY <1>2, GrpcPortAssumption DEF Requests
<1>6. call' = [call EXCEPT ![h] = r]
      BY <1>2 DEF Retry, TypeOK, Requests
<1> HIDE DEF r
<1>7. CallMoves
      BY <1>1, <1>5, <1>6 DEF CallMoves, GoesOn
<1>8. UNCHANGED <<cluster, table, history, gets, faults>>
      BY DEF Retry
<1>9. Count \in Nat /\ Count' = Count /\ grants \in Nat
      BY <1>8, QidCount DEF Count, Qids, cluster, TypeOK
<1>10. Advances /\ Places'
      BY <1>4, <1>8, QuietAdvances DEF cluster, Places, TypeOK
<1>11. Count' + grants' + faults <= Count + grants + faults'
      BY <1>8, <1>9 DEF cluster, TypeOK
<1> QED BY <1>4, <1>7, <1>8, <1>10, <1>11 DEF Quiet, history, EndedGrows

ClusterStep ==
    \/ \E q \in Qids : Expire(q)
    \/ \E n \in Nodes : Crash(n) \/ Restart(n) \/ Elect(n) \/ Learn(n)
    \/ StepDown

LEMMA ClusterQuiet ==
    ASSUME TypeOK, ClusterStep
    PROVE  Quiet /\ Advances /\ Places' /\ faults' \in Nat /\ UNCHANGED <<active, rotated>>
<1>1. Elsewhere
      BY DEF ClusterStep, Expire, Crash, Restart, Elect, Learn, StepDown
<1>2. Count \in Nat /\ grants \in Nat /\ faults \in Nat
      BY QidCount DEF Count, TypeOK
<1>3. grants' = grants
      BY DEF ClusterStep, Expire, Crash, Restart, Elect, Learn, StepDown
<1>4. faults' \in Nat /\ faults <= faults'
      BY <1>2 DEF ClusterStep, Expire, Crash, Restart, Elect, Learn, StepDown
<1>5. Advances /\ Qids' = Qids
  <2>1. ASSUME NEW q \in Qids, Expire(q)
        PROVE  Advances /\ Qids' = Qids
        BY <2>1, ExpireAdvances
  <2>2. CASE UNCHANGED tasks
        BY <2>2, <1>3, QuietAdvances DEF Qids
  <2> QED BY <2>1, <2>2 DEF ClusterStep, Crash, Restart, Elect, Learn, StepDown
<1>6. Places'
  <2>1. UNCHANGED <<active, rotated>>
        BY <1>1 DEF Elsewhere
  <2>2. leader' \in 0 .. N
        BY GrpcPortAssumption
        DEF ClusterStep, Expire, Crash, Restart, Elect, Learn, StepDown, TypeOK, Nodes
  <2>3. believes' \in [Nodes -> Nodes]
    <3>1. \A n \in Nodes : Learn(n) => leader \in Nodes
          BY GrpcPortAssumption DEF Learn, TypeOK, Nodes
    <3> QED BY <3>1 DEF ClusterStep, Expire, Crash, Restart, Elect, Learn, StepDown, TypeOK
  <2>4. died' \in BOOLEAN
        BY DEF ClusterStep, Expire, Crash, Restart, Elect, Learn, StepDown, TypeOK
  <2>5. stored' \in [Nodes -> SUBSET Nat]
        BY DEF ClusterStep, Expire, Crash, Restart, Elect, Learn, StepDown, TypeOK
  <2> QED BY <2>1, <2>2, <2>3, <2>4, <2>5 DEF Places, TypeOK
<1>7. Count' = Count /\ Count' \in Nat
      BY <1>2, <1>5 DEF Count
<1>8. Count' + grants' + faults <= Count + grants + faults'
  <2>1. Count' + grants' = Count + grants
        BY <1>3, <1>7
  <2> QED BY <1>2, <1>4, <2>1
<1> QED BY <1>1, <1>4, <1>5, <1>6, <1>8 DEF Quiet, Elsewhere, history, EndedGrows

LEMMA StutterQuiet ==
    ASSUME TypeOK, UNCHANGED vars
    PROVE  Quiet /\ Advances /\ Places' /\ faults' \in Nat
<1>1. Count \in Nat /\ Count' = Count /\ grants \in Nat /\ faults \in Nat
      BY QidCount DEF Count, Qids, vars, cluster, TypeOK
<1>2. Advances /\ Places'
      BY QuietAdvances DEF vars, cluster, Places, TypeOK
<1>3. Count' + grants' + faults <= Count + grants + faults'
      BY <1>1 DEF vars, cluster
<1>4. UNCHANGED <<table, given, acked, delivered, ended, call, faults>>
      BY DEF vars, history
<1> QED BY <1>1, <1>2, <1>3, <1>4 DEF Quiet, EndedGrows

\* The books of the port and of its callers when a call returns.
LEMMA ReturnMoves ==
    ASSUME TypeOK, NEW h \in Handles, NEW reply, Returns(h, call[h], reply)
    PROVE  CallMoves /\ call'[h] = Idle /\ \A k \in Handles : k # h => call'[k] = call[k]
BY DEF Returns, CallMoves, TypeOK

LEMMA GiveUpStep ==
    ASSUME TypeOK, NEW h \in Handles, GiveUp(h)
    PROVE  /\ CallMoves /\ Advances /\ Places' /\ UNCHANGED <<faults, ended, given, acked, delivered>>
           /\ UNCHANGED <<tasks, grants>>
           /\ table' = IF call[h].op \in Ends THEN [table EXCEPT ![h[1]] = Erased(@, call[h].qid)]
                       ELSE table
<1>1. call[h] # Idle /\ call[h].at # 0
      BY DEF GiveUp, Rotating
<1>2. call[h] \in Requests
      BY <1>1, HandleFacts
<1>3. call[h].at \in Nodes /\ call[h].hint \in Nat
      BY <1>1, <1>2, GrpcPortAssumption DEF Requests, Nodes
<1>4. active' \in [Clients -> Nodes] /\ rotated' \in BOOLEAN
      BY <1>3, RingTurns, HandleFacts DEF GiveUp
<1>5. Returns(h, call[h], Says("gave_up", call[h].qid, call[h].grant))
      BY DEF GiveUp
<1>6. UNCHANGED <<cluster, ended, faults>>
      BY DEF GiveUp
<1>7. Advances /\ Places'
      BY <1>4, <1>6, QuietAdvances DEF cluster, Places, TypeOK
<1>8. UNCHANGED <<given, acked, delivered>>
      BY <1>5 DEF Returns, Says
<1>9. table' = IF call[h].op \in Ends THEN [table EXCEPT ![h[1]] = Erased(@, call[h].qid)]
                       ELSE table
      BY <1>5 DEF Returns, Says, Ends
<1> QED BY <1>5, <1>6, <1>7, <1>8, <1>9, ReturnMoves DEF cluster

\* A call served and answered: the four things a node can have done, and what
\* the caller is told of each.
LEMMA ServedStep ==
    ASSUME TypeOK, NEW h \in Handles, Served(h)
    PROVE  /\ call[h] \in Requests /\ NodeOf(h) \in Nodes /\ Serves(NodeOf(h), call[h])
           /\ Returns(h, call[h], Reply(NodeOf(h), call[h]))
           /\ CallMoves /\ Advances /\ Places' /\ UNCHANGED <<faults, ended, active, rotated>>
<1>1. call[h] # Idle /\ Serves(NodeOf(h), call[h])
      BY DEF Served, Reaches, Sending
<1>2. call[h] \in Requests /\ NodeOf(h) \in Nodes
      BY <1>1, HandleFacts
<1>3. Advances
      BY <1>1, <1>2, ServesAdvances
<1>4. UNCHANGED <<faults, ended, active, rotated>>
      BY DEF Served
<1>5. Places'
      BY <1>1, <1>2, <1>4, ServesPlaces DEF Places, TypeOK
<1>6. Returns(h, call[h], Reply(NodeOf(h), call[h]))
      BY DEF Served
<1> QED BY <1>1, <1>2, <1>3, <1>4, <1>5, <1>6, ReturnMoves

LEMMA StepCases ==
    ASSUME TypeOK, LeasesOK, [Next]_vars
    PROVE  \/ Quiet /\ Advances /\ Places' /\ faults' \in Nat
           \/ \E h \in Handles : Served(h) \/ GiveUp(h)
<1>0. faults \in Nat
      BY DEF TypeOK
<1>1. CASE Callers
      BY <1>0, <1>1, CallersStep
<1>2. ASSUME NEW h \in Handles, Attempt(h) \/ Retry(h) \/ GiveUp(h)
      PROVE  \/ Quiet /\ Advances /\ Places' /\ faults' \in Nat
             \/ Served(h) \/ GiveUp(h)
      BY <1>0, <1>2, MissStep, ReplyLostStep, RetryStep DEF Attempt
<1>3. CASE ClusterStep
      BY <1>3, ClusterQuiet
<1>4. CASE UNCHANGED vars
      BY <1>4, StutterQuiet
<1> QED BY <1>1, <1>2, <1>3, <1>4 DEF Next, ClusterStep

-----------------------------------------------------------------------------
(* The invariant is inductive.                                               *)

Told == Cardinality({a \in acked : a[1] = "enqueue"}) + Cardinality(given)

LEMMA CountNext ==
    ASSUME Advances
    PROVE  Count' \in Nat /\ grants' \in Nat
<1>1. PICK k \in Nat : Qids' = 1 .. k
      BY DEF Advances
<1>2. Count' = k
      BY <1>1, FS_Interval DEF Count
<1> QED BY <1>2 DEF Advances

LEMMA ToldNat ==
    ASSUME Finite
    PROVE  /\ Cardinality({a \in acked : a[1] = "enqueue"}) \in Nat
           /\ Cardinality(given) \in Nat /\ Told \in Nat
           /\ IsFiniteSet({a \in acked : a[1] = "enqueue"})
<1>1. IsFiniteSet({a \in acked : a[1] = "enqueue"})
      BY FS_Subset DEF Finite
<1>2. Cardinality({a \in acked : a[1] = "enqueue"}) \in Nat /\ Cardinality(given) \in Nat
      BY <1>1, FS_CardinalityType DEF Finite
<1> QED BY <1>1, <1>2 DEF Told

LEMMA TypeStep ==
    ASSUME TypeOK, AckedOK, Advances, Places', faults' \in Nat, call' = call \/ CallMoves,
           table' = [c \in Clients |-> table'[c]]
    PROVE  TypeOK'
<1>1. Qids \subseteq Qids'
      BY DEF Advances
<1>2. /\ call' \in [Handles -> Requests \cup {Idle}]
      /\ \A c \in Clients : /\ call'[<<c, "port">>].op \notin ChannelOps
                            /\ call'[<<c, "channel">>].op \notin PortOps
      BY <1>1, CallsTyped
<1>3. /\ grants' \in Nat /\ (\E k \in Nat : Qids' = 1 .. k) /\ tasks' \in [Qids' -> Task']
      BY DEF Advances
<1>4. Places'
      OBVIOUS
<1> QED BY <1>2, <1>3, <1>4 DEF TypeOK, Places

\* An acknowledgement outlives every step.
LEMMA AckedStep ==
    ASSUME TypeOK, AckedOK, Advances, call' = call \/ CallMoves,
           acked' \subseteq Commits \X Qids' \X Nat,
           \A a \in acked' \ acked : a[1] = "complete" =>
               tasks'[a[2]].state = "completed" /\ tasks'[a[2]].grant = a[3]
    PROVE  AckedOK'
<1>1. ASSUME NEW a \in acked, a[1] = "complete"
      PROVE  tasks'[a[2]].state = "completed" /\ tasks'[a[2]].grant = a[3]
      BY <1>1 DEF AckedOK, Advances
<1>2. \A k \in Handles : call'[k].op = "put" => call'[k].qid \in Qids'
      BY CallsTyped DEF Advances
<1> QED BY <1>1, <1>2 DEF AckedOK

LEMMA QuietKeeps ==
    ASSUME IInv, Quiet, Advances, Places', faults' \in Nat
    PROVE  IInv'
<1>1. TypeOK'
      BY TypeStep DEF IInv, Quiet, TypeOK
<1>2. LeasesOK'
  <2>1. Qids \subseteq Qids' /\ 1 .. grants \subseteq 1 .. grants'
        BY DEF Advances
  <2>2. UNCHANGED <<given, table>>
        BY DEF Quiet
  <2> QED BY <2>1, <2>2 DEF IInv, LeasesOK
<1>3. acked' \subseteq Commits \X Qids' \X Nat /\ acked' = acked
      BY DEF IInv, AckedOK, Quiet, Advances
<1>4. AckedOK'
      BY <1>3, AckedStep DEF IInv, Quiet
<1>5. Finite'
      BY DEF IInv, Finite, Quiet
<1>6. Told' = Told /\ Told \in Nat
      BY ToldNat DEF IInv, Quiet, Told
<1>7. Count + grants - Told <= faults
      BY DEF IInv, WasteIsLostReplies, Told, Count
<1>8. /\ Count \in Nat /\ grants \in Nat /\ faults \in Nat
      /\ Count' \in Nat /\ grants' \in Nat
      BY <1>1, QidCount, CountNext DEF IInv, TypeOK, Count
<1>9. Count' + grants' - Told' <= faults'
  <2>1. Count' + grants' + faults <= Count + grants + faults'
        BY DEF Quiet
  <2>2. \A c, g, f, t, c1, g1, f1 \in Nat :
            c + g - t <= f /\ c1 + g1 + f <= c + g + f1 => c1 + g1 - t <= f1
        OBVIOUS
  <2>3. faults' \in Nat
        OBVIOUS
  <2>4. Count' + grants' - Told <= faults'
        BY <1>6, <1>7, <1>8, <2>1, <2>2, <2>3, Zenon
  <2> QED BY <1>6, <2>4
<1>10. WasteIsLostReplies'
      BY <1>9 DEF WasteIsLostReplies, Told, Count
<1> QED BY <1>1, <1>2, <1>4, <1>5, <1>10 DEF IInv

\* A call that brings its caller neither a task nor a lease.
LEMMA SettlesKeeps ==
    ASSUME IInv, NEW h \in Handles, CallMoves, Advances, Places', Qids' = Qids,
           UNCHANGED <<faults, grants, given>>,
           table' \in {table, [table EXCEPT ![h[1]] = Erased(@, call[h].qid)]},
           NEW S \in SUBSET (Commits \X Qids \X Nat), acked' = acked \cup S, IsFiniteSet(S),
           \A a \in S : /\ a[1] # "enqueue"
                        /\ a[1] = "complete" =>
                              tasks'[a[2]].state = "completed" /\ tasks'[a[2]].grant = a[3]
    PROVE  IInv'
<1>1. faults \in Nat /\ table = [c \in Clients |-> table[c]] /\ h[1] \in Clients
      BY HandleFacts DEF IInv, TypeOK
<1>2. table' = [c \in Clients |-> table'[c]]
      BY <1>1
<1>3. TypeOK'
      BY <1>1, <1>2, TypeStep DEF IInv
<1>4. \A c \in Clients : \A q \in DOMAIN table'[c] :
          q \in DOMAIN table[c] /\ table'[c][q] = table[c][q]
      BY <1>1 DEF Erased
<1>5. LeasesOK'
      BY <1>4 DEF IInv, LeasesOK
<1>6. AckedOK'
  <2>1. acked' \subseteq Commits \X Qids' \X Nat
        BY DEF IInv, AckedOK
  <2>2. \A b \in acked' \ acked : b[1] = "complete" =>
           tasks'[b[2]].state = "completed" /\ tasks'[b[2]].grant = b[3]
        OBVIOUS
  <2> QED BY <2>1, <2>2, AckedStep DEF IInv
<1>7. Finite'
      BY FS_Union DEF IInv, Finite
<1>8. {b \in acked' : b[1] = "enqueue"} = {b \in acked : b[1] = "enqueue"}
      OBVIOUS
<1>9. WasteIsLostReplies'
      BY <1>8 DEF IInv, WasteIsLostReplies
<1> QED BY <1>3, <1>5, <1>6, <1>7, <1>9 DEF IInv

\* The caller of a new task is told of it.
LEMMA GrowsKeeps ==
    ASSUME IInv, NEW h \in Handles, Served(h), Grows(call[h], Reply(NodeOf(h), call[h]))
    PROVE  IInv'
<1> DEFINE n == Count + 1
           a == <<"enqueue", n, 0>>
<1>1. /\ CallMoves /\ Advances /\ Places' /\ UNCHANGED faults
      /\ Returns(h, call[h], Says("ok", n, 0)) /\ call[h].op = "enqueue"
      /\ Qids' = Qids \cup {n} /\ grants' = grants
      BY ServedStep, GrowsAdvances DEF IInv, Grows
<1>2. acked' = acked \cup {a} /\ given' = given /\ table' = table
      BY <1>1 DEF Returns, Says, Commits
<1>3. TypeOK'
      BY <1>1, <1>2, TypeStep DEF IInv, TypeOK
<1>4. Qids \subseteq Qids'
      BY <1>1
<1>5. LeasesOK'
      BY <1>1, <1>2, <1>4 DEF IInv, LeasesOK
<1>6. Count \in Nat /\ n \notin Qids /\ IsFiniteSet(Qids)
      BY QidCount DEF Count, IInv
<1>7. AckedOK'
  <2>1. a \in Commits \X Qids' \X Nat
        BY <1>1 DEF Commits
  <2>2. acked' \subseteq Commits \X Qids' \X Nat
        BY <1>2, <1>4, <2>1 DEF IInv, AckedOK
  <2> QED BY <1>1, <1>2, <2>2, AckedStep DEF IInv
<1>8. Finite'
      BY <1>2, FS_AddElement DEF IInv, Finite
<1>9. Told' = Told + 1 /\ Told \in Nat
  <2> DEFINE S == {b \in acked : b[1] = "enqueue"}
  <2>1. a \notin acked
        BY <1>6 DEF IInv, AckedOK
  <2>2. {b \in acked' : b[1] = "enqueue"} = S \cup {a}
        BY <1>2
  <2>3. IsFiniteSet(S) /\ Cardinality(S) \in Nat /\ Cardinality(given) \in Nat /\ Told \in Nat
        BY ToldNat DEF IInv
  <2>4. Cardinality(S \cup {a}) = Cardinality(S) + 1
        BY <2>1, <2>3, FS_AddElement
  <2>5. Told = Cardinality(S) + Cardinality(given)
        BY DEF Told
  <2>6. Told' = Cardinality(S \cup {a}) + Cardinality(given)
        BY <1>2, <2>2 DEF Told
  <2> HIDE DEF S, a
  <2> QED BY <2>3, <2>4, <2>5, <2>6
<1>10. Count' = Count + 1
      BY <1>1, <1>6, FS_AddElement DEF Count
<1>11. WasteIsLostReplies'
  <2>1. Count + grants - Told <= faults
        BY DEF IInv, WasteIsLostReplies, Told, Count
  <2>2. grants \in Nat /\ faults \in Nat
        BY DEF IInv, TypeOK
  <2>3. \A c, g, f, t \in Nat : c + g - t <= f => (c + 1) + g - (t + 1) <= f
        OBVIOUS
  <2>4. (Count + 1) + grants - (Told + 1) <= faults
        BY <1>6, <1>9, <2>1, <2>2, <2>3, Zenon
  <2>5. Count' + grants' - Told' <= faults'
        BY <1>1, <1>9, <1>10, <2>4
  <2> QED BY <2>5 DEF WasteIsLostReplies, Told, Count
<1> QED BY <1>3, <1>5, <1>7, <1>8, <1>11 DEF IInv

\* The caller of a new lease is handed it, and leases_ has it.
LEMMA GrantsKeeps ==
    ASSUME IInv, NEW h \in Handles, Served(h), Grants(call[h], Reply(NodeOf(h), call[h]))
    PROVE  IInv'
<1> DEFINE reply == Reply(NodeOf(h), call[h])
           q == reply.qid
           l == <<h[1], q, grants + 1>>
<1>1. /\ CallMoves /\ Advances /\ Places' /\ UNCHANGED faults
      /\ Returns(h, call[h], reply) /\ call[h].op = "lease"
      /\ reply.rc = "ok" /\ reply.grant = grants + 1 /\ q \in Qids
      /\ Qids' = Qids /\ grants' = grants + 1
      BY ServedStep, GrantsAdvances DEF IInv, Grants
<1> HIDE DEF reply
<1>2. /\ acked' = acked /\ given' = given \cup {l}
      /\ table' = [table EXCEPT ![h[1]] = Entered(@, q, grants + 1)]
      BY <1>1 DEF Returns, Commits
<1>3. /\ grants \in Nat /\ faults \in Nat /\ h[1] \in Clients
      /\ table = [c \in Clients |-> table[c]]
      BY HandleFacts DEF IInv, TypeOK
<1>4. TypeOK'
  <2>1. table' = [c \in Clients |-> table'[c]]
        BY <1>2, <1>3
  <2> QED BY <1>1, <1>3, <2>1, TypeStep DEF IInv
<1>5. LeasesOK'
  <2>1. l \in Clients \X Qids' \X (1 .. grants')
        BY <1>1, <1>3
  <2>2. given' \subseteq Clients \X Qids' \X (1 .. grants')
        BY <1>1, <1>2, <1>3, <2>1 DEF IInv, LeasesOK
  <2>3. \A m \in given : m[3] # grants + 1
        BY <1>3 DEF IInv, LeasesOK
  <2>4. \A m, k \in given' : m[3] = k[3] => m = k
        BY <1>2, <2>3 DEF IInv, LeasesOK
  <2>5. ASSUME NEW c \in Clients, NEW p \in DOMAIN table'[c]
        PROVE  table'[c][p] \in 1 .. grants'
    <3>1. CASE c = h[1]
      <4>1. table'[c] = Entered(table[c], q, grants + 1)
            BY <1>2, <1>3, <3>1
      <4>2. CASE p = q
            BY <1>1, <1>3, <4>1, <4>2 DEF Entered
      <4>3. CASE p # q
        <5>1. p \in DOMAIN table[c] /\ table'[c][p] = table[c][p]
              BY <2>5, <4>1, <4>3 DEF Entered
        <5> QED BY <1>1, <1>3, <5>1 DEF IInv, LeasesOK
      <4> QED BY <4>2, <4>3
    <3>2. CASE c # h[1]
      <4>1. table'[c] = table[c]
            BY <1>2, <1>3, <3>2
      <4> QED BY <1>1, <1>3, <2>5, <4>1 DEF IInv, LeasesOK
    <3> QED BY <3>1, <3>2
  <2> QED BY <2>2, <2>4, <2>5 DEF LeasesOK
<1>6. AckedOK'
  <2>1. acked' \subseteq Commits \X Qids' \X Nat
        BY <1>1, <1>2 DEF IInv, AckedOK
  <2> QED BY <1>1, <1>2, <2>1, AckedStep DEF IInv
<1>7. Finite'
      BY <1>2, FS_AddElement DEF IInv, Finite
<1>8. Told' = Told + 1 /\ Told \in Nat
  <2>1. l \notin given
        BY <1>3 DEF IInv, LeasesOK
  <2>2. Cardinality(given') = Cardinality(given) + 1
        BY <1>2, <2>1, FS_AddElement DEF IInv, Finite
  <2> QED BY <1>2, <2>2, ToldNat DEF Told, IInv
<1>9. WasteIsLostReplies'
  <2>1. Count + grants - Told <= faults
        BY DEF IInv, WasteIsLostReplies, Told, Count
  <2>2. Count \in Nat /\ Count' = Count
        BY <1>1, QidCount DEF Count, IInv
  <2>3. \A c, g, f, t \in Nat : c + g - t <= f => c + (g + 1) - (t + 1) <= f
        OBVIOUS
  <2>4. Count' + grants' - Told' <= faults'
        BY <1>1, <1>3, <1>8, <2>1, <2>2, <2>3
  <2> QED BY <2>4 DEF WasteIsLostReplies, Told, Count
<1> QED BY <1>4, <1>5, <1>6, <1>7, <1>9 DEF IInv

\* A lease that ends, by its holder.
LEMMA EndsKeeps ==
    ASSUME IInv, NEW h \in Handles, Served(h), EndsLease(call[h], Reply(NodeOf(h), call[h]))
    PROVE  IInv'
<1> DEFINE r == call[h]
           a == <<"complete", r.qid, r.grant>>
<1>1. /\ CallMoves /\ Advances /\ Places' /\ UNCHANGED <<faults, grants>>
      /\ r \in Requests /\ r.op \in Ends /\ Leased(r.qid, r.grant)
      /\ Returns(h, r, Says("ok", r.qid, r.grant))
      BY ServedStep DEF IInv, EndsLease
<1>2. PICK s \in States \ {"leased"} :
         /\ tasks' = [tasks EXCEPT ![r.qid] = [@ EXCEPT !.state = s]]
         /\ r.op = "complete" => s = "completed"
      BY DEF EndsLease
<1>3. r.qid \in Qids /\ tasks[r.qid].state = "leased" /\ tasks[r.qid].grant = r.grant
      BY <1>1 DEF Leased
<1>4. Qids' = Qids
      BY <1>1, <1>2, <1>3, EndAdvances DEF IInv
<1>5. /\ given' = given
      /\ table' \in {table, [table EXCEPT ![h[1]] = Erased(@, r.qid)]}
      /\ acked' = IF r.op = "complete" THEN acked \cup {a} ELSE acked
      BY <1>1 DEF Returns, Says, Ends, Commits
<1>6. a \in Commits \X Qids \X Nat
      BY <1>1, <1>3 DEF Commits, Requests
<1>7. acked' # acked => tasks'[r.qid].state = "completed" /\ tasks'[r.qid].grant = r.grant
  <2>1. tasks[r.qid] \in Task
        BY <1>3 DEF IInv, TypeOK
  <2> QED BY <1>2, <1>3, <1>5, <2>1 DEF Qids, Task
<1>8. a[1] = "complete" /\ a[2] = r.qid /\ a[3] = r.grant
      OBVIOUS
<1> HIDE DEF a, r
<1> DEFINE S == acked' \ acked
<1>9. S \subseteq {a} /\ acked' = acked \cup S
      BY <1>5
<1>10. IsFiniteSet(S)
      BY <1>9, FS_Singleton, FS_Subset
<1>11. \A b \in S : /\ b[1] # "enqueue"
                    /\ tasks'[b[2]].state = "completed" /\ tasks'[b[2]].grant = b[3]
      BY <1>7, <1>8, <1>9
<1> HIDE DEF S
<1>12. S \in SUBSET (Commits \X Qids \X Nat)
      BY <1>6, <1>9
<1> QED BY <1>1, <1>4, <1>5, <1>9, <1>10, <1>11, <1>12, SettlesKeeps DEF r

\* A call that changes nothing in the queue; a put tells of its task.
LEMMA NothingKeeps ==
    ASSUME IInv, NEW h \in Handles, Served(h), Nothing(call[h], Reply(NodeOf(h), call[h]))
    PROVE  IInv'
<1> DEFINE r == call[h]
           reply == Reply(NodeOf(h), r)
           a == <<"put", r.qid, 0>>
<1>1. /\ CallMoves /\ Advances /\ Places' /\ UNCHANGED <<faults, grants, tasks>>
      /\ r \in Requests /\ Returns(h, r, reply)
      /\ r.op # "enqueue" /\ (r.op \in Ends \cup {"lease"} => reply.rc # "ok")
      /\ r.op = "put" => reply = Says("ok", r.qid, 0)
      BY ServedStep DEF IInv, Nothing
<1>2. Qids' = Qids
      BY <1>1 DEF Qids
<1> HIDE DEF reply
<1>3. /\ given' = given
      /\ table' \in {table, [table EXCEPT ![h[1]] = Erased(@, r.qid)]}
      BY <1>1 DEF Returns
<1>4. acked' = acked \/ (r.op = "put" /\ acked' = acked \cup {a})
      BY <1>1 DEF Returns, Says, Ends, Commits
<1>5. r.op = "put" => a \in Commits \X Qids \X Nat
      BY DEF Commits, IInv, AckedOK
<1> DEFINE S == acked' \ acked
<1>6. S \subseteq {a} /\ acked' = acked \cup S /\ S \in SUBSET (Commits \X Qids \X Nat)
      BY <1>4, <1>5
<1>7. \A b \in S : b[1] = "put"
      BY <1>6
<1> HIDE DEF S, r, a
<1>8. IsFiniteSet(S)
  <2>1. IsFiniteSet({a})
        BY FS_Singleton
  <2> QED BY <1>6, <2>1, FS_Subset
<1> QED BY <1>1, <1>2, <1>3, <1>6, <1>7, <1>8, SettlesKeeps DEF r

LEMMA GiveUpKeeps ==
    ASSUME IInv, NEW h \in Handles, GiveUp(h)
    PROVE  IInv'
<1>1. /\ CallMoves /\ Advances /\ Places' /\ UNCHANGED <<faults, grants, given>>
      /\ acked' = acked /\ Qids' = Qids
      /\ table' \in {table, [table EXCEPT ![h[1]] = Erased(@, call[h].qid)]}
      BY GiveUpStep DEF IInv, Qids
<1>2. IsFiniteSet({}) /\ acked' = acked \cup {}
      BY <1>1, FS_EmptySet
<1> QED BY <1>1, <1>2, SettlesKeeps

LEMMA InitOK == Init => IInv
<1> SUFFICES ASSUME Init PROVE IInv
    OBVIOUS
<1>1. Qids = 1 .. 0 /\ Qids = {} /\ grants = 0 /\ faults = 0
      BY DEF Init, Qids
<1>2. TypeOK
  <2>1. tasks \in [Qids -> Task] /\ (\E k \in Nat : Qids = 1 .. k) /\ grants \in Nat /\ faults \in Nat
        BY <1>1 DEF Init
  <2>2. \A h \in Handles : call[h] = Idle
        BY DEF Init
  <2>3. \A c \in Clients : /\ call[<<c, "port">>].op \notin ChannelOps
                           /\ call[<<c, "channel">>].op \notin PortOps
        BY <2>2 DEF Handles, Idle, ChannelOps, PortOps
  <2>4. /\ leader \in 0 .. N /\ believes \in [Nodes -> Nodes]
        /\ died \in BOOLEAN /\ rotated \in BOOLEAN
        /\ stored \in [Nodes -> SUBSET Nat] /\ active \in [Clients -> Nodes]
    <3>1. 1 \in Nodes /\ leader = 1 /\ leader \in 0 .. N
          BY GrpcPortAssumption DEF Init, Nodes
    <3> QED BY <3>1 DEF Init
  <2>5. table = [c \in Clients |-> table[c]] /\ call \in [Handles -> Requests \cup {Idle}]
        BY DEF Init
  <2> QED BY <2>1, <2>3, <2>4, <2>5 DEF TypeOK
<1>3. LeasesOK
      BY DEF Init, LeasesOK
<1>4. AckedOK
      BY DEF Init, AckedOK, Idle
<1>5. Finite
      BY FS_EmptySet DEF Init, Finite
<1>6. WasteIsLostReplies
  <2>1. {a \in acked : a[1] = "enqueue"} = {} /\ given = {}
        BY DEF Init
  <2> QED BY <1>1, <2>1, FS_EmptySet DEF WasteIsLostReplies
<1> QED BY <1>2, <1>3, <1>4, <1>5, <1>6 DEF IInv

LEMMA NextOK == IInv /\ [Next]_vars => IInv'
<1> SUFFICES ASSUME IInv, [Next]_vars PROVE IInv'
    OBVIOUS
<1>1. CASE Quiet /\ Advances /\ Places' /\ faults' \in Nat
      BY <1>1, QuietKeeps
<1>2. ASSUME NEW h \in Handles, GiveUp(h)
      PROVE  IInv'
      BY <1>2, GiveUpKeeps
<1>3. ASSUME NEW h \in Handles, Served(h)
      PROVE  IInv'
  <2>1. /\ call[h] \in Requests /\ NodeOf(h) \in Nodes /\ Serves(NodeOf(h), call[h])
        BY <1>3, ServedStep DEF IInv
  <2> QED BY <1>3, <2>1, ServesEffect, GrowsKeeps, GrantsKeeps, EndsKeeps, NothingKeeps DEF IInv
<1> QED BY <1>1, <1>2, <1>3, StepCases DEF IInv

-----------------------------------------------------------------------------
(* What callers can rely on.                                                 *)

\* For any number of processes, nodes, tasks, leases, losses and elections: a
\* complete reported ok is the committed end of the task under that lease, an
\* acknowledged task is queued, and a lease has one holder.
THEOREM OkIsCommittedAlways == Spec => []OkIsCommitted
<1>1. IInv => OkIsCommitted
      BY DEF IInv, AckedOK, LeasesOK, OkIsCommitted
<1> QED BY <1>1, InitOK, NextOK, PTL DEF Spec

\* Likewise: the tasks and leases nobody was told of are no more than the
\* faults, so a retry duplicates a request only when its reply was lost.
THEOREM WasteIsLostRepliesAlways == Spec => []WasteIsLostReplies
<1>1. IInv => WasteIsLostReplies
      BY DEF IInv
<1> QED BY <1>1, InitOK, NextOK, PTL DEF Spec

-----------------------------------------------------------------------------
(* Who can finish.                                                           *)

\* A complete or a fail on its way stays one of a caller that is done, as long
\* as its own entry of leases_ is left alone.
LEMMA EndsStep ==
    ASSUME HolderInv, LocalTellsLeases, call' = call \/ CallMoves, EndedGrows,
           \A c \in Clients : call'[<<c, "port">>] = Idle \/ table'[c] = table[c]
    PROVE  EndsCarryEnded'
<1> SUFFICES ASSUME NEW c \in Clients, call'[<<c, "port">>].op \in Ends
             PROVE  LET r == call'[<<c, "port">>]
                    IN  /\ r.qid \in DOMAIN table'[c] /\ table'[c][r.qid] = r.grant
                        /\ <<c, r.qid, r.grant>> \in ended'
    BY DEF EndsCarryEnded
<1> DEFINE h == <<c, "port">>
           r == call'[h]
<1>1. h \in Handles /\ ended \subseteq ended'
      BY DEF Handles, EndedGrows
<1>2. table'[c] = table[c]
      BY DEF Idle, Ends
<1>3. CASE call'[h].op = call[h].op /\ call'[h].qid = call[h].qid /\ call'[h].grant = call[h].grant
      BY <1>1, <1>2, <1>3 DEF HolderInv, EndsCarryEnded
<1>4. CASE Asks(h, r)
  <2>1. PICK l \in ended' :
           l[1] = c /\ Knows(l[1], l[2], l[3]) /\ r.qid = l[2] /\ r.grant = table[l[1]][l[2]]
        BY <1>4 DEF Asks
  <2>2. l \in Clients \X Qids \X (1 .. grants) /\ grants \in Nat
        BY <2>1 DEF EndedGrows, HolderInv, IInv, LeasesOK, TypeOK
  <2> DEFINE g == table[c][l[2]]
             k == l[3]
  <2>3. l[2] \in DOMAIN table[c] /\ g \in Nat /\ k \in Nat /\ Local(g) = Local(k)
        BY <2>1, <2>2 DEF Knows, HolderInv, IInv, LeasesOK
  <2> HIDE DEF g, k
  <2>4. g = k
        BY <2>3 DEF LocalTellsLeases
  <2>5. l = <<c, r.qid, r.grant>>
        BY <2>1, <2>2, <2>4 DEF g, k
  <2> QED BY <1>2, <2>1, <2>3, <2>5
<1>5. CASE CallMoves
  <2>1. PICK k \in Handles, s \in Requests \cup {Idle} :
           /\ call' = [call EXCEPT ![k] = s]
           /\ s = Idle \/ (s \in Requests /\ (Asks(k, s) \/ GoesOn(k, s)))
        BY <1>5 DEF CallMoves
  <2>2. call = [x \in Handles |-> call[x]]
        BY DEF HolderInv, IInv, TypeOK
  <2>3. CASE k # h
        BY <1>1, <1>3, <2>1, <2>2, <2>3
  <2>4. CASE k = h
    <3>1. r = s /\ s # Idle
          BY <1>1, <2>1, <2>2, <2>4 DEF Idle, Ends
    <3> QED BY <1>3, <1>4, <2>1, <2>4, <3>1 DEF GoesOn
  <2> QED BY <2>3, <2>4
<1> QED BY <1>3, <1>5

LEMMA QuietHolds ==
    ASSUME HolderInv, LocalTellsLeases, Quiet, Advances
    PROVE  ended' \subseteq given' /\ EndsCarryEnded' /\ HolderCanFinish'
<1>1. ended' \subseteq given' /\ given' = given /\ table' = table /\ ended \subseteq ended'
      BY DEF HolderInv, Quiet, EndedGrows
<1>2. EndsCarryEnded'
      BY <1>1, EndsStep DEF Quiet
<1>3. ASSUME NEW l \in given' \ ended', Leased(l[2], l[3])'
      PROVE  l[2] \in DOMAIN table'[l[1]] /\ table'[l[1]][l[2]] = l[3]
  <2>1. l \in given \ ended /\ l[2] \in Nat /\ l[3] \in 1 .. grants
        BY <1>1, QidCount DEF HolderInv, IInv, LeasesOK
  <2>2. Leased(l[2], l[3])
        BY <1>3, <2>1 DEF Advances
  <2> QED BY <1>1, <2>1, <2>2 DEF HolderInv, HolderCanFinish
<1>4. HolderCanFinish'
      BY <1>3 DEF HolderCanFinish, Leased
<1> QED BY <1>1, <1>2, <1>4

\* A call that ends without a lease for its caller: only the entry of a caller
\* that is done is taken out.
LEMMA ReturnHolds ==
    ASSUME HolderInv, LocalTellsLeases, NEW h \in Handles, CallMoves, Advances,
           call'[h] = Idle, UNCHANGED <<ended, given>>,
           table' = IF call[h].op \in Ends THEN [table EXCEPT ![h[1]] = Erased(@, call[h].qid)]
                    ELSE table
    PROVE  ended' \subseteq given' /\ EndsCarryEnded' /\ HolderCanFinish'
<1> DEFINE r == call[h]
<1>1. /\ h[1] \in Clients /\ table = [c \in Clients |-> table[c]]
      /\ h = <<h[1], "port">> \/ h = <<h[1], "channel">>
      BY HandleFacts DEF HolderInv, IInv, TypeOK
<1>2. r.op \in Ends => h = <<h[1], "port">>
      BY <1>1 DEF HolderInv, IInv, TypeOK, Ends, PortOps
<1>3. \A c \in Clients : call'[<<c, "port">>] = Idle \/ table'[c] = table[c]
      BY <1>1, <1>2
<1>4. ended' \subseteq given'
      BY DEF HolderInv
<1>5. EndsCarryEnded'
      BY <1>3, EndsStep DEF EndedGrows
<1>6. ASSUME NEW l \in given' \ ended', Leased(l[2], l[3])'
      PROVE  l[2] \in DOMAIN table'[l[1]] /\ table'[l[1]][l[2]] = l[3]
  <2>1. /\ l \in given \ ended /\ l \in Clients \X Qids \X (1 .. grants)
        /\ l[2] \in Nat /\ l[3] \in 1 .. grants
        BY QidCount DEF HolderInv, IInv, LeasesOK
  <2>2. Leased(l[2], l[3])
        BY <1>6, <2>1 DEF Advances
  <2>3. l[2] \in DOMAIN table[l[1]] /\ table[l[1]][l[2]] = l[3]
        BY <2>1, <2>2 DEF HolderInv, HolderCanFinish
  <2>4. CASE r.op \notin Ends \/ l[1] # h[1] \/ l[2] # r.qid
        BY <1>1, <2>1, <2>3, <2>4 DEF Erased
  <2>5. CASE r.op \in Ends /\ l[1] = h[1] /\ l[2] = r.qid
    <3>1. table[h[1]][r.qid] = r.grant /\ <<h[1], r.qid, r.grant>> \in ended
          BY <1>1, <1>2, <2>5 DEF HolderInv, EndsCarryEnded
    <3>2. l = <<h[1], r.qid, r.grant>>
          BY <2>1, <2>3, <2>5, <3>1
    <3> QED BY <2>1, <3>1, <3>2
  <2> QED BY <2>4, <2>5
<1>7. HolderCanFinish'
      BY <1>6 DEF HolderCanFinish, Leased
<1> QED BY <1>4, <1>5, <1>7

\* A new lease takes the task's entry over, from a holder that has lost it.
LEMMA GrantsHolds ==
    ASSUME HolderInv, LocalTellsLeases, NEW h \in Handles, Served(h),
           Grants(call[h], Reply(NodeOf(h), call[h]))
    PROVE  ended' \subseteq given' /\ EndsCarryEnded' /\ HolderCanFinish'
<1> DEFINE reply == Reply(NodeOf(h), call[h])
           q == reply.qid
           g == grants + 1
<1>1. /\ CallMoves /\ Advances /\ UNCHANGED ended
      /\ Returns(h, call[h], reply) /\ call[h].op = "lease"
      /\ reply.rc = "ok" /\ reply.grant = g /\ q \in Qids /\ Qids' = Qids
      BY ServedStep, GrantsAdvances DEF HolderInv, IInv, Grants
<1>2. tasks' = [tasks EXCEPT ![q] = [state |-> "leased",
                   attempt |-> tasks[q].attempt + 1, grant |-> g]]
      BY DEF Grants
<1> HIDE DEF reply
<1>3. /\ given' = given \cup {<<h[1], q, g>>}
      /\ table' = [table EXCEPT ![h[1]] = Entered(@, q, g)]
      /\ call'[h] = Idle
      BY <1>1, ReturnMoves DEF Returns, HolderInv, IInv
<1>4. /\ grants \in Nat /\ h[1] \in Clients /\ table = [c \in Clients |-> table[c]]
      /\ h = <<h[1], "port">> \/ h = <<h[1], "channel">>
      BY HandleFacts DEF HolderInv, IInv, TypeOK
<1>5. h = <<h[1], "port">>
      BY <1>1, <1>4 DEF HolderInv, IInv, TypeOK, PortOps
<1>6. \A c \in Clients : call'[<<c, "port">>] = Idle \/ table'[c] = table[c]
      BY <1>3, <1>4, <1>5
<1>7. ended' \subseteq given' /\ EndsCarryEnded'
      BY <1>1, <1>3, <1>6, EndsStep DEF EndedGrows, HolderInv
<1>8. ASSUME NEW l \in given' \ ended', Leased(l[2], l[3])'
      PROVE  l[2] \in DOMAIN table'[l[1]] /\ table'[l[1]][l[2]] = l[3]
  <2>1. CASE l = <<h[1], q, g>>
        BY <1>3, <1>4, <2>1 DEF Entered
  <2>2. CASE l \in given
    <3>1. /\ l \in given \ ended /\ l \in Clients \X Qids \X (1 .. grants)
          /\ l[2] \in Nat /\ l[3] \in 1 .. grants
          BY <1>1, <2>2, QidCount DEF HolderInv, IInv, LeasesOK
    <3>2. Leased(l[2], l[3])
          BY <1>1, <1>8, <3>1 DEF Advances
    <3>3. l[2] \in DOMAIN table[l[1]] /\ table[l[1]][l[2]] = l[3]
          BY <3>1, <3>2 DEF HolderInv, HolderCanFinish
    <3>4. l[2] # q
      <4>1. tasks'[q].grant = g
            BY <1>1, <1>2 DEF Qids
      <4> QED BY <1>4, <1>8, <3>1, <4>1 DEF Leased
    <3> QED BY <1>3, <1>4, <3>1, <3>3, <3>4 DEF Entered
  <2> QED BY <1>3, <2>1, <2>2
<1>9. HolderCanFinish'
      BY <1>8 DEF HolderCanFinish, Leased
<1> QED BY <1>7, <1>9

LEMMA ServedHolds ==
    ASSUME HolderInv, LocalTellsLeases, NEW h \in Handles, Served(h)
    PROVE  ended' \subseteq given' /\ EndsCarryEnded' /\ HolderCanFinish'
<1> DEFINE r == call[h]
           reply == Reply(NodeOf(h), r)
<1>1. /\ r \in Requests /\ NodeOf(h) \in Nodes /\ Serves(NodeOf(h), r)
      /\ Returns(h, r, reply) /\ CallMoves /\ Advances /\ ended' = ended
      BY ServedStep DEF HolderInv, IInv
<1>2. CASE r.op = "lease" /\ reply.rc = "ok"
  <2>1. Grants(r, reply)
        BY <1>1, <1>2, ServesEffect DEF HolderInv, IInv, Grows, EndsLease, Nothing, Ends
  <2> QED BY <2>1, GrantsHolds
<1>3. CASE ~(r.op = "lease" /\ reply.rc = "ok")
  <2> HIDE DEF reply
  <2>1. given' = given
        BY <1>1, <1>3 DEF Returns
  <2>2. table' = IF r.op \in Ends THEN [table EXCEPT ![h[1]] = Erased(@, r.qid)] ELSE table
        BY <1>1, <1>3 DEF Returns, Ends
  <2>3. call'[h] = Idle
        BY <1>1, ReturnMoves DEF HolderInv, IInv
  <2> QED BY <1>1, <2>1, <2>2, <2>3, ReturnHolds
<1> QED BY <1>2, <1>3

\* As long as the local half of its token tells a lease from the others, which
\* is all the port compares, the caller of a current lease can finish it,
\* whatever was retried, expired or finished late by others.
THEOREM HolderCanFinishAlways ==
    ASSUME LocalTellsLeases
    PROVE  Spec => []HolderCanFinish
<1>1. Init => HolderInv
  <2> SUFFICES ASSUME Init PROVE HolderInv
      OBVIOUS
  <2>1. ended \subseteq given /\ HolderCanFinish
        BY DEF Init, HolderCanFinish
  <2>2. EndsCarryEnded
    <3>1. \A c \in Clients : call[<<c, "port">>] = Idle
          BY DEF Init, Handles
    <3> QED BY <3>1 DEF EndsCarryEnded, Idle, Ends
  <2> QED BY <2>1, <2>2, InitOK DEF HolderInv
<1>2. HolderInv /\ [Next]_vars => HolderInv'
  <2> SUFFICES ASSUME HolderInv, [Next]_vars PROVE HolderInv'
      OBVIOUS
  <2>1. IInv'
        BY NextOK DEF HolderInv
  <2>2. CASE Quiet /\ Advances
        BY <2>1, <2>2, QuietHolds DEF HolderInv
  <2>3. ASSUME NEW h \in Handles, GiveUp(h)
        PROVE  HolderInv'
    <3>1. /\ CallMoves /\ Advances /\ UNCHANGED <<ended, given>>
          /\ table' = IF call[h].op \in Ends
                      THEN [table EXCEPT ![h[1]] = Erased(@, call[h].qid)] ELSE table
          BY <2>3, GiveUpStep DEF HolderInv, IInv
    <3>2. call'[h] = Idle
          BY <2>3, ReturnMoves DEF GiveUp, HolderInv, IInv
    <3> QED BY <2>1, <3>1, <3>2, ReturnHolds DEF HolderInv
  <2>4. ASSUME NEW h \in Handles, Served(h)
        PROVE  HolderInv'
        BY <2>1, <2>4, ServedHolds DEF HolderInv
  <2> QED BY <2>2, <2>3, <2>4, StepCases DEF HolderInv, IInv
<1>3. HolderInv => HolderCanFinish
      BY DEF HolderInv
<1> QED BY <1>1, <1>2, <1>3, PTL DEF Spec

-----------------------------------------------------------------------------
(* Results.                                                                  *)

\* Unless consume_on_get_, results leave a node with the node only.
Keeps ==
    /\ died => died'
    /\ died' \/ \A n \in Nodes : stored[n] \subseteq stored'[n]
    /\ rotated => rotated'
    /\ rotated' \/ active' = active

LEMMA ServesKeeps ==
    ASSUME TypeOK, ~Consume, NEW n \in Nodes, NEW r \in Requests, Serves(n, r)
    PROVE  /\ died' = died /\ \A m \in Nodes : stored[m] \subseteq stored'[m]
           /\ r.op = "put" => r.qid \in stored'[n]
<1>1. died' = died /\ stored' = [stored EXCEPT ![n] = Kept(@, r)]
      BY ServesPlaces
<1>2. stored[n] \subseteq Kept(stored[n], r) /\ (r.op = "put" => r.qid \in Kept(stored[n], r))
      BY DEF Kept
<1>3. stored \in [Nodes -> SUBSET Nat]
      BY DEF TypeOK
<1> QED BY <1>1, <1>2, <1>3

\* The steps that no call returns by.
LEMMA SilentKeeps ==
    ASSUME TypeOK, LeasesOK, ~Consume, [Next]_vars,
           ~ \E h \in Handles : Served(h) \/ GiveUp(h)
    PROVE  Keeps /\ UNCHANGED <<acked, delivered, missed>> /\ Qids \subseteq Qids'
<1>1. Quiet /\ Advances
      BY StepCases
<1>2. Keeps /\ missed' = missed
  <2>1. CASE Callers
        BY <2>1, CallersMove DEF Keeps, cluster
  <2>2. ASSUME NEW h \in Handles, Refused(h) \/ Unreached(h)
        PROVE  Keeps /\ missed' = missed
        BY <2>2 DEF Refused, Unreached, Keeps, cluster, history
  <2>3. ASSUME NEW h \in Handles, ReplyLost(h)
        PROVE  Keeps /\ missed' = missed
    <3>1. call[h] # Idle /\ Serves(NodeOf(h), call[h])
          BY <2>3 DEF ReplyLost, Reaches, Sending
    <3>2. died' = died /\ \A m \in Nodes : stored[m] \subseteq stored'[m]
          BY <3>1, HandleFacts, ServesKeeps
    <3> QED BY <2>3, <3>2 DEF ReplyLost, Keeps, history
  <2>4. ASSUME NEW h \in Handles, Retry(h)
        PROVE  Keeps /\ missed' = missed
        BY <2>4 DEF Retry, rotate_ring_on_error, Keeps, cluster, history
  <2>5. CASE ClusterStep
    <3>1. Elsewhere
          BY <2>5 DEF ClusterStep, Expire, Crash, Restart, Elect, Learn, StepDown
    <3>2. died' = TRUE \/ (died' = died /\ stored' = stored)
          BY <2>5 DEF ClusterStep, Expire, Crash, Restart, Elect, Learn, StepDown
    <3> QED BY <3>1, <3>2 DEF Elsewhere, Keeps, history
  <2>6. CASE UNCHANGED vars
        BY <2>6 DEF vars, Keeps, cluster, history
  <2> QED BY <2>1, <2>2, <2>3, <2>4, <2>5, <2>6 DEF Next, ClusterStep, Attempt
<1> QED BY <1>1, <1>2 DEF Quiet, Advances

LEMMA GiveUpSilent ==
    ASSUME TypeOK, NEW h \in Handles, GiveUp(h)
    PROVE  Keeps /\ UNCHANGED <<acked, delivered, missed>> /\ Qids' = Qids
<1>1. UNCHANGED <<died, stored, acked, delivered, tasks>>
      BY GiveUpStep DEF GiveUp, cluster
<1>2. missed' = missed
      BY DEF GiveUp, Returns, Says
<1>3. rotated' = TRUE \/ UNCHANGED <<active, rotated>>
      BY DEF GiveUp, rotate_ring_on_error
<1> QED BY <1>1, <1>2, <1>3 DEF Keeps, Qids

\* What a served call tells of results.
LEMMA ServedTells ==
    ASSUME TypeOK, ~Consume, NEW h \in Handles, Served(h)
    PROVE  /\ Keeps /\ UNCHANGED <<died, active, rotated>> /\ delivered \subseteq delivered'
           /\ \A a \in acked' \ acked : a[1] = "put" => a[2] \in stored'[NodeOf(h)]
           /\ \A q \in missed' \ missed : q \notin stored[NodeOf(h)] /\ <<"put", q, 0>> \in acked
<1> DEFINE r == call[h]
           n == NodeOf(h)
           reply == Reply(n, r)
<1>1. /\ r \in Requests /\ n \in Nodes /\ Serves(n, r) /\ Returns(h, r, reply)
      /\ UNCHANGED <<active, rotated>>
      BY ServedStep
<1>2. died' = died /\ (\A m \in Nodes : stored[m] \subseteq stored'[m])
      /\ (r.op = "put" => r.qid \in stored'[n])
      BY <1>1, ServesKeeps
<1>3. Keeps
      BY <1>1, <1>2 DEF Keeps
<1>4. r.op = "put" => reply.qid = r.qid
      BY DEF Reply, Says
<1>5. reply.rc = "absent" => r.op = "get" /\ r.qid \notin stored[n]
  <2>1. r.op \in PortOps \cup ChannelOps
        BY <1>1 DEF Requests
  <2> QED BY <2>1 DEF Reply, Says, PortOps, ChannelOps
<1> HIDE DEF reply, n
<1>6. delivered \subseteq delivered'
      BY <1>1 DEF Returns
<1>7. \A a \in acked' \ acked : a[1] = "put" => a[2] \in stored'[n]
      BY <1>1, <1>2, <1>4 DEF Returns
<1>8. \A q \in missed' \ missed : q \notin stored[n] /\ <<"put", q, 0>> \in acked
      BY <1>1, <1>5 DEF Returns
<1> QED BY <1>1, <1>2, <1>3, <1>6, <1>7, <1>8 DEF n

\* Unless reads consume, whatever requests and replies are lost and whoever
\* leads: a result whose put returned ok stays at some node until the
\* coordinator has read it or a node has died.
THEOREM HeldUntilDeliveredAlways ==
    ASSUME ~Consume
    PROVE  Spec => []HeldUntilDelivered
<1>1. Init => HeldUntilDelivered
      BY DEF Init, HeldUntilDelivered
<1>2. IInv /\ HeldUntilDelivered /\ [Next]_vars => HeldUntilDelivered'
  <2> SUFFICES ASSUME IInv, HeldUntilDelivered, [Next]_vars,
                      NEW q, <<"put", q, 0>> \in acked', ~died'
               PROVE  q \in delivered' \/ \E n \in Nodes : q \in stored'[n]
      BY DEF HeldUntilDelivered
  <2>1. CASE Keeps /\ delivered \subseteq delivered' /\ <<"put", q, 0>> \in acked
    <3>1. q \in Qids /\ ~died /\ \A n \in Nodes : stored[n] \subseteq stored'[n]
          BY <2>1 DEF IInv, AckedOK, Keeps
    <3>2. q \in delivered \/ \E n \in Nodes : q \in stored[n]
          BY <2>1, <3>1 DEF HeldUntilDelivered
    <3> QED BY <2>1, <3>1, <3>2
  <2>2. ASSUME NEW h \in Handles, Served(h)
        PROVE  q \in delivered' \/ \E n \in Nodes : q \in stored'[n]
    <3>1. /\ Keeps /\ delivered \subseteq delivered' /\ NodeOf(h) \in Nodes
          /\ \A a \in acked' \ acked : a[1] = "put" => a[2] \in stored'[NodeOf(h)]
          BY <2>2, ServedTells, HandleFacts DEF IInv
    <3>2. CASE <<"put", q, 0>> \notin acked
      <4> DEFINE a == <<"put", q, 0>>
      <4>1. a \in acked' \ acked /\ a[1] = "put" /\ a[2] = q
            BY <3>2
      <4> HIDE DEF a
      <4>2. q \in stored'[NodeOf(h)]
            BY <3>1, <4>1
      <4> QED BY <3>1, <4>2
    <3> QED BY <2>1, <3>1, <3>2
  <2>3. ASSUME NEW h \in Handles, GiveUp(h)
        PROVE  q \in delivered' \/ \E n \in Nodes : q \in stored'[n]
        BY <2>1, <2>3, GiveUpSilent DEF IInv
  <2>4. CASE ~ \E h \in Handles : Served(h) \/ GiveUp(h)
        BY <2>1, <2>4, SilentKeeps DEF IInv
  <2> QED BY <2>2, <2>3, <2>4
<1> QED BY <1>1, <1>2, InitOK, NextOK, PTL DEF Spec

\* Unless reads consume, a result reported put is reported absent only after a
\* ring has turned or a node has died: with consume_on_get_ a lost reply is
\* enough, as a run shows.
THEOREM AbsentIsGenuineAlways ==
    ASSUME ~Consume
    PROVE  Spec => []AbsentIsGenuine
<1> DEFINE Inv == IInv /\ OneEndpoint /\ AbsentIsGenuine
<1>1. Init => Inv
      BY InitOK DEF Init, OneEndpoint, AbsentIsGenuine
<1>2. Inv /\ [Next]_vars => Inv'
  <2> SUFFICES ASSUME Inv, [Next]_vars PROVE OneEndpoint' /\ AbsentIsGenuine'
      BY NextOK
  <2>1. CASE Keeps /\ acked' = acked /\ missed' = missed
    <3>1. OneEndpoint'
      <4>1. 1 \in Nodes
            BY GrpcPortAssumption DEF Nodes
      <4> QED BY <2>1, <4>1 DEF Keeps, OneEndpoint, IInv, TypeOK
    <3>2. AbsentIsGenuine'
          BY <2>1 DEF Keeps, AbsentIsGenuine
    <3> QED BY <3>1, <3>2
  <2>2. ASSUME NEW h \in Handles, Served(h)
        PROVE  OneEndpoint' /\ AbsentIsGenuine'
    <3>1. /\ Keeps /\ UNCHANGED <<died, active, rotated>>
          /\ \A a \in acked' \ acked : a[1] = "put" => a[2] \in stored'[NodeOf(h)]
          /\ \A q \in missed' \ missed : q \notin stored[NodeOf(h)] /\ <<"put", q, 0>> \in acked
          BY <2>2, ServedTells DEF IInv
    <3>2. CASE rotated
          BY <3>1, <3>2 DEF OneEndpoint, AbsentIsGenuine
    <3>3. CASE ~rotated
      <4>1. NodeOf(h) = 1 /\ 1 \in Nodes
            BY <3>3, HandleFacts, GrpcPortAssumption DEF OneEndpoint, NodeOf, Nodes, IInv
      <4>2. OneEndpoint'
        <5>1. ~died => \A a \in acked : a[1] = "put" => a[2] \in stored[1]
              BY <3>3 DEF OneEndpoint
        <5>2. ~died => \A a \in acked' : a[1] = "put" => a[2] \in stored'[1]
              BY <3>1, <4>1, <5>1 DEF Keeps
        <5> QED BY <3>1, <3>3, <5>2 DEF OneEndpoint
      <4>3. AbsentIsGenuine'
        <5>1. ASSUME ~died
              PROVE  missed' = {}
          <6>1. missed = {}
                BY <3>3, <5>1 DEF AbsentIsGenuine
          <6>2. ASSUME NEW q \in missed'
                PROVE  FALSE
            <7> DEFINE a == <<"put", q, 0>>
            <7>1. a \in acked /\ q \notin stored[1] /\ a[1] = "put" /\ a[2] = q
                  BY <3>1, <4>1, <6>1, <6>2
            <7> HIDE DEF a
            <7> QED BY <3>3, <5>1, <7>1 DEF OneEndpoint
          <6> QED BY <6>2
        <5> QED BY <3>1, <5>1 DEF AbsentIsGenuine
      <4> QED BY <4>2, <4>3
    <3> QED BY <3>2, <3>3
  <2>3. ASSUME NEW h \in Handles, GiveUp(h)
        PROVE  OneEndpoint' /\ AbsentIsGenuine'
        BY <2>1, <2>3, GiveUpSilent DEF IInv
  <2>4. CASE ~ \E h \in Handles : Served(h) \/ GiveUp(h)
        BY <2>1, <2>4, SilentKeeps DEF IInv
  <2> QED BY <2>2, <2>3, <2>4
<1>3. Inv => AbsentIsGenuine
      OBVIOUS
<1> QED BY <1>1, <1>2, <1>3, PTL DEF Spec

=============================================================================
