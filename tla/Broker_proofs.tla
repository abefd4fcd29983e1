---------------------------- MODULE Broker_proofs ----------------------------
(***************************************************************************)
(* Fencing, life accounting and finality of the broker's verdicts, for any *)
(* number of tasks, attempts, leases and faults, and any client behaviour. *)
(***************************************************************************)
EXTENDS Broker, TLAPS, FiniteSetTheorems

LeasesOf(q) == {l \in leases : l.qid = q}

IInv == /\ TypeOK
        /\ IsFiniteSet(leases)
        /\ FencedCommit
        /\ TokensUnique
        /\ LivesAccounted

\* What a step may do to a task without changing who was granted what: keep it,
\* move the deadline of its lease, or release it.
Kept(q) ==
    \/ entries'[q] = entries[q]
    \/ /\ entries[q].state = "leased"
       /\ entries'[q].attempt = entries[q].attempt
       /\ entries'[q].max = entries[q].max
       /\ entries'[q].token = entries[q].token
       /\ \/ entries'[q].state = "leased"
          \/ entries'[q].state = Released(entries[q])

\* LivesAccounted, for one task.
Lives(q) ==
    /\ entries[q].attempt = Cardinality({l \in leases : l.qid = q})
    /\ entries[q].attempt <= entries[q].max
    /\ entries[q].state = "pending" => entries[q].attempt < entries[q].max
    /\ entries[q].state = "dead" => entries[q].attempt = entries[q].max

\* LivesAccounted is Lives of every task: the form the proofs take apart.
LEMMA LivesForm == LivesAccounted <=> \A q \in Qids : Lives(q)
  BY DEF LivesAccounted, Lives

\* releaseLease leaves a task pending or dead, and which of the two is
\* decided by its attempts and its limit alone.
LEMMA ReleasedState ==
    ASSUME NEW e \in Entry
    PROVE  /\ Released(e) \in {"pending", "dead"}
           /\ Released(e) = "pending" => e.attempt < e.max
           /\ Released(e) = "dead" => e.attempt >= e.max
  BY DEF Released, Entry

\* A step that grants nothing and commits nothing, and only releases leases
\* (fail, heartbeat, sweep, clock, fault), keeps the invariant.
LEMMA KeptKeepsIInv ==
    ASSUME IInv, UNCHANGED <<nextQid, nextToken, leases, commits>>,
           now' \in 0 .. MaxNow, faults' \in [FaultOps -> Nat],
           entries' \in [Qids -> Entry], \A q \in Qids : Kept(q)
    PROVE  IInv'
<1>1. Qids' = Qids
  BY DEF Qids
<1>2. \A q \in Qids : entries[q] \in Entry /\ entries'[q] \in Entry
  BY DEF IInv, TypeOK
<1>3. TypeOK' /\ IsFiniteSet(leases)'
  BY <1>1 DEF IInv, TypeOK
<1>4. \A q \in Qids : entries[q].state = "completed" => entries'[q] = entries[q]
  BY DEF Kept
<1>5. \A q \in Qids : entries'[q].state \in {"completed", "leased"} =>
         entries'[q].state = entries[q].state /\ entries'[q].token = entries[q].token
  BY <1>2, ReleasedState DEF Kept
<1>6. FencedCommit'
  <2>1. \A c \in commits : c[1] \in Qids
    BY DEF IInv, TypeOK
  <2>2. \A c \in commits : entries'[c[1]].state = "completed"
    BY <2>1, <1>4 DEF IInv, FencedCommit
  <2> QED
    BY <2>2, <1>1, <1>5 DEF IInv, FencedCommit
<1>7. TokensUnique'
  BY <1>1, <1>5 DEF IInv, TokensUnique
<1>8. LivesAccounted'
  <2>1. SUFFICES ASSUME NEW q \in Qids
                 PROVE  /\ entries'[q].attempt = Cardinality(LeasesOf(q))
                        /\ entries'[q].attempt <= entries'[q].max
                        /\ entries'[q].state = "pending" =>
                              entries'[q].attempt < entries'[q].max
                        /\ entries'[q].state = "dead" =>
                              entries'[q].attempt = entries'[q].max
    BY <1>1 DEF LivesAccounted, LeasesOf
  <2>2. /\ entries[q].attempt = Cardinality(LeasesOf(q))
        /\ entries[q].attempt <= entries[q].max
        /\ entries[q].state = "pending" => entries[q].attempt < entries[q].max
        /\ entries[q].state = "dead" => entries[q].attempt = entries[q].max
    BY DEF IInv, LivesAccounted, LeasesOf
  <2>3. entries[q].attempt \in Nat /\ entries[q].max \in Nat
    BY <1>2 DEF Entry
  <2>4. CASE entries'[q] = entries[q]
    BY <2>2, <2>4
  <2>5. CASE entries'[q] # entries[q]
    BY <2>2, <2>3, <2>5, <1>2, ReleasedState DEF Kept
  <2> QED
    BY <2>4, <2>5
<1> QED
  BY <1>3, <1>6, <1>7, <1>8 DEF IInv

-----------------------------------------------------------------------------
\* A new broker satisfies the invariant.
LEMMA InitIInv == Init => IInv
<1> SUFFICES ASSUME Init PROVE IInv
  OBVIOUS
<1>1. Qids = {}
  BY DEF Init, Qids
<1>2. TypeOK
  BY <1>1, BrokerAssumption DEF Init, TypeOK
<1> QED
  BY <1>1, <1>2, FS_EmptySet DEF Init, IInv, FencedCommit, TokensUnique, LivesAccounted

\* enqueue adds a task under a new qid, without a lease or an attempt.
LEMMA EnqueueKeepsIInv ==
    ASSUME IInv, NEW p \in Payloads, NEW m \in AttemptLimits, Enqueue(p, m)
    PROVE  IInv'
<1> DEFINE n == nextQid + 1
           new == [payload |-> p, attempt |-> 0,
                   max |-> OrDefault(m, DefaultMaxAttempts),
                   state |-> "pending", token |-> 0, deadline |-> 0]
<1>1. /\ nextQid \in Nat /\ MaxQids \in Nat /\ nextQid < MaxQids /\ nextQid' = n
      /\ UNCHANGED <<nextToken, now, leases, commits, faults>>
  BY BrokerAssumption DEF IInv, TypeOK, Enqueue, NoFault
<1>2. Qids' = Qids \cup {n} /\ n \notin Qids /\ Qids = 1 .. nextQid
  BY <1>1 DEF Qids
<1>3. new \in Entry
  BY BrokerAssumption DEF Entry, OrDefault, QState
<1>4. /\ entries' \in [Qids' -> Entry] /\ entries'[n] = new
      /\ \A q \in Qids : entries'[q] = entries[q]
  <2>1. entries' = [q \in 1 .. n |-> IF q \in Qids THEN entries[q] ELSE new]
    BY DEF Enqueue
  <2>2. Qids' = 1 .. n
    BY <1>1 DEF Qids
  <2> HIDE DEF new
  <2> QED
    BY <2>1, <2>2, <1>2, <1>3 DEF IInv, TypeOK
<1>5. TypeOK'
  <2>1. nextQid' \in 0 .. MaxQids
    BY <1>1
  <2> HIDE DEF n, new
  <2> QED
    BY <2>1, <1>1, <1>2, <1>4 DEF IInv, TypeOK
<1>6. LeasesOf(n) = {} /\ \A c \in commits : c[1] \in Qids
  BY <1>2 DEF IInv, TypeOK, LeasesOf
<1> HIDE DEF n
<1>7. new.state = "pending" /\ new.attempt = 0 /\ new.max \in Nat \ {0}
  BY <1>3 DEF Entry
<1> HIDE DEF new
<1>8. FencedCommit'
  BY <1>1, <1>2, <1>4, <1>6, <1>7 DEF IInv, FencedCommit
<1>9. TokensUnique'
  BY <1>1, <1>2, <1>4, <1>7 DEF IInv, TokensUnique
<1>10. LivesAccounted'
  <2>1. Cardinality({l \in leases : l.qid = n}) = 0
    BY <1>6, FS_EmptySet DEF LeasesOf
  <2>2. SUFFICES ASSUME NEW r \in Qids \cup {n} PROVE Lives(r)'
    BY <1>2 DEF LivesAccounted, Lives
  <2>3. CASE r = n
    BY <2>1, <2>3, <1>1, <1>4, <1>7 DEF Lives
  <2>4. CASE r # n
    <3>1. r \in Qids /\ entries'[r] = entries[r]
      BY <2>4, <1>4
    <3>2. Lives(r)
      BY <3>1, LivesForm DEF IInv
    <3> QED
      BY <3>1, <3>2, <1>1 DEF Lives
  <2> QED
    BY <2>3, <2>4
<1> QED
  BY <1>1, <1>5, <1>8, <1>9, <1>10 DEF IInv

\* lease takes a token no lease ever had and an attempt the task still has.
LEMMA LeaseKeepsIInv ==
    ASSUME IInv, NEW x \in Timeouts, NEW f, LeaseFiltered(x, f)
    PROVE  IInv'
<1> DEFINE tok == nextToken + 1
<1>1. PICK q \in Leasable(f) :
         /\ entries' = [entries EXCEPT
                ![q].attempt = @ + 1, ![q].state = "leased", ![q].token = nextToken + 1,
                ![q].deadline = now + OrDefault(x, DefaultTimeout)]
         /\ leases' = leases \cup {[qid |-> q, token |-> nextToken + 1]}
  BY DEF LeaseFiltered
<1> DEFINE new == [qid |-> q, token |-> tok]
<1>2. /\ nextToken \in Nat /\ nextToken' = tok /\ now \in Nat
      /\ UNCHANGED <<nextQid, now, commits, faults>> /\ Qids' = Qids
  BY DEF IInv, TypeOK, LeaseFiltered, NoFault, Qids
<1>3. q \in Qids /\ entries[q].state = "pending" /\ entries[q] \in Entry
  BY DEF Leasable, IInv, TypeOK
<1>4. now + OrDefault(x, DefaultTimeout) \in Nat
  BY <1>2, BrokerAssumption DEF OrDefault
<1>5. /\ entries' \in [Qids -> Entry]
      /\ \A r \in Qids : r # q => entries'[r] = entries[r]
      /\ entries'[q].state = "leased" /\ entries'[q].token = tok
      /\ entries'[q].attempt = entries[q].attempt + 1
      /\ entries'[q].max = entries[q].max
  BY <1>1, <1>2, <1>3, <1>4 DEF IInv, TypeOK, Entry, QState
<1>6. /\ new \notin leases
      /\ \A l \in leases : l.token \in 1 .. nextToken /\ l.qid \in Qids
      /\ \A l \in leases : l.token < tok
  BY <1>2 DEF IInv, TypeOK
<1>7. TypeOK'
  <2>1. leases' \subseteq [qid : Qids, token : 1 .. tok]
    <3>1. \A l \in leases : l \in [qid : Qids, token : 1 .. tok]
      BY <1>2 DEF IInv, TypeOK
    <3>2. new \in [qid : Qids, token : 1 .. tok]
      BY <1>2, <1>3
    <3> QED
      BY <3>1, <3>2, <1>1
  <2>2. commits' \subseteq (Qids \X (1 .. tok))
    BY <1>2 DEF IInv, TypeOK
  <2> QED
    BY <2>1, <2>2, <1>2, <1>5 DEF IInv, TypeOK
<1>8. IsFiniteSet(leases')
  BY <1>1, FS_AddElement DEF IInv
<1> HIDE DEF tok
<1>9. \A c \in commits : c[1] # q /\ c[1] \in Qids
  BY <1>3 DEF IInv, FencedCommit, TypeOK
<1>10. leases' = leases \cup {new} /\ new.qid = q /\ new.token = tok
  BY <1>1 DEF tok
<1> HIDE DEF new
<1>11. FencedCommit'
  BY <1>2, <1>3, <1>5, <1>9, <1>10 DEF IInv, FencedCommit
<1>12. TokensUnique'
  <2>1. \A l, k \in leases' : l.token = k.token => l = k
    <3>1. \A l \in leases : l.token # tok
      BY <1>6, <1>2 DEF tok
    <3> QED
      BY <3>1, <1>10 DEF IInv, TokensUnique
  <2>2. ASSUME NEW r \in Qids, entries'[r].state = "leased"
        PROVE  /\ [qid |-> r, token |-> entries'[r].token] \in leases'
               /\ \A l \in leases' : l.qid = r => l.token <= entries'[r].token
    <3>1. CASE r = q
      <4>1. [qid |-> r, token |-> entries'[r].token] = new
        BY <3>1, <1>5 DEF new
      <4>2. tok \in Nat /\ \A l \in leases : l.token <= tok
        BY <1>6, <1>2 DEF tok
      <4> QED
        BY <4>1, <4>2, <3>1, <1>5, <1>10
    <3>2. CASE r # q
      BY <3>2, <2>2, <1>5, <1>10 DEF IInv, TokensUnique
    <3> QED
      BY <3>1, <3>2
  <2> QED
    BY <2>1, <2>2, <1>2 DEF TokensUnique
<1>13. LivesAccounted'
  <2>1. SUFFICES ASSUME NEW r \in Qids
                 PROVE  /\ entries'[r].attempt = Cardinality({l \in leases' : l.qid = r})
                        /\ entries'[r].attempt <= entries'[r].max
                        /\ entries'[r].state = "pending" =>
                              entries'[r].attempt < entries'[r].max
                        /\ entries'[r].state = "dead" =>
                              entries'[r].attempt = entries'[r].max
    BY <1>2 DEF LivesAccounted
  <2>2. CASE r = q
    <3>1. {l \in leases' : l.qid = r} = LeasesOf(q) \cup {new}
      BY <2>2, <1>10 DEF LeasesOf
    <3>2. IsFiniteSet(LeasesOf(q)) /\ new \notin LeasesOf(q)
      BY <1>6, FS_Subset DEF LeasesOf, IInv
    <3>3. Cardinality(LeasesOf(q) \cup {new}) = Cardinality(LeasesOf(q)) + 1
      BY <3>2, FS_AddElement
    <3>4. /\ entries[q].attempt = Cardinality(LeasesOf(q))
          /\ entries[q].attempt < entries[q].max
      BY <1>3 DEF IInv, LivesAccounted, LeasesOf
    <3>5. entries[q].attempt \in Nat /\ entries[q].max \in Nat
      BY <1>3 DEF Entry
    <3>6. Cardinality({l \in leases' : l.qid = r}) = entries[q].attempt + 1
      BY <3>1, <3>3, <3>4
    <3>7. /\ entries'[r].attempt = entries[q].attempt + 1
          /\ entries'[r].max = entries[q].max /\ entries'[r].state = "leased"
      BY <2>2, <1>5
    <3>8. entries[q].attempt + 1 <= entries[q].max
      BY <3>4, <3>5
    <3> QED
      BY <3>6, <3>7, <3>8
  <2>3. CASE r # q
    <3>1. {l \in leases' : l.qid = r} = {l \in leases : l.qid = r}
      BY <2>3, <1>10
    <3> QED
      BY <2>3, <3>1, <1>5 DEF IInv, LivesAccounted
  <2> QED
    BY <2>2, <2>3
<1> QED
  BY <1>7, <1>8, <1>11, <1>12, <1>13 DEF IInv

\* complete commits at most once, and only with the token of the lease.
LEMMA CompleteKeepsIInv ==
    ASSUME IInv, NEW l \in leases, Complete(l.qid, l.token)
    PROVE  IInv'
<1>1. CASE ~Holds(l.qid, l.token)
  <2>1. UNCHANGED vars
    BY <1>1 DEF Complete, NoFault, Reject, vars
  <2> QED
    BY <2>1, KeptKeepsIInv DEF Kept, vars, IInv, TypeOK
<1>2. CASE Holds(l.qid, l.token)
  <2> DEFINE q == l.qid
             c == <<l.qid, l.token>>
  <2>1. /\ q \in Qids /\ entries[q].state = "leased" /\ entries[q].token = l.token
        /\ l.token \in 1 .. nextToken
        /\ entries[q] \in Entry
    BY <1>2 DEF Holds, IInv, TypeOK
  <2>2. /\ entries' = [entries EXCEPT ![q].state = "completed"]
        /\ commits' = commits \cup {c}
        /\ UNCHANGED <<nextQid, nextToken, leases, now, faults>> /\ Qids' = Qids
    BY <1>2 DEF Complete, NoFault, Qids
  <2>3. /\ entries' \in [Qids -> Entry]
        /\ \A r \in Qids : r # q => entries'[r] = entries[r]
        /\ entries'[q].state = "completed" /\ entries'[q].attempt = entries[q].attempt
        /\ entries'[q].max = entries[q].max
    BY <2>1, <2>2 DEF IInv, TypeOK, Entry, QState
  <2>4. c \in Qids \X (1 .. nextToken) /\ c[1] = q /\ c[2] = l.token
    BY <2>1
  <2> HIDE DEF c
  <2>5. TypeOK' /\ IsFiniteSet(leases)'
    BY <2>2, <2>3, <2>4 DEF IInv, TypeOK
  <2>6. \A d \in commits : d[1] \in Qids /\ d[1] # q
    BY <2>1 DEF IInv, FencedCommit, TypeOK
  <2>7. /\ [qid |-> q, token |-> l.token] \in leases
        /\ \A k \in leases : k.qid = q => k.token <= l.token
    BY <2>1 DEF IInv, TokensUnique
  <2> HIDE DEF q
  <2>8. FencedCommit'
    BY <2>1, <2>2, <2>3, <2>4, <2>6, <2>7 DEF IInv, FencedCommit
  <2>9. TokensUnique'
    BY <2>1, <2>2, <2>3 DEF IInv, TokensUnique
  <2>10. LivesAccounted'
    <3>1. SUFFICES ASSUME NEW r \in Qids PROVE Lives(r)'
      BY <2>2 DEF LivesAccounted, Lives
    <3>2. Lives(r)
      BY LivesForm DEF IInv
    <3>3. CASE r = q
      BY <3>2, <3>3, <2>2, <2>3 DEF Lives
    <3>4. CASE r # q
      BY <3>2, <3>4, <2>2, <2>3 DEF Lives
    <3> QED
      BY <3>3, <3>4
  <2> QED
    BY <2>5, <2>8, <2>9, <2>10 DEF IInv
<1> QED
  BY <1>1, <1>2

-----------------------------------------------------------------------------
\* Injecting or spending a fault keeps the table of faults typed.
LEMMA FaultTypes ==
    ASSUME IInv, NEW op \in FaultOps
    PROVE  /\ NoFault(op) => faults' \in [FaultOps -> Nat]
           /\ take_fault(op) => faults' \in [FaultOps -> Nat]
           /\ inject_fault(op) => faults' \in [FaultOps -> Nat]
  BY DEF IInv, TypeOK, NoFault, take_fault, inject_fault

\* fail is a step of the kind KeptKeepsIInv speaks of.
LEMMA FailKept ==
    ASSUME IInv, NEW l \in leases, Fail(l.qid, l.token)
    PROVE  entries' \in [Qids -> Entry] /\ \A q \in Qids : Kept(q)
<1>1. CASE ~Holds(l.qid, l.token)
  BY <1>1 DEF Fail, Reject, Kept, IInv, TypeOK
<1>2. CASE Holds(l.qid, l.token)
  <2>1. l.qid \in Qids /\ entries[l.qid].state = "leased" /\ entries[l.qid] \in Entry
    BY <1>2 DEF Holds, IInv, TypeOK
  <2>2. Released(entries[l.qid]) \in QState
    BY <2>1, ReleasedState DEF QState
  <2>3. entries' = [entries EXCEPT ![l.qid].state = Released(entries[l.qid])]
    BY <1>2 DEF Fail
  <2>4. entries' \in [Qids -> Entry]
    BY <2>1, <2>2, <2>3 DEF IInv, TypeOK, Entry
  <2>5. \A q \in Qids : Kept(q)
    BY <2>1, <2>3 DEF IInv, TypeOK, Entry, Kept
  <2> QED
    BY <2>4, <2>5
<1> QED
  BY <1>1, <1>2

\* So is heartbeat, which moves only a deadline.
LEMMA HeartbeatKept ==
    ASSUME IInv, NEW l \in leases, NEW x \in Timeouts, Heartbeat(l.qid, l.token, x)
    PROVE  entries' \in [Qids -> Entry] /\ \A q \in Qids : Kept(q)
<1>1. CASE ~Holds(l.qid, l.token)
  BY <1>1 DEF Heartbeat, Reject, Kept, IInv, TypeOK
<1>2. CASE Holds(l.qid, l.token)
  <2> DEFINE d == now + OrDefault(x, DefaultExtend)
  <2>1. l.qid \in Qids /\ entries[l.qid].state = "leased" /\ entries[l.qid] \in Entry
    BY <1>2 DEF Holds, IInv, TypeOK
  <2>2. d \in Nat
    BY BrokerAssumption DEF OrDefault, IInv, TypeOK
  <2>3. entries' = [entries EXCEPT ![l.qid].deadline = d]
    BY <1>2 DEF Heartbeat
  <2> HIDE DEF d
  <2>4. entries' \in [Qids -> Entry]
    BY <2>1, <2>2, <2>3 DEF IInv, TypeOK, Entry
  <2>5. \A q \in Qids : Kept(q)
    BY <2>1, <2>3 DEF IInv, TypeOK, Entry, Kept
  <2> QED
    BY <2>4, <2>5
<1> QED
  BY <1>1, <1>2

\* So is the sweep, which releases every lease that is past its deadline.
LEMMA SweepKept ==
    ASSUME IInv, SweepExpired
    PROVE  entries' \in [Qids -> Entry] /\ \A q \in Qids : Kept(q)
<1>1. SUFFICES ASSUME NEW q \in Qids PROVE entries'[q] \in Entry /\ Kept(q)
  BY DEF SweepExpired
<1>2. entries[q] \in Entry
  BY DEF IInv, TypeOK
<1>3. CASE ~Expired(q, now)
  BY <1>2, <1>3 DEF SweepExpired, Kept
<1>4. CASE Expired(q, now)
  <2>1. entries'[q] = [entries[q] EXCEPT !.state = Released(entries[q])]
    BY <1>4 DEF SweepExpired
  <2>2. Released(entries[q]) \in QState
    BY <1>2, ReleasedState DEF QState
  <2> QED
    BY <1>2, <1>4, <2>1, <2>2 DEF Expired, Entry, Kept
<1> QED
  BY <1>3, <1>4

\* Every step of the broker keeps the invariant: one case per operation.
LEMMA NextKeepsIInv == IInv /\ [Next]_vars => IInv'
<1> SUFFICES ASSUME IInv, [Next]_vars PROVE IInv'
  OBVIOUS
<1> USE DEF FaultOps
<1>0. now \in 0 .. MaxNow /\ entries \in [Qids -> Entry] /\ faults \in [FaultOps -> Nat]
  BY DEF IInv, TypeOK
<1>1. CASE \E p \in Payloads, m \in AttemptLimits : Enqueue(p, m)
  BY <1>1, EnqueueKeepsIInv
<1>2. CASE \E t \in Timeouts, f \in Filters : LeaseFiltered(t, f)
  BY <1>2, LeaseKeepsIInv
<1>3. CASE ClientStep
  <2>1. PICK l \in leases : \/ Complete(l.qid, l.token)
                            \/ Fail(l.qid, l.token)
                            \/ \E x \in Timeouts : Heartbeat(l.qid, l.token, x)
    BY <1>3 DEF ClientStep
  <2>2. CASE Complete(l.qid, l.token)
    BY <2>2, CompleteKeepsIInv
  <2>3. CASE Fail(l.qid, l.token)
    <3>1. UNCHANGED <<nextQid, nextToken, leases, commits, now>>
      BY <2>3 DEF Fail, Reject
    <3>2. faults' \in [FaultOps -> Nat]
      BY <2>3, FaultTypes DEF Fail
    <3> QED
      BY <3>1, <3>2, <2>3, <1>0, FailKept, KeptKeepsIInv
  <2>4. CASE \E x \in Timeouts : Heartbeat(l.qid, l.token, x)
    <3>1. UNCHANGED <<nextQid, nextToken, leases, commits, now>>
      BY <2>4 DEF Heartbeat, Reject
    <3>2. faults' \in [FaultOps -> Nat]
      BY <2>4, FaultTypes DEF Heartbeat
    <3> QED
      BY <3>1, <3>2, <2>4, <1>0, HeartbeatKept, KeptKeepsIInv
  <2> QED
    BY <2>1, <2>2, <2>3, <2>4
<1>4. CASE SweepExpired
  <2>1. UNCHANGED <<nextQid, nextToken, leases, commits, now>>
    BY <1>4 DEF SweepExpired
  <2>2. faults' \in [FaultOps -> Nat]
    BY <1>4, FaultTypes DEF SweepExpired
  <2> QED
    BY <2>1, <2>2, <1>4, <1>0, SweepKept, KeptKeepsIInv
<1>5. CASE advance_time_ms
  <2>1. now' \in 0 .. MaxNow
    BY <1>5, <1>0, BrokerAssumption DEF advance_time_ms
  <2> QED
    BY <2>1, <1>5, <1>0, KeptKeepsIInv DEF advance_time_ms, Kept
<1>6. CASE \E op \in FaultOps : inject_fault(op) \/ take_fault(op)
  <2>1. PICK op \in FaultOps : inject_fault(op) \/ take_fault(op)
    BY <1>6
  <2>2. UNCHANGED <<entries, nextQid, nextToken, now, leases, commits>>
    BY <2>1 DEF inject_fault, take_fault
  <2>3. faults' \in [FaultOps -> Nat]
    BY <2>1, FaultTypes
  <2> QED
    BY <2>2, <2>3, <1>0, KeptKeepsIInv DEF Kept
<1>7. CASE UNCHANGED vars
  BY <1>7, <1>0, KeptKeepsIInv DEF vars, Kept
<1> QED
  BY <1>1, <1>2, <1>3, <1>4, <1>5, <1>6, <1>7 DEF Next

\* The inductive invariant: each of the five parts needs the others.
THEOREM Invariance == Spec => []IInv
  BY InitIInv, NextKeepsIInv, PTL DEF Spec

\* The tables of FakeBrokerPort keep their types and every task a life to spend.
THEOREM TypeCorrect == Spec => []TypeOK
  BY Invariance, PTL DEF IInv

\* Fencing: complete() commits a task at most once, for its last lease only.
THEOREM Fencing == Spec => []FencedCommit
  BY Invariance, PTL DEF IInv

\* next_token_ never hands out a token twice; a leased task obeys its newest.
THEOREM FreshTokens == Spec => []TokensUnique
  BY Invariance, PTL DEF IInv

\* attempt counts the leases granted and never exceeds max_attempts.
THEOREM LivesNeverOverdrawn == Spec => []LivesAccounted
  BY Invariance, PTL DEF IInv

-----------------------------------------------------------------------------
Final(q) == entries[q].state \in {"completed", "dead"} => entries'[q] = entries[q]

\* No step moves a task out of completed, failed or dead.
LEMMA StepKeepsFinal ==
    ASSUME IInv, [Next]_vars
    PROVE  \A q \in Qids : Final(q)
<1> SUFFICES ASSUME NEW q \in Qids, entries[q].state \in {"completed", "dead"}
             PROVE  entries'[q] = entries[q]
  BY DEF Final
<1>0. entries \in [Qids -> Entry]
  BY DEF IInv, TypeOK
<1>1. CASE \E p \in Payloads, m \in AttemptLimits : Enqueue(p, m)
  <2>1. PICK p \in Payloads, m \in AttemptLimits : Enqueue(p, m)
    BY <1>1
  <2>2. q \in 1 .. nextQid + 1
    BY DEF Qids, IInv, TypeOK
  <2> QED
    BY <2>1, <2>2 DEF Enqueue
<1>2. CASE \E t \in Timeouts, f \in Filters : LeaseFiltered(t, f)
  BY <1>0, <1>2 DEF LeaseFiltered, Leasable
<1>3. CASE ClientStep
  <2>1. PICK l \in leases : \/ Complete(l.qid, l.token)
                            \/ Fail(l.qid, l.token)
                            \/ \E x \in Timeouts : Heartbeat(l.qid, l.token, x)
    BY <1>3 DEF ClientStep
  <2>2. Holds(l.qid, l.token) => l.qid # q
    BY DEF Holds
  <2>3. CASE Complete(l.qid, l.token)
    BY <2>2, <2>3, <1>0 DEF Complete, Reject
  <2>4. CASE Fail(l.qid, l.token)
    BY <2>2, <2>4, <1>0 DEF Fail, Reject
  <2>5. CASE \E x \in Timeouts : Heartbeat(l.qid, l.token, x)
    BY <2>2, <2>5, <1>0 DEF Heartbeat, Reject
  <2> QED
    BY <2>1, <2>3, <2>4, <2>5
<1>4. CASE SweepExpired
  BY <1>4 DEF SweepExpired, Expired
<1>5. CASE advance_time_ms
  BY <1>5 DEF advance_time_ms
<1>6. CASE \E op \in FaultOps : inject_fault(op) \/ take_fault(op)
  BY <1>6 DEF inject_fault, take_fault
<1>7. CASE UNCHANGED vars
  BY <1>7 DEF vars
<1> QED
  BY <1>1, <1>2, <1>3, <1>4, <1>5, <1>6, <1>7 DEF Next

\* completed and dead are final: whatever stale complete, fail, heartbeat or
\* sweep arrives later, the entry of a finished task never changes again.
THEOREM VerdictsAreFinal == Spec => TerminalStates
<1>1. IInv /\ [Next]_vars => [\A q \in Qids : entries[q].state \in {"completed", "dead"} =>
          entries'[q] = entries[q]]_vars
  BY StepKeepsFinal DEF Final
<1> QED
  BY <1>1, Invariance, PTL DEF Spec, TerminalStates

-----------------------------------------------------------------------------
\* Task q stops being leased without being completed.
Reclaimed(q) == /\ entries[q].state = "leased"
                /\ entries'[q].state \in {"pending", "dead"}

\* Before its deadline a lease ends only by its own holder's fail().
LEMMA OnlyHolderFails ==
    ASSUME IInv, [Next]_vars, NEW q \in Qids, Reclaimed(q),
           now < entries[q].deadline
    PROVE  \E l \in leases : Fail(l.qid, l.token) /\ l.qid = q
                             /\ l.token = entries[q].token
<1>0. /\ entries \in [Qids -> Entry] /\ nextQid \in Nat /\ now \in Nat
      /\ entries[q].deadline \in Nat /\ entries[q].state = "leased"
      /\ entries'[q].state \in {"pending", "dead"}
  <2>1. entries \in [Qids -> Entry] /\ nextQid \in Nat /\ now \in Nat
    BY BrokerAssumption DEF IInv, TypeOK
  <2> QED
    BY <2>1 DEF Entry, Reclaimed
<1>1. entries' # entries /\ entries'[q] # entries[q]
  BY <1>0
<1>2. CASE \E p \in Payloads, m \in AttemptLimits : Enqueue(p, m)
  <2>1. PICK p \in Payloads, m \in AttemptLimits : Enqueue(p, m)
    BY <1>2
  <2>2. q \in 1 .. nextQid + 1
    BY <1>0 DEF Qids
  <2> QED
    BY <1>1, <2>1, <2>2 DEF Enqueue
<1>3. CASE \E t \in Timeouts, f \in Filters : LeaseFiltered(t, f)
  <2> DEFINE Leases(p, d) == /\ entries[p].state = "pending"
                             /\ entries' = [entries EXCEPT
                                  ![p].attempt = @ + 1, ![p].state = "leased",
                                  ![p].token = nextToken + 1, ![p].deadline = d]
  <2>0. PICK p \in Qids : \E d : Leases(p, d)
    BY <1>3 DEF LeaseFiltered, Leasable
  <2>1. PICK d : Leases(p, d)
    BY <2>0
  <2>2. p # q
    BY <1>0, <2>1
  <2> QED
    BY <1>0, <1>1, <2>1, <2>2
<1>4. CASE ClientStep
  <2>1. PICK l \in leases : \/ Complete(l.qid, l.token)
                            \/ Fail(l.qid, l.token)
                            \/ \E x \in Timeouts : Heartbeat(l.qid, l.token, x)
    BY <1>4 DEF ClientStep
  <2>2. Holds(l.qid, l.token) /\ l.qid = q
    <3>1. Holds(l.qid, l.token)
      BY <1>1, <2>1 DEF Complete, Fail, Heartbeat, Reject
    <3>2. \E e : entries' = [entries EXCEPT ![l.qid] = e]
      BY <2>1, <3>1 DEF Complete, Fail, Heartbeat
    <3> QED
      BY <1>0, <1>1, <3>1, <3>2
  <2>3. l.token = entries[q].token
    BY <2>2 DEF Holds
  <2>4. ASSUME Complete(l.qid, l.token) PROVE FALSE
    <3>1. entries' = [entries EXCEPT ![q].state = "completed"]
      BY <2>2, <2>4 DEF Complete
    <3>2. entries'[q].state = "completed"
      BY <1>0, <3>1 DEF Entry
    <3> QED
      BY <1>0, <3>2
  <2>5. ASSUME NEW x \in Timeouts, Heartbeat(l.qid, l.token, x) PROVE FALSE
    <3>1. PICK d : entries' = [entries EXCEPT ![q].deadline = d]
      BY <2>2, <2>5 DEF Heartbeat
    <3>2. entries'[q].state = "leased"
      BY <1>0, <3>1 DEF Entry
    <3> QED
      BY <1>0, <3>2
  <2> QED
    BY <2>1, <2>2, <2>3, <2>4, <2>5
<1>5. CASE SweepExpired
  <2>1. ~Expired(q, now)
    BY <1>0 DEF Expired
  <2> QED
    BY <1>1, <1>5, <2>1 DEF SweepExpired
<1>6. CASE advance_time_ms
  BY <1>1, <1>6 DEF advance_time_ms
<1>7. CASE \E op \in FaultOps : inject_fault(op) \/ take_fault(op)
  BY <1>1, <1>7 DEF inject_fault, take_fault
<1>8. CASE UNCHANGED vars
  BY <1>1, <1>8 DEF vars
<1> QED
  BY <1>2, <1>3, <1>4, <1>5, <1>6, <1>7, <1>8 DEF Next

\* A lease is not lost behind its holder's back: neither another client's call
\* nor a sweep before the deadline returns its task to the queue.
THEOREM LeasesAreKept == Spec => NoEarlyReclaim
<1>1. IInv /\ [Next]_vars =>
        [\A q \in Qids :
            /\ entries[q].state = "leased"
            /\ entries'[q].state \in {"pending", "dead"}
            /\ now < entries[q].deadline
            => \E l \in leases : Fail(l.qid, l.token) /\ l.qid = q
                                 /\ l.token = entries[q].token]_vars
  BY OnlyHolderFails DEF Reclaimed
<1> QED
  BY <1>1, Invariance, PTL DEF Spec, NoEarlyReclaim

=============================================================================
