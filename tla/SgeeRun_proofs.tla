---------------------------- MODULE SgeeRun_proofs ----------------------------
(***************************************************************************)
(* A distributed run yields what a serial run yields, task by task, or is  *)
(* given up: for every graph, any number of pumps, lost and late results,  *)
(* expired leases, twins and memo contents.                                *)
(***************************************************************************)
EXTENDS SgeeRun, TLAPS, WellFoundedInduction

-----------------------------------------------------------------------------
(* The queue and the result channel.                                         *)

\* A queue entry is the record that Enqueue made.
Rec(p, a, m, s, t, d) ==
    [payload |-> p, attempt |-> a, max |-> m, state |-> s, token |-> t, deadline |-> d]
Entry(e) == e = Rec(e.payload, e.attempt, e.max, e.state, e.token, e.deadline)

QueueOK == /\ nextQid \in Nat /\ DOMAIN entries = 1 .. nextQid
           /\ \A q \in 1 .. nextQid : Entry(entries[q])

\* What a pump works on was enqueued, and it completes nothing before its put.
PumpsOK ==
    /\ DOMAIN wk = Workers
    /\ DOMAIN results \subseteq 1 .. nextQid
    /\ \A w \in Workers : ~Idle(w) =>
          /\ wk[w] = [qid |-> wk[w].qid, token |-> wk[w].token, at |-> wk[w].at]
          /\ wk[w].qid \in 1 .. nextQid
          /\ wk[w].at = "complete" => wk[w].qid \in DOMAIN results \cup lost

ChannelInv == QueueOK /\ PumpsOK /\ ResultsBelong /\ CompletedHasResult

\* Another state leaves an entry with its other fields.
LEMMA StateUpdate ==
    ASSUME NEW f, Entry(f), NEW s, NEW h, h = [f EXCEPT !.state = s]
    PROVE  Entry(h) /\ h.payload = f.payload /\ h.state = s
  BY DEF Entry, Rec

\* So does another deadline.
LEMMA DeadlineUpdate ==
    ASSUME NEW f, Entry(f), NEW d, NEW h, h = [f EXCEPT !.deadline = d]
    PROVE  Entry(h) /\ h.payload = f.payload /\ h.state = f.state
  BY DEF Entry, Rec

\* What every step does to the queue: it keeps the bytes of each task, may add
\* one, and completes none but those in C.
Queued(C) ==
    /\ QueueOK' /\ nextQid <= nextQid'
    /\ \A q \in 1 .. nextQid : entries'[q].payload = entries[q].payload
    /\ \A q \in 1 .. nextQid' : entries'[q].state = "completed" =>
          q \in C \/ (q \in 1 .. nextQid /\ entries[q].state = "completed")

\* Nothing is enqueued or completed when the broker is left alone.
LEMMA QueueKept ==
    ASSUME QueueOK, UNCHANGED brokerVars
    PROVE  Queued({})
  BY DEF Queued, QueueOK, brokerVars

\* enqueue adds a pending task with the bytes given.
LEMMA EnqueueQueues ==
    ASSUME QueueOK, NEW payload, NEW max, B!Enqueue(payload, max)
    PROVE  /\ Queued({}) /\ nextQid' = nextQid + 1
           /\ entries'[nextQid + 1].payload = payload
<1> DEFINE new == [payload |-> payload, attempt |-> 0,
                   max |-> B!OrDefault(max, 3),
                   state |-> "pending", token |-> 0, deadline |-> 0]
<1>1. /\ nextQid' = nextQid + 1
      /\ entries' = [q \in 1 .. nextQid + 1 |->
                        IF q \in 1 .. nextQid THEN entries[q] ELSE new]
  BY DEF B!Enqueue, B!Qids
<1>2. new.payload = payload /\ new.state = "pending" /\ Entry(new)
  BY DEF Entry, Rec
<1> HIDE DEF new
<1>3. nextQid \in Nat /\ nextQid' \in Nat /\ nextQid + 1 \notin 1 .. nextQid
      /\ nextQid + 1 \in 1 .. nextQid + 1
      /\ \A q \in 1 .. nextQid : q \in 1 .. nextQid'
  BY <1>1 DEF QueueOK
<1>4. \A q \in 1 .. nextQid : entries'[q] = entries[q]
  BY <1>1, <1>3
<1>5. entries'[nextQid + 1] = new
  BY <1>1, <1>3
<1>6. \A q \in 1 .. nextQid' : q \in 1 .. nextQid \/ q = nextQid + 1
  BY <1>1, <1>3
<1>7. DOMAIN entries' = 1 .. nextQid'
  BY <1>1
<1>8. QueueOK'
  <2>1. \A q \in 1 .. nextQid' : Entry(entries'[q])
    BY <1>2, <1>4, <1>5, <1>6 DEF QueueOK
  <2> QED
    BY <1>3, <1>7, <2>1 DEF QueueOK, Entry
<1> QED
  BY <1>1, <1>2, <1>3, <1>4, <1>5, <1>6, <1>8 DEF Queued

\* The entry of task r is rewritten, its bytes kept.
LEMMA UpdateQueues ==
    ASSUME QueueOK, NEW r \in 1 .. nextQid, NEW e, Entry(e),
           e.payload = entries[r].payload,
           entries' = [entries EXCEPT ![r] = e], nextQid' = nextQid
    PROVE  Queued(IF e.state = "completed" THEN {r} ELSE {})
<1>1. \A q \in 1 .. nextQid : entries'[q] = IF q = r THEN e ELSE entries[q]
  BY DEF QueueOK
<1>2. DOMAIN entries' = 1 .. nextQid
  BY DEF QueueOK
<1>3. \A q \in 1 .. nextQid : Entry(entries'[q])
  BY <1>1 DEF QueueOK
<1>4. QueueOK'
  BY <1>2, <1>3 DEF QueueOK, Entry
<1> QED
  BY <1>1, <1>4 DEF Queued, QueueOK

\* A lease completes nothing.
LEMMA LeaseQueues ==
    ASSUME QueueOK, NEW timeout, NEW filter, B!LeaseFiltered(timeout, filter)
    PROVE  Queued({}) /\ nextQid' = nextQid
<1>0. PICK r \in 1 .. nextQid : \E d, n :
         entries' = [entries EXCEPT ![r].attempt = n, ![r].state = "leased",
                                    ![r].token = nextToken + 1, ![r].deadline = d]
  BY DEF B!LeaseFiltered, B!Leasable, B!Qids
<1>1. PICK d, n :
         entries' = [entries EXCEPT ![r].attempt = n, ![r].state = "leased",
                                    ![r].token = nextToken + 1, ![r].deadline = d]
  BY <1>0
<1>2. PICK f, s, c : f = entries[r] /\ s = "leased" /\ c = nextToken + 1
  OBVIOUS
<1>3. PICK e : e = [f EXCEPT !.attempt = n, !.state = s, !.token = c, !.deadline = d]
  OBVIOUS
<1>4. Entry(e) /\ e.payload = entries[r].payload /\ e.state = "leased"
  <2>1. Entry(f)
    BY <1>2 DEF QueueOK
  <2>2. Entry(e) /\ e.payload = f.payload /\ e.state = s
    <3>1. f = Rec(f.payload, f.attempt, f.max, f.state, f.token, f.deadline)
      BY <2>1 DEF Entry, Rec
    <3>2. e = Rec(f.payload, n, f.max, s, c, d)
      BY <1>3, <3>1 DEF Rec
    <3> QED
      BY <3>2 DEF Entry, Rec
  <2> QED
    BY <1>2, <2>2
<1>6. entries' = [entries EXCEPT ![r] = e]
  <2>1. \A h : r \in DOMAIN h =>
           [h EXCEPT ![r].attempt = n, ![r].state = s, ![r].token = c, ![r].deadline = d]
              = [h EXCEPT ![r] = [h[r] EXCEPT !.attempt = n, !.state = s, !.token = c,
                                              !.deadline = d]]
    OBVIOUS
  <2>2. entries' = [entries EXCEPT ![r].attempt = n, ![r].state = s, ![r].token = c,
                                   ![r].deadline = d]
    BY <1>1, <1>2
  <2>3. entries' = [entries EXCEPT ![r] = [entries[r] EXCEPT
                                 !.attempt = n, !.state = s, !.token = c, !.deadline = d]]
    BY <2>1, <2>2 DEF QueueOK
  <2> QED
    BY <1>2, <1>3, <2>3
<1>5. nextQid' = nextQid
  BY DEF B!LeaseFiltered
<1>7. Queued(IF e.state = "completed" THEN {r} ELSE {})
  BY <1>4, <1>5, <1>6, UpdateQueues
<1> QED
  BY <1>4, <1>5, <1>7

\* complete, fail and heartbeat of task r: at most complete() completes it.
LEMMA HolderQueues ==
    ASSUME QueueOK, NEW r \in 1 .. nextQid, NEW token
    PROVE  /\ B!Complete(r, token) => Queued({r}) /\ nextQid' = nextQid
           /\ B!Fail(r, token) => Queued({}) /\ nextQid' = nextQid
           /\ \A x : B!Heartbeat(r, token, x) => Queued({}) /\ nextQid' = nextQid
<1>1. Entry(entries[r]) /\ r \in DOMAIN entries
  BY DEF QueueOK
<1>2. ASSUME UNCHANGED <<entries, nextQid>> PROVE Queued({})
  BY <1>2 DEF Queued, QueueOK
<1>3. ASSUME NEW s, entries' = [entries EXCEPT ![r].state = s], nextQid' = nextQid
      PROVE  Queued(IF s = "completed" THEN {r} ELSE {})
  <2>1. PICK e : e = [entries[r] EXCEPT !.state = s]
    OBVIOUS
  <2>2. Entry(e) /\ e.payload = entries[r].payload /\ e.state = s
    BY <1>1, <2>1, StateUpdate
  <2>3. entries' = [entries EXCEPT ![r] = e]
    BY <1>3, <2>1
  <2> QED
    BY <1>3, <2>2, <2>3, UpdateQueues
<1>4. ASSUME NEW d, entries' = [entries EXCEPT ![r].deadline = d], nextQid' = nextQid,
             entries[r].state # "completed"
      PROVE  Queued({})
  <2>1. PICK e : e = [entries[r] EXCEPT !.deadline = d]
    OBVIOUS
  <2>2. Entry(e) /\ e.payload = entries[r].payload /\ e.state = entries[r].state
    BY <1>1, <2>1, DeadlineUpdate
  <2>3. entries' = [entries EXCEPT ![r] = e]
    BY <1>4, <2>1
  <2>4. Queued(IF e.state = "completed" THEN {r} ELSE {})
    BY <1>4, <2>2, <2>3, UpdateQueues
  <2> QED
    BY <1>4, <2>2, <2>4
<1>5. ASSUME B!Complete(r, token) PROVE Queued({r}) /\ nextQid' = nextQid
  <2>1. CASE B!Holds(r, token)
    BY <1>3, <1>5, <2>1 DEF B!Complete
  <2>2. CASE ~B!Holds(r, token)
    <3>1. Queued({}) /\ nextQid' = nextQid
      BY <1>2, <1>5, <2>2 DEF B!Complete, B!Reject
    <3> QED
      BY <3>1 DEF Queued
  <2> QED
    BY <2>1, <2>2
<1>6. ASSUME B!Fail(r, token) PROVE Queued({}) /\ nextQid' = nextQid
  <2>1. CASE B!Holds(r, token)
    <3>1. PICK s : s # "completed" /\ entries' = [entries EXCEPT ![r].state = s]
      BY <1>6, <2>1 DEF B!Fail, B!Released
    <3> QED
      BY <1>3, <1>6, <2>1, <3>1 DEF B!Fail
  <2>2. CASE ~B!Holds(r, token)
    BY <1>2, <1>6, <2>2 DEF B!Fail, B!Reject
  <2> QED
    BY <2>1, <2>2
<1>7. ASSUME NEW x, B!Heartbeat(r, token, x) PROVE Queued({}) /\ nextQid' = nextQid
  <2>1. CASE B!Holds(r, token)
    BY <1>4, <1>7, <2>1 DEF B!Heartbeat, B!Holds
  <2>2. CASE ~B!Holds(r, token)
    BY <1>2, <1>7, <2>2 DEF B!Heartbeat, B!Reject
  <2> QED
    BY <2>1, <2>2
<1> QED
  BY <1>5, <1>6, <1>7

\* A sweep releases leases and completes nothing.
LEMMA SweepQueues ==
    ASSUME QueueOK, B!SweepExpired
    PROVE  Queued({}) /\ nextQid' = nextQid
<1>1. nextQid' = nextQid /\ DOMAIN entries' = 1 .. nextQid
  BY DEF B!SweepExpired, B!Qids
<1>2. ASSUME NEW q \in 1 .. nextQid
      PROVE  /\ Entry(entries'[q]) /\ entries'[q].payload = entries[q].payload
             /\ entries'[q].state = "completed" => entries[q].state = "completed"
  <2>1. Entry(entries[q])
    BY DEF QueueOK
  <2>2. \/ entries'[q] = entries[q]
        \/ entries'[q] = [entries[q] EXCEPT !.state = B!Released(entries[q])]
    BY DEF B!SweepExpired, B!Qids
  <2>3. B!Released(entries[q]) # "completed"
    BY DEF B!Released
  <2> QED
    BY <2>1, <2>2, <2>3 DEF Entry, Rec
<1>3. QueueOK'
  BY <1>1, <1>2 DEF QueueOK, Entry
<1> QED
  BY <1>1, <1>2, <1>3 DEF Queued, QueueOK

-----------------------------------------------------------------------------
\* A pump's answer is a refusal or the answer of the bytes it was given.
LEMMA ReplyBelongs ==
    ASSUME NEW w, NEW wire
    PROVE  Reply(w, wire) \in {BridgeError, Answer(without_routing_tag(wire))}
  BY DEF Reply

\* The channel's facts survive any step that leaves channel and pumps alone.
LEMMA ChannelKept ==
    ASSUME ChannelInv, Queued({}), UNCHANGED <<results, lost, wk>>
    PROVE  ChannelInv'
<1>1. \A q \in 1 .. nextQid : q \in 1 .. nextQid'
  BY DEF ChannelInv, QueueOK, Queued
<1>2. PumpsOK'
  BY <1>1 DEF ChannelInv, PumpsOK, Idle
<1>3. ResultsBelong'
  <2>1. \A q \in DOMAIN results : entries'[q].payload = entries[q].payload
    BY DEF ChannelInv, PumpsOK, Queued
  <2> QED
    BY <2>1 DEF ChannelInv, ResultsBelong
<1>4. CompletedHasResult'
  BY DEF ChannelInv, CompletedHasResult, Queued
<1> QED
  BY <1>2, <1>3, <1>4 DEF ChannelInv, Queued

\* The coordinator touches neither the channel nor the pumps, and does nothing
\* to the queue but enqueue and sweep.
LEMMA CoordinatorQueues ==
    ASSUME QueueOK, Coordinator \/ Deadline \/ Abort
    PROVE  Queued({}) /\ UNCHANGED <<results, lost, wk>>
<1>1. /\ UNCHANGED <<results, lost, wk>>
      /\ \/ UNCHANGED brokerVars
         \/ \E payload, max : B!Enqueue(payload, max)
         \/ B!SweepExpired
  <2>1. CASE Preflight \/ EndDispatch \/ StartRound \/ EndRound \/ SettleAliases
             \/ NextLevel \/ Join \/ Deadline \/ Abort
    BY <2>1 DEF Preflight, EndDispatch, StartRound, EndRound, SettleAliases,
                NextLevel, Join, Deadline, Abort, Outside
  <2>2. ASSUME NEW t \in TaskIds,
               Poison(t) \/ CopyTwin(t) \/ MemoHit(t) \/ EnqueueTask(t)
        PROVE  /\ UNCHANGED <<results, lost, wk>>
               /\ \/ UNCHANGED brokerVars
                  \/ \E payload, max : B!Enqueue(payload, max)
    BY <2>2 DEF Poison, CopyTwin, MemoHit, EnqueueTask, Runnable, Dispatching, Outside
  <2>3. ASSUME NEW q \in todo, StillOpen(q) \/ CollectResult(q) \/ Dead(q)
        PROVE  UNCHANGED <<results, lost, wk>> /\ UNCHANGED brokerVars
    BY <2>3 DEF StillOpen, CollectResult, Dead, Visit, Outside
  <2>4. ASSUME NEW q \in todo, Recover(q)
        PROVE  /\ UNCHANGED <<results, lost, wk>>
               /\ \/ UNCHANGED brokerVars
                  \/ \E payload, max : B!Enqueue(payload, max)
    BY <2>4 DEF Recover, Visit, Outside
  <2> QED
    BY <2>1, <2>2, <2>3, <2>4 DEF Coordinator
<1> QED
  BY <1>1, QueueKept, EnqueueQueues, SweepQueues

\* A pump that moves on keeps its lease.
LEMMA PumpMoves ==
    ASSUME PumpsOK, NEW w \in Workers, ~Idle(w), NEW s, wk' = [wk EXCEPT ![w].at = s]
    PROVE  /\ DOMAIN wk' = Workers
           /\ wk'[w] = [qid |-> wk[w].qid, token |-> wk[w].token, at |-> s]
           /\ wk'[w].qid = wk[w].qid /\ wk'[w].at = s
           /\ \A v \in Workers \ {w} : wk'[v] = wk[v]
<1>1. wk[w] = [qid |-> wk[w].qid, token |-> wk[w].token, at |-> wk[w].at]
  BY DEF PumpsOK
<1>2. DOMAIN wk = Workers
  BY DEF PumpsOK
<1>3. wk'[w] = [qid |-> wk[w].qid, token |-> wk[w].token, at |-> s]
  BY <1>1, <1>2
<1>4. wk'[w].qid = wk[w].qid /\ wk'[w].at = s
  BY <1>3
<1> QED
  BY <1>2, <1>3, <1>4

\* What a pump does keeps the channel's facts.
LEMMA PumpKeepsChannel ==
    ASSUME ChannelInv, NEW w \in Workers,
           LeaseTask(w) \/ Beat(w) \/ PutResult(w) \/ PutFails(w) \/ Finish(w)
           \/ Abandon(w) \/ Exit(w)
    PROVE  ChannelInv'
<1>0. /\ QueueOK /\ PumpsOK /\ ResultsBelong /\ CompletedHasResult
      /\ DOMAIN wk = Workers /\ DOMAIN results \subseteq 1 .. nextQid
  BY DEF ChannelInv, PumpsOK
<1>1. ASSUME ~Idle(w)
      PROVE  wk[w].qid \in 1 .. nextQid
             /\ (wk[w].at = "complete" => wk[w].qid \in DOMAIN results \cup lost)
  BY <1>0, <1>1 DEF PumpsOK
<1>2. \* The pump forgets its lease.
      ASSUME wk' = [wk EXCEPT ![w] = NoneYet], UNCHANGED <<results, lost>>,
             Queued({}) \/ (Queued({wk[w].qid}) /\ ~Idle(w) /\ wk[w].at = "complete")
      PROVE  ChannelInv'
  <2>1. wk'[w] = NoneYet /\ \A v \in Workers \ {w} : wk'[v] = wk[v]
    BY <1>0, <1>2
  <2>2. DOMAIN wk'[w] = {}
    BY <2>1 DEF NoneYet
  <2>3. /\ \A q \in 1 .. nextQid : q \in 1 .. nextQid'
        /\ \A q \in 1 .. nextQid : entries'[q].payload = entries[q].payload
    BY <1>2, <1>0 DEF QueueOK, Queued
  <2>4. PumpsOK'
    BY <1>0, <1>2, <2>1, <2>2, <2>3 DEF PumpsOK, Idle
  <2>5. ResultsBelong'
    <3>1. \A q \in DOMAIN results : entries'[q].payload = entries[q].payload
      BY <1>0, <2>3
    <3> QED
      BY <1>0, <1>2, <3>1 DEF ResultsBelong
  <2>6. CompletedHasResult'
    BY <1>0, <1>1, <1>2 DEF CompletedHasResult, Queued
  <2> QED
    BY <1>2, <2>4, <2>5, <2>6 DEF ChannelInv, Queued
<1>3. CASE LeaseTask(w)
  <2>1. Queued({}) /\ nextQid' = nextQid /\ UNCHANGED <<results, lost>>
    BY <1>0, <1>3, LeaseQueues DEF LeaseTask
  <2>2. PICK q \in 1 .. nextQid :
           wk' = [wk EXCEPT ![w] = [qid |-> q, token |-> nextToken', at |-> "run"]]
    BY <1>3 DEF LeaseTask
  <2>3. /\ wk'[w] = [qid |-> q, token |-> nextToken', at |-> "run"]
        /\ \A v \in Workers \ {w} : wk'[v] = wk[v]
        /\ DOMAIN wk' = Workers
    BY <1>0, <2>2
  <2>4. /\ wk'[w].qid = q /\ wk'[w].at = "run"
        /\ wk'[w] = [qid |-> wk'[w].qid, token |-> wk'[w].token, at |-> wk'[w].at]
    BY <2>3
  <2>5. PumpsOK'
    BY <1>0, <2>1, <2>3, <2>4 DEF PumpsOK, Idle
  <2>6. ResultsBelong' /\ CompletedHasResult'
    <3>1. \A q1 \in DOMAIN results : entries'[q1].payload = entries[q1].payload
      BY <1>0, <2>1 DEF Queued
    <3>2. ResultsBelong'
      BY <1>0, <2>1, <3>1 DEF ResultsBelong
    <3> QED
      BY <1>0, <2>1, <3>2 DEF CompletedHasResult, Queued
  <2> QED
    BY <2>1, <2>5, <2>6 DEF ChannelInv, Queued
<1>4. CASE Beat(w)
  BY <1>0, <1>1, <1>4, HolderQueues, ChannelKept DEF Beat, Outside
<1>5. CASE PutResult(w)
  <2> DEFINE q == wk[w].qid
             wire == entries[wk[w].qid].payload
  <2>1. /\ ~Idle(w) /\ wk' = [wk EXCEPT ![w].at = "complete"]
        /\ results' = Put(results, q, Reply(w, wire))
        /\ lost' = lost /\ UNCHANGED brokerVars
    BY <1>5 DEF PutResult
  <2>2. DOMAIN results' = DOMAIN results \cup {q} /\ q \in 1 .. nextQid
        /\ \A r \in DOMAIN results' : results'[r] = IF r = q THEN Reply(w, wire) ELSE results[r]
    BY <1>1, <2>1 DEF Put
  <2>3. Queued({}) /\ UNCHANGED <<entries, nextQid>>
    BY <1>0, <2>1, QueueKept DEF brokerVars
  <2>4. PumpsOK'
    BY <1>0, <2>1, <2>2, <2>3, PumpMoves DEF PumpsOK, Idle
  <2>5. ResultsBelong'
    BY <1>0, <2>2, <2>3, ReplyBelongs DEF ResultsBelong
  <2>6. CompletedHasResult'
    BY <1>0, <2>1, <2>2, <2>3 DEF CompletedHasResult
  <2> QED
    BY <2>3, <2>4, <2>5, <2>6 DEF ChannelInv, Queued
<1>6. CASE PutFails(w)
  <2>1. /\ ~Idle(w) /\ results' = results /\ UNCHANGED brokerVars
        /\ \/ wk' = [wk EXCEPT ![w].at = "complete"] /\ lost' = lost \cup {wk[w].qid}
           \/ wk' = [wk EXCEPT ![w].at = "fail"] /\ lost' = lost
    BY <1>6 DEF PutFails
  <2>2. Queued({}) /\ UNCHANGED <<entries, nextQid>> /\ lost \subseteq lost'
    BY <1>0, <2>1, QueueKept DEF brokerVars
  <2>3. PumpsOK'
    <3>1. CASE wk' = [wk EXCEPT ![w].at = "complete"] /\ lost' = lost \cup {wk[w].qid}
      BY <1>0, <2>1, <2>2, <3>1, PumpMoves DEF PumpsOK, Idle
    <3>2. CASE wk' = [wk EXCEPT ![w].at = "fail"] /\ lost' = lost
      BY <1>0, <2>1, <2>2, <3>2, PumpMoves DEF PumpsOK, Idle
    <3> QED
      BY <2>1, <3>1, <3>2
  <2>4. ResultsBelong'
    BY <1>0, <2>1, <2>2 DEF ResultsBelong
  <2>5. CompletedHasResult'
    BY <1>0, <2>1, <2>2 DEF CompletedHasResult
  <2> QED
    BY <2>2, <2>3, <2>4, <2>5 DEF ChannelInv, Queued
<1>7. CASE Finish(w)
  <2>1. ~Idle(w) /\ wk' = [wk EXCEPT ![w] = NoneYet] /\ UNCHANGED <<results, lost>>
    BY <1>7 DEF Finish
  <2>2. Queued({}) \/ (Queued({wk[w].qid}) /\ wk[w].at = "complete")
    BY <1>0, <1>1, <1>7, <2>1, HolderQueues DEF Finish
  <2> QED
    BY <1>2, <2>1, <2>2
<1>8. CASE Abandon(w)
  BY <1>0, <1>2, <1>8, QueueKept DEF Abandon
<1>9. CASE Exit(w)
  BY <1>0, <1>9, QueueKept, ChannelKept DEF Exit
<1> QED
  BY <1>3, <1>4, <1>5, <1>6, <1>7, <1>8, <1>9

\* So does every other step.
LEMMA NextKeepsChannel == ChannelInv /\ [Next]_vars => ChannelInv'
<1> SUFFICES ASSUME ChannelInv, [Next]_vars PROVE ChannelInv'
  OBVIOUS
<1>0. QueueOK
  BY DEF ChannelInv
<1>1. CASE Coordinator \/ Deadline \/ Abort
  BY <1>0, <1>1, CoordinatorQueues, ChannelKept
<1>2. ASSUME NEW q \in DOMAIN results, LoseResult(q) PROVE ChannelInv'
  <2>1. /\ results' = Drop(results, q) /\ lost' = lost \cup {q} /\ wk' = wk
        /\ UNCHANGED brokerVars
    BY <1>2 DEF LoseResult
  <2>2. Queued({}) /\ UNCHANGED <<entries, nextQid>>
    BY <1>0, <2>1, QueueKept DEF brokerVars
  <2>3. DOMAIN results' = DOMAIN results \ {q}
        /\ \A r \in DOMAIN results' : results'[r] = results[r]
    BY <2>1 DEF Drop
  <2>4. PumpsOK'
    BY <2>1, <2>2, <2>3 DEF ChannelInv, PumpsOK, Idle
  <2>5. ResultsBelong'
    BY <2>2, <2>3 DEF ChannelInv, ResultsBelong
  <2>6. CompletedHasResult'
    BY <2>1, <2>2, <2>3 DEF ChannelInv, CompletedHasResult
  <2> QED
    BY <2>2, <2>4, <2>5, <2>6 DEF ChannelInv, Queued
<1>3. CASE Tick
  <2>1. UNCHANGED <<entries, nextQid, results, lost, wk>>
    BY <1>3 DEF Tick, Outside, B!advance_time_ms
  <2> QED
    BY <2>1, ChannelKept DEF ChannelInv, QueueOK, Queued
<1>4. CASE UNCHANGED vars
  <2>1. UNCHANGED <<entries, nextQid, results, lost, wk>>
    BY <1>4 DEF vars, brokerVars
  <2> QED
    BY <2>1, ChannelKept DEF ChannelInv, QueueOK, Queued
<1> QED
  BY <1>1, <1>2, <1>3, <1>4, PumpKeepsChannel DEF Next, Ended

\* Nothing has been enqueued, leased or put when a run starts.
LEMMA InitChannel == Init => ChannelInv
<1> SUFFICES ASSUME Init PROVE ChannelInv
  OBVIOUS
<1>1. /\ nextQid = 0 /\ entries = NoneYet /\ results = NoneYet
      /\ wk = [w \in Workers |-> NoneYet]
  BY DEF Init
<1>2. DOMAIN NoneYet = {} /\ 1 .. 0 = {}
  BY DEF NoneYet
<1>3. QueueOK
  BY <1>1, <1>2 DEF QueueOK
<1>4. PumpsOK
  BY <1>1, <1>2 DEF PumpsOK, Idle
<1> QED
  BY <1>1, <1>2, <1>3, <1>4 DEF ChannelInv, ResultsBelong, CompletedHasResult

\* The channel knows nothing of lease tokens, and still no pump, however late
\* it puts, leaves another task's result under a qid: what is there is a
\* refusal or the one answer of that task's bytes.
THEOREM ResultsBelongAlways == Spec => []ResultsBelong
<1>1. ChannelInv => ResultsBelong
  BY DEF ChannelInv
<1> QED
  BY <1>1, InitChannel, NextKeepsChannel, PTL DEF Spec

\* A pump puts before it completes, so a completed task lacks a result only
\* when the channel dropped one.
THEOREM CompletedHasResultAlways == Spec => []CompletedHasResult
<1>1. ChannelInv => CompletedHasResult
  BY DEF ChannelInv
<1> QED
  BY <1>1, InitChannel, NextKeepsChannel, PTL DEF Spec

-----------------------------------------------------------------------------
(* Encoded tasks.                                                            *)

\* A sequence that starts with version 1, a fingerprint and an operation.
IsKey(k) == \E S : k \in Seq(S) /\ Len(k) >= 3 /\ k[1] = 1

\* The header of an encoded task can be told from its arguments.
LEMMA EncodeParts ==
    ASSUME NEW S, NEW a \in Seq(S), NEW x \in S, NEW y \in S, NEW z \in S,
           NEW k, k = <<x, y, z>> \o a
    PROVE  /\ k \in Seq(S) /\ Len(k) >= 3 /\ k[1] = x /\ k[3] = z
           /\ SubSeq(k, 4, Len(k)) = a
<1>1. <<x, y, z>> \in Seq(S) /\ Len(<<x, y, z>>) = 3
  OBVIOUS
<1>2. k \in Seq(S) /\ Len(k) = 3 + Len(a)
  BY <1>1
<1>3. k[1] = x /\ k[3] = z /\ \A i \in 1 .. Len(a) : k[i + 3] = a[i]
  BY <1>1
<1>4. /\ SubSeq(k, 4, Len(k)) \in Seq(S)
      /\ Len(SubSeq(k, 4, Len(k))) = Len(a)
  BY <1>2
<1>5. \A i \in 1 .. Len(a) : SubSeq(k, 4, Len(k))[i] = a[i]
  BY <1>2, <1>3
<1>6. SubSeq(k, 4, Len(k)) = a
  BY <1>4, <1>5
<1> QED
  BY <1>2, <1>3, <1>6

\* A routing tag is taken off again to the last byte.
LEMMA Untagged ==
    ASSUME NEW k, IsKey(k), NEW tag, tag = <<>> \/ \E x : tag = <<x>>
    PROVE  without_routing_tag(with_routing_tag(k, tag)) = k
<1>0. PICK S : k \in Seq(S) /\ Len(k) >= 3 /\ k[1] = 1
  BY DEF IsKey
<1>1. CASE tag = <<>>
  BY <1>0, <1>1 DEF without_routing_tag, with_routing_tag
<1>2. CASE tag # <<>>
  <2>1. PICK x : tag = <<x>>
    BY <1>2
  <2> DEFINE T == S \cup {1, 2, x}
  <2>2. /\ k \in Seq(T) /\ <<1>> \in Seq(T) /\ <<2>> \in Seq(T) /\ <<x>> \in Seq(T)
        /\ Len(<<1>>) = 1 /\ Len(<<2>>) = 1 /\ Len(<<x>>) = 1
        /\ <<1>>[1] = 1 /\ <<2>>[1] = 2
    BY <1>0
  <2> HIDE DEF T
  <2>3. /\ Tail(k) \in Seq(T) /\ Len(Tail(k)) = Len(k) - 1
        /\ \A i \in 1 .. Len(k) - 1 : Tail(k)[i] = k[i + 1]
    BY <1>0, <2>2
  <2>4. PICK h : h = <<2>> \o Tail(k)
    OBVIOUS
  <2>5. /\ h \in Seq(T) /\ Len(h) = Len(k) /\ h[1] = 2
        /\ \A i \in 2 .. Len(k) : h[i] = k[i]
    BY <1>0, <2>2, <2>3, <2>4
  <2>6. PICK w : w = h \o <<x>>
    OBVIOUS
  <2>7. /\ w \in Seq(T) /\ Len(w) = Len(k) + 1
        /\ \A i \in 1 .. Len(k) : w[i] = h[i]
    BY <1>0, <2>2, <2>5, <2>6
  <2>8. PICK s : s = SubSeq(w, 2, Len(w) - 1)
    OBVIOUS
  <2>9. /\ s \in Seq(T) /\ Len(s) = Len(k) - 1
        /\ \A i \in 1 .. Len(k) - 1 : s[i] = w[i + 1]
    BY <1>0, <2>7, <2>8
  <2>10. \A i \in 1 .. Len(k) - 1 : s[i] = k[i + 1]
    BY <1>0, <2>5, <2>7, <2>9
  <2>11. PICK c : c = <<1>> \o s
    OBVIOUS
  <2>12. /\ c \in Seq(T) /\ Len(c) = Len(k) /\ c[1] = 1
         /\ \A i \in 2 .. Len(k) : c[i] = s[i - 1]
    BY <1>0, <2>2, <2>9, <2>11
  <2>13. \A i \in 1 .. Len(k) : c[i] = k[i]
    BY <1>0, <2>10, <2>12
  <2>14. c = k
    BY <2>2, <2>12, <2>13
  <2>15. with_routing_tag(k, tag) = w
    BY <1>2, <2>1, <2>4, <2>6 DEF with_routing_tag
  <2>16. w[1] = 2
    BY <1>0, <2>5, <2>7
  <2> QED
    BY <2>8, <2>11, <2>14, <2>15, <2>16 DEF without_routing_tag
<1> QED
  BY <1>1, <1>2

\* The facts about a graph that the run never changes.
LEMMA GraphFacts ==
    ASSUME g \in Graphs
    PROVE  /\ g.n \in Nat /\ g.numLevels \in Nat
           /\ TaskIds \subseteq Nat
           /\ \A t \in TaskIds : /\ g.depth[t] \in 0 .. g.numLevels - 1
                                 /\ g.depth[t] \in Nat
                                 /\ g.deps[t] \in Seq(TaskIds)
                                 /\ DepsOf(t) \subseteq TaskIds
                                 /\ \A d \in DepsOf(t) : /\ d < t
                                                         /\ g.depth[d] < g.depth[t]
<1>1. IsTaskGraph(g)
  BY GraphAssumption
<1>2. g.n \in Nat /\ g.numLevels \in Nat
  BY <1>1 DEF IsTaskGraph
<1>3. TaskIds \subseteq Nat
  BY <1>2 DEF TaskIds, TaskIdsOf
<1>4. \A t \in TaskIds : g.depth[t] \in 0 .. g.numLevels - 1 /\ g.deps[t] \in Seq(TaskIds)
  BY <1>1 DEF IsTaskGraph, TaskIds
<1>5. \A t \in TaskIds : g.depth[t] \in Nat
  BY <1>2, <1>4
<1>6. \A t \in TaskIds : DepsOf(t) \subseteq TaskIds
  BY <1>4 DEF DepsOf
<1>7. \A t \in TaskIds : \A d \in DepsOf(t) : d < t /\ g.depth[d] < g.depth[t]
  BY <1>1 DEF IsTaskGraph, TaskIds, DepsOf
<1> QED
  BY <1>2, <1>3, <1>4, <1>5, <1>6, <1>7

\* An encoded task names its operation and carries its arguments.
LEMMA TaskKey ==
    ASSUME g \in Graphs, NEW t \in TaskIds
    PROVE  LET k == encode_task(t)
           IN  /\ IsKey(k) /\ k[3] = g.op[t]
               /\ SubSeq(k, 4, Len(k)) = Args(t, outputs)
<1> DEFINE lit == g.literals[t]
           L == {lit[i] : i \in DOMAIN lit}
           val == [i \in DOMAIN g.deps[t] |-> outputs[g.deps[t][i]].val]
           V == {val[i] : i \in DOMAIN val}
           S == L \cup V \cup {1, Mine, g.op[t]}
<1>1. lit \in Seq(L)
  BY RunAssumption DEF TaskIds
<1>2. val \in Seq(V)
  <2>1. PICK n \in Nat : DOMAIN g.deps[t] = 1 .. n
    <3>1. g.deps[t] \in Seq(TaskIds)
      BY GraphFacts
    <3> QED
      BY <3>1
  <2>2. DOMAIN val = 1 .. n
    BY <2>1
  <2> QED
    BY <2>2
<1>3. lit \in Seq(S) /\ val \in Seq(S)
  <2> HIDE DEF lit, val, L, V
  <2> QED
    BY <1>1, <1>2
<1>4. PICK a : a = Args(t, outputs)
  OBVIOUS
<1>5. a \in Seq(S)
  <2>1. a = lit \o val
    BY <1>4 DEF Args
  <2> HIDE DEF lit, val, S
  <2> QED
    BY <1>3, <2>1
<1>6. PICK k : k = encode_task(t)
  OBVIOUS
<1>7. k = <<1, Mine, g.op[t]>> \o a
  BY <1>4, <1>6 DEF encode_task
<1>8. 1 \in S /\ Mine \in S /\ g.op[t] \in S
  OBVIOUS
<1> HIDE DEF S
<1>9. /\ k \in Seq(S) /\ Len(k) >= 3 /\ k[1] = 1 /\ k[3] = g.op[t]
      /\ SubSeq(k, 4, Len(k)) = a
  BY <1>5, <1>7, <1>8, EncodeParts
<1> QED
  BY <1>4, <1>6, <1>9 DEF IsKey

-----------------------------------------------------------------------------
(* Outcomes.                                                                 *)

\* A Result is a value or an error, and never both (std::expected).
InvokeYieldsResults ==
    \A body, args : \/ \E v : Invoke(body, args) = [ok |-> TRUE, val |-> v]
                    \/ \E e : Invoke(body, args) = Error(e)

\* The outcome of a task on the outputs as they are.
rop(t) == run_or_poison(t, outputs, origins)

\* What an envelope says is what the operation returned, and every Result can
\* be kept in a memo.
LEMMA EnvelopeOfResult ==
    ASSUME NEW res, \/ \E v : res = [ok |-> TRUE, val |-> v]
                    \/ \E e : res = Error(e)
    PROVE  /\ is_memoizable_status(ToEnvelope(res).status)
           /\ FromEnvelope(ToEnvelope(res)) = res
           /\ ToEnvelope(res) # BridgeError
           /\ res.ok \in BOOLEAN /\ (~res.ok => res = Error(res.err))
<1>1. CASE \E v : res = [ok |-> TRUE, val |-> v]
  <2>1. PICK v : res = [ok |-> TRUE, val |-> v]
    BY <1>1
  <2>2. ToEnvelope(res) = [status |-> "ok", val |-> v]
    BY <2>1 DEF ToEnvelope
  <2>3. FromEnvelope(ToEnvelope(res)) = res
    <3>1. ToEnvelope(res).status = "ok" /\ ToEnvelope(res).val = v
      BY <2>2
    <3>2. FromEnvelope(ToEnvelope(res)) = [ok |-> TRUE, val |-> v]
      BY <3>1 DEF FromEnvelope
    <3> QED
      BY <2>1, <3>2
  <2>4. ToEnvelope(res).status = "ok" /\ BridgeError.status = "bridge_error"
    BY <2>2 DEF BridgeError
  <2> QED
    BY <2>1, <2>3, <2>4 DEF is_memoizable_status
<1>2. CASE \E e : res = Error(e)
  <2>1. PICK e : res = Error(e)
    BY <1>2
  <2>2. res.ok = FALSE /\ res.err = e
    BY <2>1 DEF Error
  <2>3. ToEnvelope(res) = [status |-> "math_error", err |-> e]
    BY <2>2 DEF ToEnvelope
  <2>4. ToEnvelope(res).status = "math_error" /\ ToEnvelope(res).err = e
        /\ BridgeError.status = "bridge_error"
    BY <2>3 DEF BridgeError
  <2>5. FromEnvelope(ToEnvelope(res)) = res
    BY <2>1, <2>4 DEF FromEnvelope
  <2> QED
    BY <2>1, <2>2, <2>4, <2>5 DEF is_memoizable_status
<1> QED
  BY <1>1, <1>2

\* The answer of a runnable task's bytes is the outcome of the task.
LEMMA AnswerIsOutcome ==
    ASSUME InvokeYieldsResults, g \in Graphs, NEW t \in TaskIds,
           g.op[t] \in DOMAIN Registry, FailedDeps(t, outputs) = {},
           NEW key, key = encode_task(t), NEW res, res = FromEnvelope(Answer(key))
    PROVE  /\ is_memoizable_status(Answer(key).status) /\ Answer(key) # BridgeError
           /\ rop(t).output = res /\ rop(t).origin = IF res.ok THEN None ELSE t
           /\ res.ok \in BOOLEAN /\ (~res.ok => res = Error(res.err))
<1>1. PICK r : r = Invoke(g.body[t], Args(t, outputs))
  OBVIOUS
<1>2. Answer(key) = ToEnvelope(r)
  <2>1. key[3] = g.op[t] /\ SubSeq(key, 4, Len(key)) = Args(t, outputs)
    BY TaskKey
  <2>2. g.body[t] = Registry[g.op[t]]
    BY RunAssumption DEF TaskIds
  <2> QED
    BY <1>1, <2>1, <2>2 DEF Answer
<1>3. \/ \E v : r = [ok |-> TRUE, val |-> v]
      \/ \E e : r = Error(e)
  BY <1>1 DEF InvokeYieldsResults
<1>4. /\ is_memoizable_status(ToEnvelope(r).status)
      /\ FromEnvelope(ToEnvelope(r)) = r /\ ToEnvelope(r) # BridgeError
      /\ r.ok \in BOOLEAN /\ (~r.ok => r = Error(r.err))
  BY <1>3, EnvelopeOfResult
<1>5. res = r
  BY <1>2, <1>4
<1>6. rop(t) = [output |-> r, origin |-> IF r.ok THEN None ELSE t, executed |-> TRUE]
  BY <1>1 DEF rop, run_or_poison
<1>7. rop(t).output = r /\ rop(t).origin = IF r.ok THEN None ELSE t
  BY <1>6
<1> QED
  BY <1>2, <1>4, <1>5, <1>7

\* Twins have the same outcome: equal bytes, equal output.
LEMMA TwinsAgree ==
    ASSUME InvokeYieldsResults, g \in Graphs, NEW t \in TaskIds, NEW u \in TaskIds,
           g.op[t] \in DOMAIN Registry, g.op[u] \in DOMAIN Registry,
           FailedDeps(t, outputs) = {}, FailedDeps(u, outputs) = {},
           encode_task(t) = encode_task(u)
    PROVE  /\ rop(t).output = rop(u).output
           /\ rop(t).origin = IF rop(u).output.ok THEN None ELSE t
  BY AnswerIsOutcome

\* A non-empty set of naturals has a least element.
LEMMA LeastNat ==
    ASSUME NEW T \in SUBSET Nat, T # {}
    PROVE  \E m \in T : \A n \in T : m <= n
<1>1. PICK m \in T : \A n \in T : <<n, m>> \notin OpToRel(<, Nat)
  BY NatLessThanWellFounded, WFMin, Zenon
<1>2. \A n \in T : ~(n < m)
  BY <1>1 DEF OpToRel
<1> QED
  BY <1>2

\* The least of the tasks that the failed dependencies of t blame.
Best(t, out, org) ==
    CHOOSE o \in Blamed(t, out, org) : \A p \in Blamed(t, out, org) : o <= p

\* run_or_poison reads only the dependencies and the tasks they blame.
LEMMA ReadsOnly ==
    ASSUME NEW t, NEW o1, NEW r1, NEW o2, NEW r2,
           Blamed(t, o1, r1) \subseteq Nat,
           \A u \in DepsOf(t) \cup Blamed(t, o1, r1) : o1[u] = o2[u] /\ r1[u] = r2[u]
    PROVE  /\ FailedDeps(t, o1) = FailedDeps(t, o2)
           /\ Args(t, o1) = Args(t, o2)
           /\ run_or_poison(t, o1, r1) = run_or_poison(t, o2, r2)
<1>1. FailedDeps(t, o1) = FailedDeps(t, o2) /\ FailedDeps(t, o1) \subseteq DepsOf(t)
  BY DEF FailedDeps
<1>2. Blamed(t, o1, r1) = Blamed(t, o2, r2)
  BY <1>1 DEF Blamed, OriginOf
<1>3. Best(t, o1, r1) = Best(t, o2, r2)
  BY <1>2 DEF Best
<1>4. Args(t, o1) = Args(t, o2)
  <2>1. \A i \in DOMAIN g.deps[t] : g.deps[t][i] \in DepsOf(t)
    BY DEF DepsOf
  <2> QED
    BY <2>1 DEF Args
<1>5. CASE FailedDeps(t, o1) # {}
  <2>1. Blamed(t, o1, r1) # {}
    BY <1>5 DEF Blamed
  <2>2. \E m \in Blamed(t, o1, r1) : \A n \in Blamed(t, o1, r1) : m <= n
    BY <2>1, LeastNat
  <2>3. Best(t, o1, r1) \in Blamed(t, o1, r1)
    BY <2>2 DEF Best
  <2>4. o1[Best(t, o1, r1)] = o2[Best(t, o2, r2)]
    BY <2>3, <1>3
  <2>5. /\ run_or_poison(t, o1, r1) =
              [output |-> Error(o1[Best(t, o1, r1)].err),
               origin |-> Best(t, o1, r1), executed |-> FALSE]
        /\ run_or_poison(t, o2, r2) =
              [output |-> Error(o2[Best(t, o2, r2)].err),
               origin |-> Best(t, o2, r2), executed |-> FALSE]
    BY <1>5, <1>1 DEF run_or_poison, Best
  <2> QED
    BY <1>1, <1>3, <1>4, <2>4, <2>5
<1>6. CASE FailedDeps(t, o1) = {}
  BY <1>6, <1>1, <1>4 DEF run_or_poison
<1> QED
  BY <1>5, <1>6

-----------------------------------------------------------------------------
(* What the outputs say.                                                     *)

\* Tasks of the levels before the current one.
Done == {t \in TaskIds : g.depth[t] < lvl}

\* A failure is an error, and names the task whose body failed: one that is
\* settled, no later and no deeper, with the same output.
Blames(t, o, org) ==
    /\ o = Error(o.err)
    /\ org \in TaskIds /\ org <= t /\ g.depth[org] <= g.depth[t]

OriginsBelow ==
    \A t \in Settled : ~outputs[t].ok =>
        /\ Blames(t, outputs[t], origins[t])
        /\ origins[t] \in Settled
        /\ origins[origins[t]] = origins[t]
        /\ outputs[origins[t]] = outputs[t]

\* Settled tasks have their outcome, the others nothing yet.
SettledOK ==
    /\ g \in Graphs /\ lvl \in 0 .. g.numLevels
    /\ Settled \subseteq TaskIds /\ Done \subseteq Settled
    /\ \A t \in Settled : g.depth[t] <= lvl
    /\ DOMAIN outputs = TaskIds /\ origins \in [TaskIds -> TaskIds \cup {None}]
    /\ \A t \in Settled : outputs[t] = rop(t).output /\ origins[t] = rop(t).origin
    /\ \A t \in TaskIds \ Settled :
          outputs[t] = [ok |-> TRUE, val |-> Empty] /\ origins[t] = None
    /\ \A t \in Settled : outputs[t].ok \in BOOLEAN
                          /\ (outputs[t].ok <=> origins[t] = None)
    /\ OriginsBelow

\* A task of the current level, or of one before it, depends on settled tasks
\* and blames settled tasks, all of earlier levels.
LEMMA ReadsDone ==
    ASSUME SettledOK, NEW t \in TaskIds, g.depth[t] <= lvl
    PROVE  /\ DepsOf(t) \subseteq Done
           /\ Blamed(t, outputs, origins) \subseteq Done
           /\ Blamed(t, outputs, origins) \subseteq Nat
           /\ Blamed(t, outputs, origins) = {origins[d] : d \in FailedDeps(t, outputs)}
           /\ \A d \in FailedDeps(t, outputs) :
                 /\ d \in Done /\ d \in Settled /\ ~outputs[d].ok
                 /\ origins[d] \in Done /\ origins[d] \in Nat
                 /\ origins[d] < t /\ g.depth[origins[d]] < g.depth[t]
<1>1. g \in Graphs /\ lvl \in Nat /\ Done \subseteq Settled
  <2>1. g \in Graphs /\ lvl \in 0 .. g.numLevels /\ Done \subseteq Settled
    BY DEF SettledOK
  <2> QED
    BY <2>1, GraphFacts
<1>2. \A u \in TaskIds : g.depth[u] \in Nat /\ u \in Nat
  BY <1>1, GraphFacts
<1>3. \A d \in DepsOf(t) : d \in TaskIds /\ d < t /\ g.depth[d] < g.depth[t]
  BY <1>1, GraphFacts
<1>4. DepsOf(t) \subseteq Done
  BY <1>1, <1>2, <1>3 DEF Done
<1>5. ASSUME NEW d \in FailedDeps(t, outputs)
      PROVE  /\ d \in Done /\ d \in Settled /\ ~outputs[d].ok
             /\ origins[d] \in Done /\ origins[d] \in Nat
             /\ origins[d] < t /\ g.depth[origins[d]] < g.depth[t]
             /\ OriginOf(d, origins) = origins[d]
  <2>1. d \in DepsOf(t) /\ ~outputs[d].ok
    BY DEF FailedDeps
  <2>2. d \in Done /\ d \in Settled
    BY <1>1, <1>4, <2>1
  <2>3. /\ origins[d] \in TaskIds /\ origins[d] <= d
        /\ g.depth[origins[d]] <= g.depth[d]
    BY <2>1, <2>2 DEF SettledOK, OriginsBelow, Blames
  <2>4. d \in TaskIds /\ d < t /\ g.depth[d] < g.depth[t]
    BY <1>3, <2>1
  <2>5. /\ origins[d] \in Nat /\ origins[d] < t
        /\ g.depth[origins[d]] < g.depth[t] /\ g.depth[origins[d]] < lvl
    BY <1>1, <1>2, <2>3, <2>4
  <2>6. OriginOf(d, origins) = origins[d]
    BY <2>5 DEF OriginOf, None
  <2> QED
    BY <2>1, <2>2, <2>3, <2>5, <2>6 DEF Done
<1>6. Blamed(t, outputs, origins) = {origins[d] : d \in FailedDeps(t, outputs)}
  BY <1>5 DEF Blamed
<1> QED
  BY <1>4, <1>5, <1>6

\* What a task of the current level reads does not change while outputs of
\* earlier levels do not.
LEMMA Stable ==
    ASSUME SettledOK, g' = g, NEW t \in TaskIds, g.depth[t] <= lvl,
           \A u \in Done : outputs'[u] = outputs[u] /\ origins'[u] = origins[u]
    PROVE  /\ rop(t)' = rop(t)
           /\ FailedDeps(t, outputs)' = FailedDeps(t, outputs)
           /\ encode_task(t)' = encode_task(t)
<1>1. /\ Blamed(t, outputs, origins) \subseteq Nat
      /\ \A u \in DepsOf(t) \cup Blamed(t, outputs, origins) :
            outputs[u] = outputs'[u] /\ origins[u] = origins'[u]
  BY ReadsDone
<1>2. /\ FailedDeps(t, outputs) = FailedDeps(t, outputs')
      /\ Args(t, outputs) = Args(t, outputs')
      /\ run_or_poison(t, outputs, origins) = run_or_poison(t, outputs', origins')
  BY <1>1, ReadsOnly
<1>3. /\ rop(t)' = run_or_poison(t, outputs', origins')
      /\ FailedDeps(t, outputs)' = FailedDeps(t, outputs')
      /\ Args(t, outputs)' = Args(t, outputs')
  BY DEF rop, run_or_poison, FailedDeps, Blamed, OriginOf, Args, DepsOf
<1> QED
  BY <1>2, <1>3 DEF rop, encode_task

\* The outcome of a task of the current level, and whom it blames.
LEMMA OutcomeBlames ==
    ASSUME InvokeYieldsResults, SettledOK, NEW t \in TaskIds, g.depth[t] <= lvl,
           NEW o, o = rop(t)
    PROVE  /\ o.origin \in TaskIds \cup {None}
           /\ o.output.ok \in BOOLEAN /\ (o.output.ok <=> o.origin = None)
           /\ ~o.output.ok =>
                 /\ Blames(t, o.output, o.origin)
                 /\ \/ o.origin = t
                    \/ /\ o.origin \in Done /\ origins[o.origin] = o.origin
                       /\ outputs[o.origin] = o.output
<1>1. t \in Nat /\ g.depth[t] \in Nat /\ t # None
  <2>1. g \in Graphs
    BY DEF SettledOK
  <2> QED
    BY <2>1, GraphFacts DEF None
<1>2. CASE FailedDeps(t, outputs) # {}
  <2>1. PICK b : b = Best(t, outputs, origins)
    OBVIOUS
  <2>2. b \in Blamed(t, outputs, origins)
    <3>1. /\ Blamed(t, outputs, origins) # {}
          /\ Blamed(t, outputs, origins) \subseteq Nat
      BY <1>2, ReadsDone DEF Blamed
    <3>2. \E m \in Blamed(t, outputs, origins) :
             \A n \in Blamed(t, outputs, origins) : m <= n
      BY <3>1, LeastNat
    <3> QED
      BY <2>1, <3>2 DEF Best
  <2>3. PICK d \in FailedDeps(t, outputs) : b = origins[d]
    BY <2>2, ReadsDone
  <2>4. /\ d \in Settled /\ ~outputs[d].ok
        /\ b \in Done /\ b \in Nat /\ b < t /\ g.depth[b] < g.depth[t]
    BY <2>3, ReadsDone
  <2>5. /\ origins[b] = b /\ outputs[b] = outputs[d]
        /\ outputs[d] = Error(outputs[d].err)
    BY <2>3, <2>4 DEF SettledOK, OriginsBelow, Blames
  <2>6. o = [output |-> Error(outputs[b].err), origin |-> b, executed |-> FALSE]
    BY <1>2, <2>1 DEF rop, run_or_poison, Best
  <2>7. o.output = Error(outputs[b].err) /\ o.origin = b
    BY <2>6
  <2>8. o.output = outputs[b]
    BY <2>5, <2>7
  <2>9. o.output.ok = FALSE /\ o.output = Error(o.output.err)
    BY <2>7 DEF Error
  <2>10. b \in TaskIds /\ g.depth[b] \in Nat /\ b # None
    <3>1. b \in TaskIds /\ g \in Graphs
      BY <2>4 DEF Done, SettledOK
    <3> QED
      BY <3>1, <2>4, GraphFacts DEF None
  <2>11. b <= t /\ g.depth[b] <= g.depth[t]
    BY <1>1, <2>4, <2>10
  <2> QED
    BY <2>4, <2>5, <2>7, <2>8, <2>9, <2>10, <2>11 DEF Blames
<1>3. CASE FailedDeps(t, outputs) = {}
  <2>1. PICK r : r = Invoke(g.body[t], Args(t, outputs))
    OBVIOUS
  <2>2. \/ \E v : r = [ok |-> TRUE, val |-> v]
        \/ \E e : r = Error(e)
    BY <2>1 DEF InvokeYieldsResults
  <2>3. r.ok \in BOOLEAN /\ (~r.ok => r = Error(r.err))
    BY <2>2, EnvelopeOfResult
  <2>4. o = [output |-> r, origin |-> IF r.ok THEN None ELSE t, executed |-> TRUE]
    BY <1>3, <2>1 DEF rop, run_or_poison
  <2>5. o.output = r /\ o.origin = IF r.ok THEN None ELSE t
    BY <2>4
  <2>6. t <= t /\ g.depth[t] <= g.depth[t]
    BY <1>1
  <2> QED
    BY <1>1, <2>3, <2>5, <2>6 DEF Blames
<1> QED
  BY <1>2, <1>3

-----------------------------------------------------------------------------
(* Steps, as the outputs see them.                                           *)

\* The tasks of S, unsettled ones of the current level, get their outcomes.
Writes(S) ==
    /\ S \subseteq Level(lvl) \ Settled
    /\ g' = g /\ lvl' = lvl /\ Settled' = Settled \cup S
    /\ DOMAIN outputs' = TaskIds /\ origins' = [u \in TaskIds |-> origins'[u]]
    /\ \A u \in TaskIds \ S : outputs'[u] = outputs[u] /\ origins'[u] = origins[u]
    /\ \A u \in S : outputs'[u] = rop(u).output /\ origins'[u] = rop(u).origin

\* No output changes and nothing is settled; a level may end.
WritesNothing ==
    /\ UNCHANGED <<g, outputs, origins>> /\ Settled' = Settled
    /\ lvl' = lvl \/ (lvl' = lvl + 1 /\ lvl < g.numLevels
                      /\ \A u \in TaskIds : g.depth[u] <= lvl => u \in Settled)

\* Giving tasks their outcomes keeps every settled task's outcome what it was.
LEMMA WritesKeep ==
    ASSUME InvokeYieldsResults, SettledOK, NEW S, Writes(S)
    PROVE  SettledOK'
<1>1. /\ g \in Graphs /\ lvl \in 0 .. g.numLevels /\ lvl \in Nat
      /\ Settled \subseteq TaskIds /\ Done \subseteq Settled
      /\ \A u \in TaskIds : g.depth[u] \in Nat /\ u \in Nat
      /\ \A u \in Settled : g.depth[u] <= lvl
      /\ DOMAIN outputs = TaskIds /\ origins \in [TaskIds -> TaskIds \cup {None}]
  <2>1. g \in Graphs /\ lvl \in 0 .. g.numLevels
    BY DEF SettledOK
  <2> QED
    BY <2>1, GraphFacts DEF SettledOK
<1>2. TaskIds' = TaskIds /\ Done' = Done
  BY DEF TaskIds, Done, Writes
<1>3. /\ S \subseteq TaskIds /\ S \cap Settled = {} /\ \A u \in S : g.depth[u] <= lvl
      /\ Settled' = Settled \cup S
  BY <1>1 DEF Writes, Level
<1>4. \A u \in Done : outputs'[u] = outputs[u] /\ origins'[u] = origins[u]
  BY <1>1, <1>3 DEF Writes, Done
<1>5. \A u \in TaskIds : g.depth[u] <= lvl => rop(u)' = rop(u)
  BY <1>4, Stable DEF Writes
<1>6. \A u \in S : /\ rop(u).origin \in TaskIds \cup {None}
                   /\ rop(u).output.ok \in BOOLEAN
                   /\ (rop(u).output.ok <=> rop(u).origin = None)
                   /\ ~rop(u).output.ok =>
                        /\ Blames(u, rop(u).output, rop(u).origin)
                        /\ \/ rop(u).origin = u
                           \/ /\ rop(u).origin \in Done
                              /\ origins[rop(u).origin] = rop(u).origin
                              /\ outputs[rop(u).origin] = rop(u).output
  BY <1>3, OutcomeBlames
<1>7. \A u \in Settled : outputs'[u] = outputs[u] /\ origins'[u] = origins[u]
  BY <1>1, <1>3 DEF Writes
<1>8. \A u \in Settled' : outputs'[u] = rop(u)'.output /\ origins'[u] = rop(u)'.origin
  <2>1. ASSUME NEW u \in S
        PROVE  outputs'[u] = rop(u)'.output /\ origins'[u] = rop(u)'.origin
    BY <1>3, <1>5 DEF Writes
  <2>2. ASSUME NEW u \in Settled
        PROVE  outputs'[u] = rop(u)'.output /\ origins'[u] = rop(u)'.origin
    <3>1. outputs[u] = rop(u).output /\ origins[u] = rop(u).origin
      BY DEF SettledOK
    <3>2. rop(u)' = rop(u)
      BY <1>1, <1>5
    <3> QED
      BY <1>7, <3>1, <3>2
  <2> QED
    BY <1>3, <2>1, <2>2
<1>9. \A u \in TaskIds \ Settled' :
         outputs'[u] = [ok |-> TRUE, val |-> Empty] /\ origins'[u] = None
  <2>1. \A u \in TaskIds \ Settled' : u \in TaskIds \ Settled /\ u \in TaskIds \ S
    BY <1>3
  <2> QED
    BY <2>1 DEF SettledOK, Writes
<1>10. origins' \in [TaskIds -> TaskIds \cup {None}]
  <2>1. \A u \in TaskIds : origins'[u] \in TaskIds \cup {None}
    BY <1>1, <1>6 DEF Writes
  <2>2. origins' = [u \in TaskIds |-> origins'[u]]
    BY DEF Writes
  <2> QED
    BY <2>1, <2>2
<1>11. \A u \in Settled' : outputs'[u].ok \in BOOLEAN
                           /\ (outputs'[u].ok <=> origins'[u] = None)
  <2>1. \A u \in Settled : outputs[u].ok \in BOOLEAN
                           /\ (outputs[u].ok <=> origins[u] = None)
    BY DEF SettledOK
  <2>2. \A u \in S : outputs'[u] = rop(u).output /\ origins'[u] = rop(u).origin
    BY DEF Writes
  <2> QED
    BY <1>3, <1>6, <1>7, <2>1, <2>2
<1>12. OriginsBelow'
  <2>1. SUFFICES ASSUME NEW u \in Settled', ~outputs'[u].ok
                 PROVE  /\ Blames(u, outputs'[u], origins'[u])
                        /\ origins'[u] \in Settled'
                        /\ origins'[origins'[u]] = origins'[u]
                        /\ outputs'[origins'[u]] = outputs'[u]
    <3>1. \A u, o, org : Blames(u, o, org)' <=> Blames(u, o, org)
      BY <1>2 DEF Blames, Writes
    <3> QED
      BY <2>1, <3>1, <1>2 DEF OriginsBelow, Blames, Writes
  <2>2. CASE u \in Settled
    <3>1. outputs'[u] = outputs[u] /\ origins'[u] = origins[u]
      BY <1>7, <2>2
    <3>2. /\ Blames(u, outputs[u], origins[u]) /\ origins[u] \in Settled
          /\ origins[origins[u]] = origins[u] /\ outputs[origins[u]] = outputs[u]
      BY <2>1, <2>2, <3>1 DEF SettledOK, OriginsBelow
    <3> QED
      BY <1>3, <1>7, <3>1, <3>2
  <2>3. CASE u \in S
    <3>1. outputs'[u] = rop(u).output /\ origins'[u] = rop(u).origin
      BY <2>3 DEF Writes
    <3>2. /\ Blames(u, outputs'[u], origins'[u])
          /\ \/ origins'[u] = u
             \/ /\ origins'[u] \in Done /\ origins[origins'[u]] = origins'[u]
                /\ outputs[origins'[u]] = outputs'[u]
      BY <1>6, <2>1, <2>3, <3>1
    <3>3. CASE origins'[u] = u
      BY <2>1, <3>2, <3>3
    <3>4. CASE origins'[u] # u
      BY <1>1, <1>3, <1>7, <3>2, <3>4
    <3> QED
      BY <3>3, <3>4
  <2> QED
    BY <1>3, <2>1, <2>2, <2>3
<1>13. /\ g' \in Graphs /\ lvl' \in 0 .. g'.numLevels
       /\ Settled' \subseteq TaskIds' /\ Done' \subseteq Settled'
       /\ \A u \in Settled' : g'.depth[u] <= lvl'
       /\ DOMAIN outputs' = TaskIds'
  BY <1>1, <1>2, <1>3 DEF Writes
<1> QED
  BY <1>2, <1>8, <1>9, <1>10, <1>11, <1>12, <1>13 DEF SettledOK

\* A step that changes no output keeps them all, too.
LEMMA NothingWritten ==
    ASSUME SettledOK, WritesNothing
    PROVE  SettledOK'
<1>1. /\ g \in Graphs /\ lvl \in 0 .. g.numLevels /\ lvl \in Nat
      /\ g.numLevels \in Nat
      /\ \A u \in TaskIds : g.depth[u] \in Nat
  <2>1. g \in Graphs /\ lvl \in 0 .. g.numLevels
    BY DEF SettledOK
  <2> QED
    BY <2>1, GraphFacts
<1>2. TaskIds' = TaskIds /\ Settled' = Settled
  BY DEF TaskIds, WritesNothing
<1>3. \A u : rop(u)' = rop(u)
  BY DEF rop, run_or_poison, FailedDeps, Blamed, OriginOf, Args, DepsOf, WritesNothing
<1>4. lvl' \in 0 .. g.numLevels /\ Done' \subseteq Settled
      /\ \A u \in Settled : g.depth[u] <= lvl'
  <2>1. CASE lvl' = lvl
    BY <1>1, <1>2, <2>1 DEF SettledOK, Done, WritesNothing
  <2>2. CASE lvl' = lvl + 1 /\ lvl < g.numLevels
             /\ \A u \in TaskIds : g.depth[u] <= lvl => u \in Settled
    <3>1. \A u \in Done' : u \in TaskIds /\ g.depth[u] <= lvl
      BY <1>1, <1>2, <2>2 DEF Done, WritesNothing
    <3>2. \A u \in Settled : u \in TaskIds /\ g.depth[u] <= lvl
      BY DEF SettledOK
    <3> QED
      BY <1>1, <2>2, <3>1, <3>2
  <2> QED
    BY <2>1, <2>2 DEF WritesNothing
<1>5. OriginsBelow'
  BY <1>2 DEF OriginsBelow, Blames, SettledOK, WritesNothing
<1>6. /\ g' \in Graphs /\ lvl' \in 0 .. g'.numLevels
      /\ Settled' \subseteq TaskIds' /\ Done' \subseteq Settled'
      /\ \A u \in Settled' : g'.depth[u] <= lvl'
      /\ DOMAIN outputs' = TaskIds' /\ origins' \in [TaskIds' -> TaskIds' \cup {None}]
  BY <1>1, <1>2, <1>4 DEF SettledOK, WritesNothing
<1>7. /\ \A t \in Settled' : outputs'[t] = rop(t)'.output /\ origins'[t] = rop(t)'.origin
      /\ \A t \in TaskIds' \ Settled' :
            outputs'[t] = [ok |-> TRUE, val |-> Empty] /\ origins'[t] = None
      /\ \A t \in Settled' : outputs'[t].ok \in BOOLEAN
                             /\ (outputs'[t].ok <=> origins'[t] = None)
  BY <1>2, <1>3 DEF SettledOK, WritesNothing
<1> QED
  BY <1>5, <1>6, <1>7 DEF SettledOK

-----------------------------------------------------------------------------
(* The same steps, as TaskRun sees them.                                     *)

\* TaskRun's out: the settled tasks with what the run wrote for them.
Out == [t \in Settled |-> [output |-> outputs[t], origin |-> origins[t]]]

\* TaskRun speaks of tasks as this module does.
LEMMA SameSemantics ==
    /\ Run!TaskIds = TaskIds
    /\ \A t : Run!DepsOf(t) = DepsOf(t)
    /\ \A t, o, r : Run!run_or_poison(t, o, r) = run_or_poison(t, o, r)
  BY DEF Run!TaskIds, Run!TaskIdsOf, TaskIds, TaskIdsOf, Run!DepsOf, DepsOf,
         Run!run_or_poison, run_or_poison, Run!FailedDeps, FailedDeps,
         Run!Blamed, Blamed, Run!OriginOf, OriginOf, Run!Args, Args,
         Run!Error, Error, Run!None, None

\* Tasks that get their outcomes are settled in TaskRun; when there are none,
\* TaskRun sees nothing.
LEMMA WritesSettle ==
    ASSUME SettledOK, NEW S, Writes(S), Running, Running'
    PROVE  [Run!Next]_(Run!vars)
<1>1. /\ Settled \subseteq TaskIds /\ Done \subseteq Settled
      /\ S \subseteq TaskIds /\ S \cap Settled = {} /\ \A u \in S : g.depth[u] = lvl
      /\ Settled' = Settled \cup S /\ lvl \in Nat
  <2>1. g \in Graphs /\ lvl \in 0 .. g.numLevels
    BY DEF SettledOK
  <2> QED
    BY <2>1, GraphFacts DEF SettledOK, Writes, Level
<1>2. /\ \A u \in Settled : outputs'[u] = outputs[u] /\ origins'[u] = origins[u]
      /\ \A u \in S : outputs'[u] = rop(u).output /\ origins'[u] = rop(u).origin
      /\ g' = g
  BY <1>1 DEF Writes
<1>3. CASE S = {}
  <2>1. Settled' = Settled
    BY <1>1, <1>3
  <2>2. Out' = Out
    BY <1>2, <2>1 DEF Out
  <2> QED
    BY <1>2, <2>2 DEF Run!vars, Out
<1>4. CASE S # {}
  <2> DEFINE so == [d \in DOMAIN Out |-> Out[d].output]
             sr == [d \in DOMAIN Out |-> Out[d].origin]
  <2>1. ASSUME NEW t \in S PROVE run_or_poison(t, so, sr) = rop(t)
    <3>1. /\ Blamed(t, outputs, origins) \subseteq Nat
          /\ \A u \in DepsOf(t) \cup Blamed(t, outputs, origins) : u \in Settled
      BY <1>1, ReadsDone
    <3>2. \A u \in Settled : outputs[u] = so[u] /\ origins[u] = sr[u]
      BY DEF Out
    <3> HIDE DEF so, sr
    <3>3. run_or_poison(t, outputs, origins) = run_or_poison(t, so, sr)
      BY <3>1, <3>2, ReadsOnly
    <3> QED
      BY <3>3 DEF rop
  <2>2. ASSUME NEW t \in S
        PROVE  Run!Outcome(t) = [output |-> outputs'[t], origin |-> origins'[t]]
    <3>1. Run!Outcome(t) = [output |-> Run!run_or_poison(t, so, sr).output,
                            origin |-> Run!run_or_poison(t, so, sr).origin]
      BY DEF Run!Outcome, Out
    <3> HIDE DEF so, sr
    <3>2. Run!run_or_poison(t, so, sr) = rop(t)
      BY <2>1, SameSemantics
    <3> QED
      BY <1>2, <3>1, <3>2
  <2>3. Out' = [u \in Settled \cup S |-> IF u \in S THEN Run!Outcome(u) ELSE Out[u]]
    <3>1. Out' = [u \in Settled \cup S |-> [output |-> outputs'[u], origin |-> origins'[u]]]
      BY <1>1 DEF Out
    <3>2. \A u \in Settled \cup S :
             [output |-> outputs'[u], origin |-> origins'[u]]
                = IF u \in S THEN Run!Outcome(u) ELSE Out[u]
      BY <1>1, <1>2, <2>2 DEF Out
    <3> QED
      BY <3>1, <3>2
  <2>4. DOMAIN Out = Settled
    BY DEF Out
  <2>5. \A t \in S : Run!DepsOf(t) \subseteq DOMAIN Out
    <3>1. \A t \in S : DepsOf(t) \subseteq Settled
      BY <1>1, ReadsDone
    <3> QED
      BY <2>4, <3>1, SameSemantics
  <2>6. Out' = [u \in DOMAIN Out \cup S |-> IF u \in S THEN Run!Outcome(u) ELSE Out[u]]
    BY <2>3, <2>4
  <2>7. S \cap DOMAIN Out = {}
    BY <1>1, <2>4
  <2>8. Run!Settle(S)
    BY <1>2, <1>4, <2>5, <2>6, <2>7 DEF Run!Settle, Out
  <2>9. S \in SUBSET Run!TaskIds
    BY <1>1, SameSemantics
  <2> QED
    BY <2>8, <2>9 DEF Run!Next
<1> QED
  BY <1>3, <1>4

\* A step that writes nothing only runs on, returns or aborts.
LEMMA NothingSettles ==
    ASSUME SettledOK, WritesNothing, Running,
           \/ Running'
           \/ pc' = "aborted"
           \/ pc' = "returned" /\ Settled = TaskIds
    PROVE  [Run!Next]_(Run!vars)
<1>1. Out' = Out /\ g' = g
  BY DEF Out, WritesNothing
<1>2. CASE Running'
  BY <1>1, <1>2 DEF Run!vars, Out
<1>3. CASE pc' = "aborted"
  <2>1. ~Running'
    BY <1>3 DEF Running
  <2>2. Run!Abort
    BY <1>1, <1>3, <2>1 DEF Run!Abort, Out
  <2> QED
    BY <2>2 DEF Run!Next
<1>4. CASE pc' = "returned" /\ Settled = TaskIds
  <2>1. ~Running' /\ DOMAIN Out = Run!TaskIds
    BY <1>4, SameSemantics DEF Running, Out
  <2>2. Run!Return
    BY <1>1, <1>4, <2>1 DEF Run!Return, Out
  <2> QED
    BY <2>2 DEF Run!Next
<1> QED
  BY <1>2, <1>3, <1>4


-----------------------------------------------------------------------------
(* The coordinator's tables.                                                 *)

InFlight == {pending[q].id : q \in DOMAIN pending}

\* A task of the levels so far that may run, with its bytes.
Fit(t, key) ==
    /\ t \in TaskIds /\ g.depth[t] <= lvl
    /\ FailedDeps(t, outputs) = {} /\ key = encode_task(t)

\* Preflight has let only registered operations through.
Named == pc \notin {"preflight", "aborted"} =>
            \A t \in TaskIds : g.op[t] \in DOMAIN Registry

\* Where the coordinator is tells how far the level has got.
LoopOK ==
    /\ pc \in {"preflight", "dispatch", "round", "collect", "drained", "next",
               "returning", "aborting", "returned", "aborted"}
    /\ handled \subseteq Level(lvl)
    /\ pc \in {"dispatch", "round", "collect", "drained", "next"} => lvl < g.numLevels
    /\ pc \in {"round", "collect", "drained", "next"} => handled = Level(lvl)
    /\ pc \in {"preflight", "drained", "next"} => DOMAIN pending = {}
    /\ pc \in {"preflight", "next"} => aliases = {}
    /\ pc = "preflight" => handled = {} /\ lvl = 0
    /\ pc = "returning" => lvl = g.numLevels

\* A pending qid carries the bytes of its own task, and no task has two.
Carries(q) ==
    /\ q \in 1 .. nextQid
    /\ pending[q] = [id |-> pending[q].id, key |-> pending[q].key,
                     recoveries |-> pending[q].recoveries]
    /\ pending[q].id \in handled \ Aliased
    /\ Fit(pending[q].id, pending[q].key)
    /\ without_routing_tag(entries[q].payload) = pending[q].key

PendingOK ==
    /\ todo \subseteq DOMAIN pending
    /\ \A q \in DOMAIN pending : Carries(q)
    /\ \A q, r \in DOMAIN pending : pending[q].id = pending[r].id => q = r

\* An alias waits for a dispatched task with the same bytes.
AliasOK ==
    /\ dispatched \subseteq handled \ Aliased
    /\ \A a \in aliases :
          /\ a = <<a[1], a[2]>> /\ a[1] \in handled /\ a[2] \in dispatched
          /\ \E key : Fit(a[1], key) /\ Fit(a[2], key)

\* What the index offers as a twin is settled or in flight.
IndexOK == \A i \in index : i.id \in Settled \cup dispatched /\ Fit(i.id, i.key)

\* A usable memo entry is the answer of its key.
MemoOK == \A key \in DOMAIN memo :
             is_memoizable_status(memo[key].status) => memo[key] = Answer(key)

TableInv == Named /\ LoopOK /\ PendingOK /\ AliasOK /\ IndexOK

IInv == ChannelInv /\ SettledOK /\ TableInv /\ MemoOK /\ dedup \in BOOLEAN

\* What every step of a run that has not ended does to outputs and memo.
Effect ==
    /\ Running /\ dedup' = dedup
    /\ \/ (\E S : Writes(S)) /\ Running'
       \/ /\ WritesNothing
          /\ Running' \/ pc' = "aborted" \/ (pc' = "returned" /\ Settled = TaskIds)
    /\ \/ memo' = memo
       \/ \E key : key \notin DOMAIN memo /\ memo' = Put(memo, key, Answer(key))

FitsKept == \A t, key : Fit(t, key) => Fit(t, key)'

\* Such a step keeps the outcomes of settled tasks, the bytes of runnable ones
\* and the truth of the memo, and TaskRun allows it.
LEMMA EffectKeeps ==
    ASSUME InvokeYieldsResults, SettledOK, MemoOK, Effect
    PROVE  /\ SettledOK' /\ MemoOK' /\ FitsKept /\ Settled \subseteq Settled'
           /\ g' = g /\ TaskIds' = TaskIds
           /\ [Run!Next]_(Run!vars)
           /\ \A key \in DOMAIN memo' \ DOMAIN memo : memo'[key] = Answer(key)
<1>1. /\ g' = g /\ TaskIds' = TaskIds /\ Settled \subseteq Settled'
      /\ lvl \in Nat /\ (lvl' = lvl \/ lvl' = lvl + 1)
  <2>1. g \in Graphs /\ lvl \in 0 .. g.numLevels
    BY DEF SettledOK
  <2>2. lvl \in Nat
    BY <2>1, GraphFacts
  <2> QED
    BY <2>2 DEF Effect, Writes, WritesNothing, TaskIds
<1>2. SettledOK'
  BY WritesKeep, NothingWritten DEF Effect
<1>3. [Run!Next]_(Run!vars)
  BY WritesSettle, NothingSettles DEF Effect
<1>4. MemoOK' /\ \A key \in DOMAIN memo' \ DOMAIN memo : memo'[key] = Answer(key)
  <2>1. CASE memo' = memo
    BY <2>1 DEF MemoOK
  <2>2. ASSUME NEW key, key \notin DOMAIN memo, memo' = Put(memo, key, Answer(key))
        PROVE  MemoOK' /\ \A k \in DOMAIN memo' \ DOMAIN memo : memo'[k] = Answer(k)
    <3>1. DOMAIN memo' = DOMAIN memo \cup {key}
      BY <2>2 DEF Put
    <3>2. \A k \in DOMAIN memo' : memo'[k] = IF k = key THEN Answer(k) ELSE memo[k]
      BY <2>2, <3>1 DEF Put
    <3> QED
      BY <3>1, <3>2 DEF MemoOK
  <2> QED
    BY <2>1, <2>2 DEF Effect
<1>5. FitsKept
  <2>1. \A u \in Done : outputs'[u] = outputs[u] /\ origins'[u] = origins[u]
    <3>1. \A u \in Done : u \in TaskIds /\ u \in Settled
      BY DEF SettledOK, Done
    <3> QED
      BY <3>1 DEF Effect, Writes, WritesNothing
  <2>2. ASSUME NEW t, NEW key, Fit(t, key) PROVE Fit(t, key)'
    <3>1. /\ FailedDeps(t, outputs)' = FailedDeps(t, outputs)
          /\ encode_task(t)' = encode_task(t)
      BY <1>1, <2>1, <2>2, Stable DEF Fit
    <3>2. g.depth[t] \in Nat
      <4>1. g \in Graphs /\ t \in TaskIds
        BY <2>2 DEF SettledOK, Fit
      <4> QED
        BY <4>1, GraphFacts
    <3>3. g'.depth[t] <= lvl'
      BY <1>1, <2>2, <3>2 DEF Fit
    <3> QED
      BY <1>1, <2>2, <3>1, <3>3 DEF Fit
  <2> QED
    BY <2>2 DEF FitsKept
<1> QED
  BY <1>1, <1>2, <1>3, <1>4, <1>5

\* The index keeps offering settled or dispatched tasks with their own bytes,
\* whether or not another one joins it.
LEMMA IndexKept ==
    ASSUME IndexOK, FitsKept, Settled \subseteq Settled',
           dispatched \subseteq Settled' \cup dispatched', NEW t,
           \/ index' = index
           \/ /\ index' = index \cup {[id |-> t, key |-> encode_task(t)]}
              /\ Fit(t, encode_task(t)) /\ t \in Settled' \cup dispatched'
    PROVE  IndexOK'
<1>1. \A i \in index : i.id \in Settled' \cup dispatched' /\ Fit(i.id, i.key)'
  BY DEF IndexOK, FitsKept
<1>2. CASE index' = index
  BY <1>1, <1>2 DEF IndexOK
<1>3. CASE /\ index' = index \cup {[id |-> t, key |-> encode_task(t)]}
           /\ Fit(t, encode_task(t)) /\ t \in Settled' \cup dispatched'
  <2>1. PICK k : k = encode_task(t)
    OBVIOUS
  <2>2. PICK j : j = [id |-> t, key |-> k]
    OBVIOUS
  <2>3. j.id \in Settled' \cup dispatched' /\ Fit(j.id, j.key)'
    BY <1>3, <2>1, <2>2 DEF FitsKept
  <2>4. \A i \in index' : i.id \in Settled' \cup dispatched' /\ Fit(i.id, i.key)'
    BY <1>1, <1>3, <2>1, <2>2, <2>3
  <2> QED
    BY <2>4 DEF IndexOK
<1> QED
  BY <1>2, <1>3


\* A pending qid goes on carrying its task.
LEMMA CarriesKept ==
    ASSUME NEW q, Carries(q), FitsKept, NEW C, Queued(C), QueueOK,
           pending'[q] = pending[q],
           pending[q].id \in handled' \ Aliased'
    PROVE  Carries(q)'
<1>1. q \in 1 .. nextQid' /\ entries'[q].payload = entries[q].payload
  BY DEF Carries, Queued, QueueOK
<1>2. Fit(pending[q].id, pending[q].key)'
  <2>1. PICK t, k : t = pending[q].id /\ k = pending[q].key
    OBVIOUS
  <2>2. Fit(t, k)'
    BY <2>1 DEF Carries, FitsKept
  <2>3. t = pending'[q].id /\ k = pending'[q].key
    BY <2>1
  <2> QED
    BY <2>2, <2>3
<1>3. pending'[q] = [id |-> pending'[q].id, key |-> pending'[q].key,
                     recoveries |-> pending'[q].recoveries]
  BY DEF Carries
<1>4. without_routing_tag(entries'[q].payload) = pending'[q].key
  BY <1>1 DEF Carries
<1> QED
  BY <1>1, <1>2, <1>3, <1>4 DEF Carries

\* An alias goes on waiting for its twin.
LEMMA AliasesKept ==
    ASSUME AliasOK, FitsKept, dispatched \subseteq dispatched', handled \subseteq handled',
           dispatched' \subseteq handled' \ Aliased', aliases' \subseteq aliases
    PROVE  AliasOK'
<1>1. ASSUME NEW a \in aliases'
      PROVE  /\ a = <<a[1], a[2]>> /\ a[1] \in handled' /\ a[2] \in dispatched'
             /\ \E key : Fit(a[1], key)' /\ Fit(a[2], key)'
  <2>1. /\ a = <<a[1], a[2]>> /\ a[1] \in handled /\ a[2] \in dispatched
        /\ \E key : Fit(a[1], key) /\ Fit(a[2], key)
    BY DEF AliasOK
  <2>2. PICK key : Fit(a[1], key) /\ Fit(a[2], key)
    BY <2>1
  <2>3. Fit(a[1], key)' /\ Fit(a[2], key)'
    BY <2>2 DEF FitsKept
  <2> QED
    BY <2>1, <2>3
<1> QED
  BY <1>1 DEF AliasOK

\* One task of the level gets its outcome.
LEMMA OneWritten ==
    ASSUME SettledOK, NEW t \in Level(lvl) \ Settled, g' = g, lvl' = lvl,
           Settled' = Settled \cup {t},
           NEW o, o = rop(t).output, NEW b, b = rop(t).origin,
           outputs' = [outputs EXCEPT ![t] = o], origins' = [origins EXCEPT ![t] = b]
    PROVE  Writes({t})
<1>1. DOMAIN outputs = TaskIds /\ DOMAIN origins = TaskIds /\ t \in TaskIds
  BY DEF SettledOK, Level
<1>2. DOMAIN outputs' = TaskIds /\ origins' = [u \in TaskIds |-> origins'[u]]
  BY <1>1
<1>3. \A u \in TaskIds \ {t} : outputs'[u] = outputs[u] /\ origins'[u] = origins[u]
  BY <1>1
<1>4. outputs'[t] = o /\ origins'[t] = b
  BY <1>1
<1> QED
  BY <1>2, <1>3, <1>4 DEF Writes

-----------------------------------------------------------------------------
(* Dispatch.                                                                 *)

\* The task that is dispatched is new to every table.
LEMMA NewTask ==
    ASSUME IInv, NEW t, Dispatching(t)
    PROVE  /\ t \in TaskIds /\ g.depth[t] = lvl /\ t \in Level(lvl) \ Settled
           /\ t \notin handled /\ t \notin Aliased /\ t \notin InFlight
           /\ handled' = handled \cup {t} /\ pc = "dispatch" /\ pc' = pc
           /\ g' = g /\ lvl' = lvl /\ todo' = todo /\ dedup' = dedup
           /\ TaskIds' = TaskIds /\ Done' = Done
           /\ Running /\ Running' /\ g.op[t] \in DOMAIN Registry
           /\ Named' /\ LoopOK'
<1>1. /\ t \in TaskIds /\ g.depth[t] = lvl /\ t \notin handled
      /\ handled' = handled \cup {t} /\ pc = "dispatch" /\ pc' = pc
      /\ g' = g /\ lvl' = lvl /\ todo' = todo /\ dedup' = dedup
      /\ TaskIds' = TaskIds /\ Done' = Done
  BY DEF Dispatching, Level, TaskIds, Done
<1>2. t \notin Aliased /\ t \notin InFlight
  <2>1. Aliased \subseteq handled
    BY DEF IInv, TableInv, AliasOK, Aliased
  <2>2. InFlight \subseteq handled
    BY DEF IInv, TableInv, PendingOK, Carries, InFlight
  <2> QED
    BY <1>1, <2>1, <2>2
<1>3. t \notin Done
  <2>1. lvl \in Nat
    <3>1. g \in Graphs /\ lvl \in 0 .. g.numLevels
      BY DEF IInv, SettledOK
    <3> QED
      BY <3>1, GraphFacts
  <2> QED
    BY <1>1, <2>1 DEF Done
<1>4. t \in Level(lvl) \ Settled
  BY <1>1, <1>2, <1>3 DEF Settled, Done, Level
<1>5. Named' /\ g.op[t] \in DOMAIN Registry
  BY <1>1 DEF IInv, TableInv, Named
<1>6. LoopOK'
  BY <1>1 DEF IInv, TableInv, LoopOK, Level
<1> QED
  BY <1>1, <1>2, <1>4, <1>5, <1>6 DEF Running

\* What happens to the tables of tasks in flight when t is dispatched without
\* being enqueued.
LEMMA NotEnqueued ==
    ASSUME IInv, NEW t, Dispatching(t), FitsKept, Settled \subseteq Settled',
           UNCHANGED <<dispatched, pending>>, UNCHANGED brokerVars,
           Aliased' \subseteq Aliased \cup {t}
    PROVE  PendingOK' /\ dispatched' \subseteq handled' \ Aliased'
<1>1. t \notin handled /\ handled' = handled \cup {t} /\ todo' = todo
  BY NewTask
<1>2. Queued({}) /\ QueueOK
  BY QueueKept DEF IInv, ChannelInv
<1>3. dispatched' \subseteq handled' \ Aliased'
  BY <1>1 DEF IInv, TableInv, AliasOK
<1>4. ASSUME NEW q \in DOMAIN pending' PROVE Carries(q)'
  <2>1. Carries(q) /\ pending'[q] = pending[q]
    BY DEF IInv, TableInv, PendingOK
  <2>2. pending[q].id \in handled' \ Aliased'
    BY <1>1, <2>1 DEF Carries
  <2> QED
    BY <1>2, <2>1, <2>2, CarriesKept
<1> QED
  BY <1>1, <1>3, <1>4 DEF IInv, TableInv, PendingOK

\* A task is settled at once: poisoned, copied or found in the memo.
LEMMA SettledAtOnce ==
    ASSUME InvokeYieldsResults, IInv, NEW t, Dispatching(t),
           UNCHANGED <<dispatched, aliases, pending>>, UNCHANGED brokerVars, memo' = memo,
           NEW o, o = rop(t).output, NEW b, b = rop(t).origin,
           outputs' = [outputs EXCEPT ![t] = o], origins' = [origins EXCEPT ![t] = b],
           \/ index' = index
           \/ index' = Indexed(t) /\ FailedDeps(t, outputs) = {}
    PROVE  Effect /\ TableInv'
<1>1. /\ t \in TaskIds /\ g.depth[t] = lvl /\ t \in Level(lvl) \ Settled
      /\ t \notin handled /\ t \notin Aliased /\ t \notin InFlight
      /\ handled' = handled \cup {t}
      /\ g' = g /\ lvl' = lvl /\ dedup' = dedup /\ TaskIds' = TaskIds /\ Done' = Done
      /\ Running /\ Running' /\ Named' /\ LoopOK'
  BY NewTask
<1>2. Aliased' = Aliased /\ InFlight' = InFlight
  BY DEF Aliased, InFlight
<1>3. Settled' = Settled \cup {t}
  BY <1>1, <1>2 DEF Settled, Done, InFlight
<1>4. Writes({t})
  BY <1>1, <1>3, OneWritten DEF IInv
<1>5. Effect
  BY <1>1, <1>4 DEF Effect
<1>6. FitsKept /\ Settled \subseteq Settled'
  BY <1>5, EffectKeeps DEF IInv
<1>7. PendingOK' /\ dispatched' \subseteq handled' \ Aliased'
  BY <1>2, <1>6, NotEnqueued
<1>8. AliasOK'
  BY <1>1, <1>6, <1>7, AliasesKept DEF IInv, TableInv
<1>9. IndexOK'
  <2>1. dispatched \subseteq Settled' \cup dispatched' /\ t \in Settled'
    BY <1>3
  <2>2. CASE index' = index
    BY <1>6, <2>1, <2>2, IndexKept DEF IInv, TableInv
  <2>3. CASE index' = index \cup {[id |-> t, key |-> encode_task(t)]}
             /\ FailedDeps(t, outputs) = {}
    <3>1. Fit(t, encode_task(t))
      <4>1. g.depth[t] <= lvl
        <5>1. g \in Graphs
          BY DEF IInv, SettledOK
        <5> QED
          BY <1>1, <5>1, GraphFacts
      <4> QED
        BY <1>1, <2>3, <4>1 DEF Fit
    <3> QED
      BY <1>6, <2>1, <2>3, <3>1, IndexKept DEF IInv, TableInv
  <2> QED
    BY <2>2, <2>3 DEF Indexed
<1> QED
  BY <1>1, <1>5, <1>7, <1>8, <1>9 DEF TableInv


\* A poisoned task takes the failure that run_or_poison would.
LEMMA PoisonStep ==
    ASSUME InvokeYieldsResults, IInv, NEW t, Poison(t)
    PROVE  Effect /\ TableInv'
<1>1. /\ Dispatching(t) /\ FailedDeps(t, outputs) # {}
      /\ UNCHANGED <<dispatched, aliases, pending, index>> /\ UNCHANGED brokerVars
      /\ memo' = memo
  BY DEF Poison
<1>2. t \in TaskIds /\ g.depth[t] <= lvl
  <2>1. t \in TaskIds /\ g.depth[t] = lvl /\ g \in Graphs
    BY <1>1, NewTask DEF IInv, SettledOK
  <2> QED
    BY <2>1, GraphFacts
<1> DEFINE T == {origins[d] : d \in FailedDeps(t, outputs)}
<1>3. PICK b : b = CHOOSE o \in T : \A d \in FailedDeps(t, outputs) : o <= origins[d]
  OBVIOUS
<1>4. PICK c : c = Best(t, outputs, origins)
  OBVIOUS
<1>5. /\ T # {} /\ T \subseteq Nat /\ Blamed(t, outputs, origins) = T
  <2>1. /\ Blamed(t, outputs, origins) = T
        /\ Blamed(t, outputs, origins) \subseteq Nat
    BY <1>2, ReadsDone DEF IInv
  <2> QED
    BY <1>1, <2>1
<1>6. \A o : (\A d \in FailedDeps(t, outputs) : o <= origins[d]) <=> (\A p \in T : o <= p)
  OBVIOUS
<1>7. b \in T /\ \A p \in T : b <= p
  <2>1. \E m \in T : \A n \in T : m <= n
    <3> HIDE DEF T
    <3> QED
      BY <1>5, LeastNat
  <2>2. \E m \in T : \A d \in FailedDeps(t, outputs) : m <= origins[d]
    BY <2>1, <1>6
  <2>3. b \in T /\ \A d \in FailedDeps(t, outputs) : b <= origins[d]
    <3> HIDE DEF T
    <3> QED
      BY <1>3, <2>2
  <2> QED
    BY <1>6, <2>3
<1> HIDE DEF T
<1>8. c \in T /\ \A p \in T : c <= p
  <2>1. \E m \in T : \A n \in T : m <= n
    BY <1>5, LeastNat
  <2>2. c = CHOOSE o \in T : \A p \in T : o <= p
    BY <1>4, <1>5 DEF Best
  <2> QED
    BY <2>1, <2>2
<1>9. b = c
  BY <1>5, <1>7, <1>8
<1>10. PICK o : o = Error(outputs[b].err)
  OBVIOUS
<1>11. outputs' = [outputs EXCEPT ![t] = o] /\ origins' = [origins EXCEPT ![t] = b]
  BY <1>3, <1>10 DEF Poison, T
<1>12. rop(t).output = o /\ rop(t).origin = b
  <2>1. rop(t) = [output |-> Error(outputs[c].err), origin |-> c, executed |-> FALSE]
    BY <1>1, <1>4 DEF rop, run_or_poison, Best
  <2> QED
    BY <1>9, <1>10, <2>1
<1> QED
  BY <1>1, <1>11, <1>12, SettledAtOnce

\* A task found in the memo takes the answer of its own bytes.
LEMMA MemoHitStep ==
    ASSUME InvokeYieldsResults, IInv, NEW t, MemoHit(t)
    PROVE  Effect /\ TableInv'
<1>1. PICK key : key = encode_task(t)
  OBVIOUS
<1>2. PICK res : res = FromEnvelope(memo[key])
  OBVIOUS
<1>3. PICK b : b = IF res.ok THEN None ELSE t
  OBVIOUS
<1>4. /\ Dispatching(t) /\ FailedDeps(t, outputs) = {}
      /\ UNCHANGED <<dispatched, aliases, pending>> /\ UNCHANGED brokerVars
      /\ memo' = memo /\ index' = Indexed(t)
      /\ key \in DOMAIN memo /\ is_memoizable_status(memo[key].status)
      /\ outputs' = [outputs EXCEPT ![t] = res] /\ origins' = [origins EXCEPT ![t] = b]
  BY <1>1, <1>2, <1>3 DEF MemoHit, Runnable, Apply
<1>5. res = FromEnvelope(Answer(key))
  BY <1>2, <1>4 DEF IInv, MemoOK
<1>6. t \in TaskIds /\ g.op[t] \in DOMAIN Registry /\ g \in Graphs
  BY <1>4, NewTask DEF IInv, SettledOK
<1>7. rop(t).output = res /\ rop(t).origin = b
  BY <1>1, <1>3, <1>4, <1>5, <1>6, AnswerIsOutcome
<1> QED
  BY <1>4, <1>7, SettledAtOnce

\* A task with the bytes of a settled one takes its output; with those of one
\* in flight it becomes an alias.
LEMMA CopyTwinStep ==
    ASSUME InvokeYieldsResults, IInv, NEW t, CopyTwin(t)
    PROVE  Effect /\ TableInv'
<1>1. PICK twin \in find_identical_task(encode_task(t)) :
         IF twin \in dispatched
         THEN aliases' = aliases \cup {<<t, twin>>} /\ UNCHANGED <<outputs, origins>>
         ELSE Apply(t, outputs[twin]) /\ UNCHANGED aliases
  BY DEF CopyTwin
<1>2. /\ Dispatching(t) /\ FailedDeps(t, outputs) = {}
      /\ UNCHANGED <<dispatched, pending, index>> /\ UNCHANGED brokerVars
      /\ memo' = memo
  BY DEF CopyTwin, Runnable
<1>3. /\ t \in TaskIds /\ g.depth[t] = lvl /\ t \in Level(lvl) \ Settled
      /\ t \notin handled /\ t \notin Aliased /\ t \notin InFlight
      /\ handled' = handled \cup {t} /\ g' = g /\ lvl' = lvl /\ dedup' = dedup
      /\ TaskIds' = TaskIds /\ Done' = Done
      /\ Running /\ Running' /\ Named' /\ LoopOK'
      /\ pc = "dispatch" /\ g.op[t] \in DOMAIN Registry
  BY <1>2, NewTask
<1>4. PICK key : key = encode_task(t)
  OBVIOUS
<1>5. twin \in Settled \cup dispatched /\ Fit(twin, key)
  <2>1. PICK i \in index : i.id = twin /\ i.key = key
    BY <1>1, <1>4 DEF find_identical_task
  <2> QED
    BY <2>1 DEF IInv, TableInv, IndexOK
<1>6. Fit(t, key)
  <2>1. g.depth[t] <= lvl
    <3>1. g \in Graphs
      BY DEF IInv, SettledOK
    <3> QED
      BY <1>3, <3>1, GraphFacts
  <2> QED
    BY <1>2, <1>3, <1>4, <2>1 DEF Fit
<1>7. CASE twin \notin dispatched
  <2>1. PICK o : o = outputs[twin]
    OBVIOUS
  <2>2. PICK b : b = IF o.ok THEN None ELSE t
    OBVIOUS
  <2>3. /\ outputs' = [outputs EXCEPT ![t] = o] /\ origins' = [origins EXCEPT ![t] = b]
        /\ aliases' = aliases
    BY <1>1, <1>7, <2>1, <2>2 DEF Apply
  <2>4. o = rop(twin).output
    BY <1>5, <1>7, <2>1 DEF IInv, SettledOK
  <2>5. g.op[twin] \in DOMAIN Registry /\ twin \in TaskIds /\ g \in Graphs
        /\ FailedDeps(twin, outputs) = {} /\ encode_task(t) = encode_task(twin)
    BY <1>3, <1>4, <1>5 DEF Fit, IInv, TableInv, Named, SettledOK
  <2>6. rop(t).output = o /\ rop(t).origin = b
    BY <1>2, <1>3, <2>2, <2>4, <2>5, TwinsAgree
  <2> QED
    BY <1>2, <2>3, <2>6, SettledAtOnce
<1>8. CASE twin \in dispatched
  <2>1. /\ aliases' = aliases \cup {<<t, twin>>} /\ outputs' = outputs
        /\ origins' = origins
    BY <1>1, <1>8
  <2>2. Aliased' = Aliased \cup {t} /\ InFlight' = InFlight
    <3>1. PICK a : a = <<t, twin>>
      OBVIOUS
    <3>2. aliases' = aliases \cup {a} /\ a[1] = t
      BY <2>1, <3>1
    <3>3. Aliased' = Aliased \cup {t}
      BY <3>2 DEF Aliased
    <3> QED
      BY <1>2, <3>3 DEF InFlight
  <2>3. Settled' = Settled
    BY <1>3, <2>2 DEF Settled, Done, InFlight
  <2>4. Effect
    BY <1>2, <1>3, <2>1, <2>3 DEF Effect, WritesNothing
  <2>5. FitsKept
    BY <2>4, EffectKeeps DEF IInv
  <2>6. PendingOK' /\ dispatched' \subseteq handled' \ Aliased'
    BY <1>2, <2>2, <2>3, <2>5, NotEnqueued
  <2>7. AliasOK'
    <3>1. ASSUME NEW a \in aliases
          PROVE  /\ a = <<a[1], a[2]>> /\ a[1] \in handled' /\ a[2] \in dispatched'
                 /\ \E k : Fit(a[1], k)' /\ Fit(a[2], k)'
      <4>1. /\ a = <<a[1], a[2]>> /\ a[1] \in handled /\ a[2] \in dispatched
            /\ \E k : Fit(a[1], k) /\ Fit(a[2], k)
        BY DEF IInv, TableInv, AliasOK
      <4>2. PICK k : Fit(a[1], k) /\ Fit(a[2], k)
        BY <4>1
      <4>3. Fit(a[1], k)' /\ Fit(a[2], k)'
        BY <2>5, <4>2 DEF FitsKept
      <4> QED
        BY <1>2, <1>3, <4>1, <4>3
    <3>2. PICK n : n = <<t, twin>>
      OBVIOUS
    <3>3. n = <<n[1], n[2]>> /\ n[1] = t /\ n[2] = twin
      BY <3>2
    <3>4. /\ n = <<n[1], n[2]>> /\ n[1] \in handled' /\ n[2] \in dispatched'
          /\ \E k : Fit(n[1], k)' /\ Fit(n[2], k)'
      <4>1. Fit(t, key)' /\ Fit(twin, key)'
        BY <1>5, <1>6, <2>5 DEF FitsKept
      <4>2. Fit(n[1], key)' /\ Fit(n[2], key)'
        BY <3>3, <4>1
      <4>3. n[1] \in handled' /\ n[2] \in dispatched'
        BY <1>2, <1>3, <1>8, <3>3
      <4> QED
        BY <3>3, <4>2, <4>3
    <3>5. \A a \in aliases' : a \in aliases \/ a = n
      BY <2>1, <3>2
    <3> QED
      BY <2>6, <3>1, <3>4, <3>5 DEF AliasOK
  <2>8. IndexOK'
    BY <1>2, <2>3, <2>5, IndexKept DEF IInv, TableInv
  <2> QED
    BY <1>3, <2>4, <2>6, <2>7, <2>8 DEF TableInv
<1> QED
  BY <1>7, <1>8


\* The qid that enqueue returns is new, and carries what it was given for.
LEMMA NewCarries ==
    ASSUME IInv, NEW payload, NEW max, B!Enqueue(payload, max),
           NEW n, n = nextQid', NEW id, NEW key, NEW recoveries,
           pending'[n] = [id |-> id, key |-> key, recoveries |-> recoveries],
           id \in handled' \ Aliased', Fit(id, key)',
           without_routing_tag(payload) = key
    PROVE  Carries(n)' /\ n \notin DOMAIN pending /\ Queued({}) /\ QueueOK
<1>1. /\ QueueOK /\ Queued({}) /\ nextQid' = nextQid + 1 /\ nextQid \in Nat
      /\ entries'[nextQid + 1].payload = payload
  BY EnqueueQueues DEF IInv, ChannelInv, QueueOK
<1>2. n \in 1 .. nextQid' /\ entries'[n].payload = payload
  BY <1>1
<1>3. n \notin DOMAIN pending
  <2>1. \A q \in DOMAIN pending : q \in 1 .. nextQid
    BY DEF IInv, TableInv, PendingOK, Carries
  <2> QED
    BY <1>1, <2>1
<1>4. PICK r : r = pending'[n]
  OBVIOUS
<1>5. r = [id |-> r.id, key |-> r.key, recoveries |-> r.recoveries]
      /\ r.id = id /\ r.key = key
  BY <1>4
<1>6. Fit(pending[n].id, pending[n].key)'
  <2>1. id = pending'[n].id /\ key = pending'[n].key
    BY <1>4, <1>5
  <2> QED
    BY <2>1
<1>7. Carries(n)'
  BY <1>2, <1>4, <1>5, <1>6 DEF Carries
<1> QED
  BY <1>1, <1>3, <1>7

\* The bytes of a runnable task survive the routing tag they travel with.
LEMMA TagComesOff ==
    ASSUME g \in Graphs, NEW t, NEW key, Fit(t, key)
    PROVE  without_routing_tag(with_routing_tag(key, g.tag[t])) = key
<1>1. IsKey(key)
  BY TaskKey DEF Fit
<1>2. PICK tag : tag = g.tag[t]
  OBVIOUS
<1>3. tag = <<>> \/ \E x : tag = <<x>>
  <2>1. t \in TaskIdsOf(g)
    BY DEF Fit, TaskIds
  <2>2. g.tag[t] = <<>> \/ g.tag[t] = <<g.tag[t][1]>>
    BY <2>1, RunAssumption
  <2>3. PICK x : x = tag[1]
    OBVIOUS
  <2>4. tag = <<>> \/ tag = <<x>>
    BY <1>2, <2>2, <2>3
  <2> QED
    BY <2>4
<1> QED
  BY <1>1, <1>2, <1>3, Untagged

\* A task that is enqueued is in flight under the qid it is given.
LEMMA EnqueueTaskStep ==
    ASSUME InvokeYieldsResults, IInv, NEW t, EnqueueTask(t)
    PROVE  Effect /\ TableInv'
<1>1. PICK key : key = encode_task(t)
  OBVIOUS
<1>2. PICK n : n = nextQid'
  OBVIOUS
<1>3. PICK payload : payload = with_routing_tag(key, g.tag[t])
  OBVIOUS
<1>4. PICK rec : rec = [id |-> t, key |-> key, recoveries |-> 0]
  OBVIOUS
<1>5. /\ Dispatching(t) /\ FailedDeps(t, outputs) = {}
      /\ B!Enqueue(payload, MaxAttempts(g)) /\ pending' = Put(pending, n, rec)
      /\ UNCHANGED <<outputs, origins, aliases, memo>>
      /\ index' = Indexed(t)
      /\ dispatched' = IF dedup THEN dispatched \cup {t} ELSE dispatched
  BY <1>1, <1>2, <1>3, <1>4 DEF EnqueueTask, Runnable
<1>6. /\ t \in TaskIds /\ g.depth[t] = lvl /\ t \in Level(lvl) \ Settled
      /\ t \notin handled /\ t \notin Aliased /\ t \notin InFlight
      /\ handled' = handled \cup {t} /\ g' = g /\ lvl' = lvl /\ dedup' = dedup
      /\ todo' = todo /\ TaskIds' = TaskIds /\ Done' = Done
      /\ Running /\ Running' /\ Named' /\ LoopOK'
  BY <1>5, NewTask
<1>7. Fit(t, key) /\ g \in Graphs
  <2>1. g \in Graphs
    BY DEF IInv, SettledOK
  <2>2. g.depth[t] <= lvl
    BY <1>6, <2>1, GraphFacts
  <2> QED
    BY <1>1, <1>5, <1>6, <2>1, <2>2 DEF Fit
<1>8. /\ DOMAIN pending' = DOMAIN pending \cup {n} /\ pending'[n] = rec
      /\ \A q \in DOMAIN pending \ {n} : pending'[q] = pending[q]
  BY <1>5 DEF Put
<1>9. n \notin DOMAIN pending
  <2>1. /\ nextQid \in Nat /\ n = nextQid + 1
    BY <1>2, <1>5, EnqueueQueues DEF IInv, ChannelInv, QueueOK
  <2>2. \A q \in DOMAIN pending : q \in 1 .. nextQid
    BY DEF IInv, TableInv, PendingOK, Carries
  <2> QED
    BY <2>1, <2>2
<1>10. Aliased' = Aliased /\ InFlight' = InFlight \cup {t}
  <2>1. rec.id = t
    BY <1>4
  <2> QED
    BY <1>5, <1>8, <1>9, <2>1 DEF Aliased, InFlight
<1>11. Settled' = Settled
  BY <1>6, <1>10 DEF Settled, Done, InFlight
<1>12. Effect
  BY <1>5, <1>6, <1>11 DEF Effect, WritesNothing
<1>13. FitsKept
  BY <1>12, EffectKeeps DEF IInv
<1>14. Carries(n)' /\ Queued({}) /\ QueueOK
  <2>1. Fit(t, key)' /\ without_routing_tag(payload) = key
    BY <1>3, <1>7, <1>13, TagComesOff DEF FitsKept
  <2>2. t \in handled' \ Aliased'
    BY <1>6, <1>10
  <2>3. pending'[n] = [id |-> t, key |-> key, recoveries |-> 0]
    BY <1>4, <1>8
  <2> QED
    BY <1>2, <1>5, <2>1, <2>2, <2>3, NewCarries
<1>15. ASSUME NEW q \in DOMAIN pending PROVE Carries(q)'
  <2>1. Carries(q) /\ pending'[q] = pending[q]
    BY <1>8, <1>9 DEF IInv, TableInv, PendingOK
  <2>2. pending[q].id \in handled' \ Aliased'
    BY <1>6, <1>10, <2>1 DEF Carries
  <2> QED
    BY <1>13, <1>14, <2>1, <2>2, CarriesKept
<1>16. PendingOK'
  <2>1. \A q, r \in DOMAIN pending' : pending'[q].id = pending'[r].id => q = r
    <3>1. rec.id = t
      BY <1>4
    <3>2. \A q, r \in DOMAIN pending : pending[q].id = pending[r].id => q = r
      BY DEF IInv, TableInv, PendingOK
    <3>3. \A q \in DOMAIN pending : pending[q].id # t
      BY <1>6 DEF InFlight
    <3> QED
      BY <1>8, <1>9, <3>1, <3>2, <3>3
  <2>2. todo' \subseteq DOMAIN pending'
    BY <1>6, <1>8 DEF IInv, TableInv, PendingOK
  <2> QED
    BY <1>8, <1>14, <1>15, <2>1, <2>2 DEF PendingOK
<1>17. AliasOK'
  <2>1. dispatched \subseteq dispatched' /\ handled \subseteq handled'
    BY <1>5, <1>6
  <2>2. dispatched' \subseteq handled' \ Aliased'
    BY <1>5, <1>6, <1>10 DEF IInv, TableInv, AliasOK
  <2> QED
    BY <1>5, <1>13, <2>1, <2>2, AliasesKept DEF IInv, TableInv
<1>18. IndexOK'
  <2>1. dispatched \subseteq Settled' \cup dispatched' /\ Settled \subseteq Settled'
    BY <1>5, <1>11
  <2>2. CASE dedup
    <3>1. index' = index \cup {[id |-> t, key |-> encode_task(t)]}
          /\ Fit(t, encode_task(t)) /\ t \in Settled' \cup dispatched'
      BY <1>1, <1>5, <1>7, <2>2 DEF Indexed
    <3> QED
      BY <1>13, <2>1, <3>1, IndexKept DEF IInv, TableInv
  <2>3. CASE ~dedup
    <3>1. index' = index
      BY <1>5, <2>3 DEF Indexed
    <3> QED
      BY <1>13, <2>1, <3>1, IndexKept DEF IInv, TableInv
  <2> QED
    BY <2>2, <2>3
<1> QED
  BY <1>6, <1>12, <1>16, <1>17, <1>18 DEF TableInv


-----------------------------------------------------------------------------
(* Steps that leave the tables alone.                                        *)

\* Such a step moves the coordinator on, to its end perhaps.
LEMMA QuietStep ==
    ASSUME InvokeYieldsResults, IInv, NEW C, Queued(C),
           UNCHANGED <<g, dedup, lvl, outputs, origins, handled, index, dispatched,
                       aliases, pending, memo>>,
           todo' \subseteq DOMAIN pending, LoopOK', Named', Running,
           Running' \/ pc' = "aborted" \/ (pc' = "returned" /\ Settled = TaskIds)
    PROVE  Effect /\ TableInv'
<1>1. Aliased' = Aliased /\ InFlight' = InFlight /\ Settled' = Settled
  BY DEF Aliased, InFlight, Settled, TaskIds
<1>2. Effect
  BY <1>1 DEF Effect, WritesNothing
<1>3. FitsKept
  BY <1>2, EffectKeeps DEF IInv
<1>4. PendingOK'
  <2>1. ASSUME NEW q \in DOMAIN pending PROVE Carries(q)'
    <3>1. Carries(q)
      BY DEF IInv, TableInv, PendingOK
    <3>2. pending[q].id \in handled' \ Aliased' /\ QueueOK /\ pending'[q] = pending[q]
      BY <1>1, <3>1 DEF Carries, IInv, ChannelInv
    <3> QED
      BY <1>3, <3>1, <3>2, CarriesKept
  <2> QED
    BY <2>1 DEF IInv, TableInv, PendingOK
<1>5. AliasOK'
  <2>1. dispatched' \subseteq handled' \ Aliased'
    BY <1>1 DEF IInv, TableInv, AliasOK
  <2> QED
    BY <1>3, <2>1, AliasesKept DEF IInv, TableInv
<1>6. IndexOK'
  BY <1>1, <1>3, IndexKept DEF IInv, TableInv
<1> QED
  BY <1>2, <1>4, <1>5, <1>6 DEF TableInv

\* The coordinator's steps of that kind.
LEMMA CoordinatorQuiet ==
    ASSUME InvokeYieldsResults, IInv,
           \/ Preflight \/ EndDispatch \/ StartRound \/ EndRound \/ Join
           \/ Deadline \/ Abort
           \/ \E q \in todo : StillOpen(q) \/ Dead(q)
    PROVE  Effect /\ TableInv'
<1>1. Queued({})
  BY CoordinatorQueues DEF IInv, ChannelInv, Coordinator
<1>2. LoopOK /\ Named /\ g \in Graphs /\ todo \subseteq DOMAIN pending
  BY DEF IInv, TableInv, SettledOK, PendingOK
<1>3. UNCHANGED <<g, dedup, lvl, outputs, origins, handled, index, dispatched,
                  aliases, pending, memo>>
  BY DEF Preflight, EndDispatch, StartRound, EndRound, Join, Deadline, Abort,
         StillOpen, Dead, Visit
<1>4. TaskIds' = TaskIds /\ Level(lvl)' = Level(lvl)
  BY <1>3 DEF TaskIds, Level
<1>5. todo' \subseteq DOMAIN pending
  BY <1>2 DEF Preflight, EndDispatch, StartRound, EndRound, Join, Deadline, Abort,
              StillOpen, Dead, Visit
<1>6. CASE Preflight
  <2>1. CASE g.n = 0
    <3>1. pc' = "returned" /\ pc = "preflight"
      BY <1>6, <2>1 DEF Preflight
    <3>2. TaskIds = {}
      BY <2>1 DEF TaskIds, TaskIdsOf
    <3>3. Settled = TaskIds
      BY <3>2 DEF IInv, SettledOK
    <3>4. LoopOK' /\ Named'
      BY <1>2, <1>3, <1>4, <3>1, <3>2 DEF LoopOK, Named
    <3> QED
      BY <1>1, <1>3, <1>5, <3>1, <3>3, <3>4, QuietStep DEF Running
  <2>2. CASE g.n # 0 /\ pc' = "aborted"
    <3>1. pc = "preflight"
      BY <1>6 DEF Preflight
    <3>2. LoopOK' /\ Named'
      BY <1>2, <1>3, <1>4, <2>2 DEF LoopOK, Named
    <3> QED
      BY <1>1, <1>3, <1>5, <2>2, <3>1, <3>2, QuietStep DEF Running
  <2>3. CASE g.n # 0 /\ pc' # "aborted"
    <3>1. pc = "preflight" /\ pc' = "dispatch"
          /\ \A t \in TaskIds : g.op[t] \in DOMAIN Registry
      BY <1>6, <2>3 DEF Preflight, Unregistered
    <3>2. 0 < g.numLevels
      <4>1. 0 \in TaskIds /\ g.numLevels \in Nat
        BY <1>2, <2>3, GraphFacts DEF TaskIds, TaskIdsOf
      <4>2. g.depth[0] \in 0 .. g.numLevels - 1
        BY <1>2, <4>1, GraphFacts
      <4> QED
        BY <4>1, <4>2
    <3>3. LoopOK' /\ Named'
      BY <1>2, <1>3, <1>4, <3>1, <3>2 DEF LoopOK, Named
    <3> QED
      BY <1>1, <1>3, <1>5, <3>1, <3>3, QuietStep DEF Running
  <2> QED
    BY <2>1, <2>2, <2>3
<1>7. CASE EndDispatch
  <2>1. pc = "dispatch" /\ handled = Level(lvl)
        /\ pc' = IF DOMAIN pending = {} THEN "drained" ELSE "round"
    BY <1>7 DEF EndDispatch, AfterPoll
  <2>2. LoopOK' /\ Named'
    BY <1>2, <1>3, <1>4, <2>1 DEF LoopOK, Named
  <2> QED
    BY <1>1, <1>3, <1>5, <2>1, <2>2, QuietStep DEF Running
<1>8. CASE StartRound
  <2>1. pc = "round" /\ pc' = "collect"
    BY <1>8 DEF StartRound
  <2>2. LoopOK' /\ Named'
    BY <1>2, <1>3, <1>4, <2>1 DEF LoopOK, Named
  <2> QED
    BY <1>1, <1>3, <1>5, <2>1, <2>2, QuietStep DEF Running
<1>9. CASE EndRound
  <2>1. pc = "collect" /\ pc' = IF DOMAIN pending = {} THEN "drained" ELSE "round"
    BY <1>9 DEF EndRound, AfterPoll
  <2>2. LoopOK' /\ Named'
    BY <1>2, <1>3, <1>4, <2>1 DEF LoopOK, Named
  <2> QED
    BY <1>1, <1>3, <1>5, <2>1, <2>2, QuietStep DEF Running
<1>10. CASE Deadline \/ Abort \/ \E q \in todo : Dead(q)
  <2>1. /\ pc \notin {"returned", "aborted"}
        /\ pc' = "aborted" \/ (pc' = "aborting" /\ pc # "preflight" /\ pc # "aborted")
    BY <1>10 DEF Deadline, Abort, Dead, Visit
  <2>2. LoopOK' /\ Named'
    BY <1>2, <1>3, <1>4, <2>1 DEF LoopOK, Named
  <2> QED
    BY <1>1, <1>3, <1>5, <2>1, <2>2, QuietStep DEF Running
<1>11. CASE \E q \in todo : StillOpen(q)
  <2>1. pc = "collect" /\ pc' = pc
    BY <1>11 DEF StillOpen, Visit
  <2>2. LoopOK' /\ Named'
    BY <1>2, <1>3, <1>4, <2>1 DEF LoopOK, Named
  <2> QED
    BY <1>1, <1>3, <1>5, <2>1, <2>2, QuietStep DEF Running
<1>12. CASE Join
  <2>1. \/ pc = "aborting" /\ pc' = "aborted"
        \/ pc = "returning" /\ pc' = "returned"
    BY <1>12 DEF Join
  <2>2. LoopOK' /\ Named'
    BY <1>2, <1>3, <1>4, <2>1 DEF LoopOK, Named
  <2>3. ASSUME pc = "returning" PROVE Settled = TaskIds
    <3>1. lvl = g.numLevels /\ g.numLevels \in Nat
      BY <1>2, <2>3, GraphFacts DEF LoopOK
    <3>2. \A t \in TaskIds : g.depth[t] \in 0 .. g.numLevels - 1
      BY <1>2, GraphFacts
    <3>3. \A t \in TaskIds : g.depth[t] < lvl
      BY <3>1, <3>2
    <3> QED
      BY <3>3 DEF IInv, SettledOK, Settled
  <2> QED
    BY <1>1, <1>3, <1>5, <2>1, <2>2, <2>3, QuietStep DEF Running
<1> QED
  BY <1>6, <1>7, <1>8, <1>9, <1>10, <1>11, <1>12

\* The steps of pumps, channel and clock.
LEMMA OutsideQuiet ==
    ASSUME InvokeYieldsResults, IInv, NEW C, Queued(C), Running,
           UNCHANGED <<runVars, memo>>
    PROVE  Effect /\ TableInv'
<1>1. UNCHANGED <<g, dedup, lvl, outputs, origins, handled, index, dispatched,
                  aliases, pending, memo, pc, todo>>
  BY DEF runVars
<1>2. LoopOK' /\ Named' /\ Running'
  BY <1>1 DEF IInv, TableInv, LoopOK, Named, Running, TaskIds, Level
<1>3. todo' \subseteq DOMAIN pending
  BY <1>1 DEF IInv, TableInv, PendingOK
<1> QED
  BY <1>1, <1>2, <1>3, QuietStep


-----------------------------------------------------------------------------
(* Collecting, recovering, and the end of a level.                           *)

\* What the channel holds for a completed task is the answer of its bytes, and
\* a step that collects it gives the task its outcome.
LEMMA CollectResultStep ==
    ASSUME InvokeYieldsResults, IInv, NEW q \in todo, CollectResult(q)
    PROVE  Effect /\ TableInv'
<1>1. PICK env : env = results[q]
  OBVIOUS
<1>2. PICK id, key : id = pending[q].id /\ key = pending[q].key
  OBVIOUS
<1>3. /\ pc = "collect" /\ todo' = todo \ {q} /\ q \in DOMAIN pending
      /\ UNCHANGED <<g, dedup, lvl, handled, index, dispatched, aliases>>
      /\ UNCHANGED brokerVars /\ q \in DOMAIN results
  BY DEF CollectResult, Visit, IInv, TableInv, PendingOK
<1>4. /\ Carries(q) /\ id \in handled \ Aliased /\ Fit(id, key)
      /\ without_routing_tag(entries[q].payload) = key
  BY <1>2, <1>3 DEF IInv, TableInv, PendingOK, Carries
<1>5. env \in {BridgeError, Answer(key)}
  BY <1>1, <1>3, <1>4 DEF IInv, ChannelInv, ResultsBelong
<1>6. Queued({}) /\ QueueOK /\ LoopOK /\ Named /\ g \in Graphs /\ PendingOK
      /\ TaskIds' = TaskIds /\ Level(lvl)' = Level(lvl) /\ Done' = Done
  BY <1>3, QueueKept
     DEF IInv, ChannelInv, TableInv, SettledOK, TaskIds, Level, Done
<1>7. CASE ~is_memoizable_status(env.status)
  <2>1. pc' = "aborting" /\ UNCHANGED <<outputs, origins, pending, memo>>
    BY <1>1, <1>7 DEF CollectResult
  <2>2. LoopOK' /\ Named'
    BY <1>3, <1>6, <2>1 DEF LoopOK, Named
  <2>3. todo' \subseteq DOMAIN pending
    BY <1>3, <1>6 DEF PendingOK
  <2> QED
    BY <1>3, <1>6, <2>1, <2>2, <2>3, QuietStep DEF Running
<1>8. CASE is_memoizable_status(env.status)
  <2>1. PICK res : res = FromEnvelope(env)
    OBVIOUS
  <2>2. PICK b : b = IF res.ok THEN None ELSE id
    OBVIOUS
  <2>3. /\ memo' \in Published(key, env) /\ pc' = pc
        /\ outputs' = [outputs EXCEPT ![id] = res]
        /\ origins' = [origins EXCEPT ![id] = b]
        /\ pending' = Drop(pending, q)
    BY <1>1, <1>2, <1>8, <2>1, <2>2 DEF CollectResult, Apply
  <2>4. env = Answer(key)
    <3>1. BridgeError.status = "bridge_error"
      BY DEF BridgeError
    <3> QED
      BY <1>5, <1>8, <3>1 DEF is_memoizable_status
  <2>5. /\ id \in TaskIds /\ id \in Level(lvl) /\ g.op[id] \in DOMAIN Registry
        /\ FailedDeps(id, outputs) = {} /\ key = encode_task(id)
    BY <1>3, <1>4, <1>6 DEF Fit, LoopOK, Named
  <2>6. rop(id).output = res /\ rop(id).origin = b
    BY <1>6, <2>1, <2>2, <2>4, <2>5, AnswerIsOutcome
  <2>7. /\ DOMAIN pending' = DOMAIN pending \ {q}
        /\ \A r \in DOMAIN pending \ {q} : pending'[r] = pending[r]
    BY <2>3 DEF Drop
  <2>8. Aliased' = Aliased /\ InFlight' = InFlight \ {id} /\ id \in InFlight
    <3>1. \A r \in DOMAIN pending \ {q} : pending[r].id # id
      BY <1>2, <1>3, <1>6 DEF PendingOK
    <3>2. InFlight' = InFlight \ {id}
      BY <1>2, <2>7, <3>1 DEF InFlight
    <3> QED
      BY <1>2, <1>3, <3>2 DEF InFlight, Aliased
  <2>9. id \notin Settled
    <3>1. g.depth[id] = lvl /\ lvl \in Nat
      BY <1>6, <2>5, GraphFacts DEF Level
    <3>2. id \notin Done
      BY <3>1 DEF Done
    <3> QED
      BY <2>8, <3>2 DEF Settled, Done, InFlight
  <2>10. Settled' = Settled \cup {id}
    <3>1. Settled = Done \cup (handled \ (Aliased \cup InFlight))
      BY DEF Settled, Done, InFlight
    <3>2. Settled' = Done' \cup (handled' \ (Aliased' \cup InFlight'))
      BY DEF Settled, Done, InFlight
    <3> QED
      BY <1>3, <1>4, <1>6, <2>8, <3>1, <3>2
  <2>11. Writes({id})
    BY <1>3, <2>3, <2>5, <2>6, <2>9, <2>10, OneWritten DEF IInv
  <2>12. memo' = memo \/ \E k : k \notin DOMAIN memo /\ memo' = Put(memo, k, Answer(k))
    BY <2>3, <2>4 DEF Published
  <2>13. Effect /\ Running'
    BY <1>3, <2>3, <2>11, <2>12 DEF Effect, Running
  <2>14. FitsKept
    BY <2>13, EffectKeeps DEF IInv
  <2>15. LoopOK' /\ Named'
    BY <1>3, <1>6, <2>3 DEF LoopOK, Named
  <2>16. PendingOK'
    <3>1. ASSUME NEW r \in DOMAIN pending' PROVE Carries(r)'
      <4>1. Carries(r) /\ pending'[r] = pending[r]
        BY <1>6, <2>7 DEF PendingOK
      <4>2. pending[r].id \in handled' \ Aliased'
        BY <1>3, <2>8, <4>1 DEF Carries
      <4> QED
        BY <1>6, <2>14, <4>1, <4>2, CarriesKept
    <3>2. \A r, s \in DOMAIN pending' : pending'[r].id = pending'[s].id => r = s
      BY <1>6, <2>7 DEF PendingOK
    <3>3. todo' \subseteq DOMAIN pending'
      BY <1>3, <1>6, <2>7 DEF PendingOK
    <3> QED
      BY <3>1, <3>2, <3>3 DEF PendingOK
  <2>17. AliasOK'
    <3>1. dispatched' \subseteq handled' \ Aliased'
      BY <1>3, <2>8 DEF IInv, TableInv, AliasOK
    <3> QED
      BY <1>3, <2>14, <3>1, AliasesKept DEF IInv, TableInv
  <2>18. IndexOK'
    <3>1. Settled \subseteq Settled'
      BY <2>10
    <3> QED
      BY <1>3, <2>14, <3>1, IndexKept DEF IInv, TableInv
  <2> QED
    BY <2>13, <2>15, <2>16, <2>17, <2>18 DEF TableInv
<1> QED
  BY <1>7, <1>8

\* A task whose result is gone is in flight again, under another qid and with
\* the same bytes.
LEMMA RecoverStep ==
    ASSUME InvokeYieldsResults, IInv, NEW q \in todo, Recover(q)
    PROVE  Effect /\ TableInv'
<1>1. PICK id, key, c : /\ id = pending[q].id /\ key = pending[q].key
                        /\ c = pending[q].recoveries
  OBVIOUS
<1>2. /\ pc = "collect" /\ todo' = todo \ {q} /\ q \in DOMAIN pending
      /\ UNCHANGED <<g, dedup, lvl, handled, index, dispatched, aliases>>
      /\ UNCHANGED <<outputs, origins, memo>>
  BY DEF Recover, Visit, IInv, TableInv, PendingOK
<1>3. Carries(q) /\ id \in handled \ Aliased /\ Fit(id, key)
  BY <1>1, <1>2 DEF IInv, TableInv, PendingOK, Carries
<1>4. QueueOK /\ LoopOK /\ Named /\ g \in Graphs /\ PendingOK
      /\ TaskIds' = TaskIds /\ Level(lvl)' = Level(lvl) /\ Done' = Done
  BY <1>2 DEF IInv, ChannelInv, TableInv, SettledOK, TaskIds, Level, Done
<1>5. CASE ~(pending[q].recoveries < MaxRecoveries(g))
  <2>1. pc' = "aborting" /\ pending' = pending /\ UNCHANGED brokerVars
    BY <1>5 DEF Recover
  <2>2. LoopOK' /\ Named'
    BY <1>2, <1>4, <2>1 DEF LoopOK, Named
  <2>3. todo' \subseteq DOMAIN pending
    BY <1>2, <1>4 DEF PendingOK
  <2>4. Queued({})
    BY <1>4, <2>1, QueueKept
  <2> QED
    BY <1>2, <2>1, <2>2, <2>3, <2>4, QuietStep DEF Running
<1>6. CASE pending[q].recoveries < MaxRecoveries(g)
  <2>1. PICK n : n = nextQid'
    OBVIOUS
  <2>2. PICK payload : payload = with_routing_tag(key, g.tag[id])
    OBVIOUS
  <2>3. PICK info : info = pending[q]
    OBVIOUS
  <2>4. PICK rec : rec = [info EXCEPT !.recoveries = @ + 1]
    OBVIOUS
  <2>5. /\ B!Enqueue(payload, MaxAttempts(g))
        /\ pending' = Put(Drop(pending, q), n, rec) /\ pc' = pc
    BY <1>1, <1>6, <2>1, <2>2, <2>3, <2>4 DEF Recover
  <2>6. rec = [id |-> id, key |-> key, recoveries |-> c + 1]
    <3>1. info = [id |-> id, key |-> key, recoveries |-> c]
      BY <1>1, <1>3, <2>3 DEF Carries
    <3> QED
      BY <2>4, <3>1
  <2>7. /\ n \notin DOMAIN pending
    <3>1. /\ nextQid \in Nat /\ n = nextQid + 1
      BY <1>4, <2>1, <2>5, EnqueueQueues DEF QueueOK
    <3>2. \A r \in DOMAIN pending : r \in 1 .. nextQid
      BY <1>4 DEF PendingOK, Carries
    <3> QED
      BY <3>1, <3>2
  <2>8. /\ DOMAIN pending' = (DOMAIN pending \ {q}) \cup {n}
        /\ pending'[n] = rec
        /\ \A r \in DOMAIN pending \ {q} : pending'[r] = pending[r]
    <3>1. PICK rest : rest = Drop(pending, q)
      OBVIOUS
    <3>2. /\ DOMAIN rest = DOMAIN pending \ {q}
          /\ \A r \in DOMAIN pending \ {q} : rest[r] = pending[r]
      BY <3>1 DEF Drop
    <3>3. pending' = Put(rest, n, rec)
      BY <2>5, <3>1
    <3> QED
      BY <2>7, <3>2, <3>3 DEF Put
  <2>9. Aliased' = Aliased /\ InFlight' = InFlight
    <3>1. rec.id = id
      BY <2>6
    <3>2. InFlight' = InFlight
      BY <1>1, <1>2, <2>7, <2>8, <3>1 DEF InFlight
    <3> QED
      BY <1>2, <3>2 DEF Aliased
  <2>10. Settled' = Settled
    <3>1. Settled = Done \cup (handled \ (Aliased \cup InFlight))
      BY DEF Settled, Done, InFlight
    <3>2. Settled' = Done' \cup (handled' \ (Aliased' \cup InFlight'))
      BY DEF Settled, Done, InFlight
    <3> QED
      BY <1>2, <1>4, <2>9, <3>1, <3>2
  <2>11. Effect /\ Running'
    BY <1>2, <2>5, <2>10 DEF Effect, WritesNothing, Running
  <2>12. FitsKept
    BY <2>11, EffectKeeps DEF IInv
  <2>13. LoopOK' /\ Named'
    BY <1>2, <1>4, <2>5 DEF LoopOK, Named
  <2>14. Carries(n)' /\ Queued({})
    <3>1. Fit(id, key)' /\ without_routing_tag(payload) = key
      BY <1>3, <1>4, <2>2, <2>12, TagComesOff DEF FitsKept
    <3>2. id \in handled' \ Aliased'
      BY <1>2, <1>3, <2>9
    <3>3. pending'[n] = [id |-> id, key |-> key, recoveries |-> c + 1]
      BY <2>6, <2>8
    <3> QED
      BY <2>1, <2>5, <3>1, <3>2, <3>3, NewCarries
  <2>15. PendingOK'
    <3>1. ASSUME NEW r \in DOMAIN pending \ {q} PROVE Carries(r)'
      <4>1. Carries(r) /\ pending'[r] = pending[r]
        BY <1>4, <2>8 DEF PendingOK
      <4>2. pending[r].id \in handled' \ Aliased'
        BY <1>2, <2>9, <4>1 DEF Carries
      <4> QED
        BY <1>4, <2>12, <2>14, <4>1, <4>2, CarriesKept
    <3>2. \A r, s \in DOMAIN pending' : pending'[r].id = pending'[s].id => r = s
      <4>1. rec.id = id
        BY <2>6
      <4>2. \A r \in DOMAIN pending \ {q} : pending[r].id # id
        BY <1>1, <1>2, <1>4 DEF PendingOK
      <4>3. \A r, s \in DOMAIN pending \ {q} : pending[r].id = pending[s].id => r = s
        BY <1>4 DEF PendingOK
      <4> QED
        BY <2>8, <4>1, <4>2, <4>3
    <3>3. todo' \subseteq DOMAIN pending'
      BY <1>2, <1>4, <2>8 DEF PendingOK
    <3> QED
      BY <2>8, <2>14, <3>1, <3>2, <3>3 DEF PendingOK
  <2>16. AliasOK'
    <3>1. dispatched' \subseteq handled' \ Aliased'
      BY <1>2, <2>9 DEF IInv, TableInv, AliasOK
    <3> QED
      BY <1>2, <2>12, <3>1, AliasesKept DEF IInv, TableInv
  <2>17. IndexOK'
    BY <1>2, <2>10, <2>12, IndexKept DEF IInv, TableInv
  <2> QED
    BY <2>11, <2>13, <2>15, <2>16, <2>17 DEF TableInv
<1> QED
  BY <1>5, <1>6


\* Once the level has drained, aliases take the outputs of their twins, which
\* are their own outcomes.
LEMMA SettleAliasesStep ==
    ASSUME InvokeYieldsResults, IInv, SettleAliases
    PROVE  Effect /\ TableInv'
<1>1. /\ pc = "drained" /\ pc' = "next" /\ aliases' = {} /\ memo' = memo
      /\ UNCHANGED <<g, dedup, lvl, handled, index, dispatched, pending, todo>>
      /\ UNCHANGED brokerVars
  BY DEF SettleAliases
<1>2. /\ Queued({}) /\ QueueOK /\ LoopOK /\ Named /\ g \in Graphs
      /\ PendingOK /\ AliasOK /\ SettledOK
      /\ TaskIds' = TaskIds /\ Level(lvl)' = Level(lvl) /\ Done' = Done
  BY <1>1, QueueKept DEF IInv, ChannelInv, TableInv, SettledOK, TaskIds, Level, Done
<1>3. DOMAIN pending = {} /\ InFlight = {} /\ InFlight' = {}
  BY <1>1, <1>2 DEF LoopOK, InFlight
<1>4. Aliased' = {}
  BY <1>1 DEF Aliased
<1>5. /\ Settled = Done \cup (handled \ Aliased) /\ Settled' = Done \cup handled
  <2>1. Settled = Done \cup (handled \ (Aliased \cup InFlight))
    BY DEF Settled, Done, InFlight
  <2>2. Settled' = Done' \cup (handled' \ (Aliased' \cup InFlight'))
    BY DEF Settled, Done, InFlight
  <2> QED
    BY <1>1, <1>2, <1>3, <1>4, <2>1, <2>2
<1>6. Aliased \subseteq handled /\ handled \subseteq Level(lvl)
  BY <1>2 DEF AliasOK, Aliased, LoopOK
<1>7. \A t \in Level(lvl) : t \in TaskIds /\ t \notin Done
  <2>1. lvl \in Nat
    BY <1>2, GraphFacts DEF SettledOK
  <2> QED
    BY <2>1 DEF Level, Done
<1>8. ASSUME NEW t \in Aliased
      PROVE  /\ TwinOf(t) \in Settled
             /\ rop(t).output = outputs[TwinOf(t)]
             /\ rop(t).origin = IF outputs[TwinOf(t)].ok THEN None ELSE t
  <2>1. PICK a \in aliases : t = a[1]
    BY DEF Aliased
  <2>2. a = <<a[1], a[2]>> /\ a[2] \in dispatched
    BY <1>2 DEF AliasOK
  <2>3. a[2] \in TaskIds /\ <<t, a[2]>> \in aliases
    BY <1>2, <1>6, <1>7, <2>1, <2>2 DEF AliasOK
  <2>4. PICK u : u = TwinOf(t)
    OBVIOUS
  <2>5. u \in TaskIds /\ <<t, u>> \in aliases
    BY <2>3, <2>4 DEF TwinOf
  <2>6. PICK b : b = <<t, u>>
    OBVIOUS
  <2>7. b \in aliases /\ b[1] = t /\ b[2] = u
    BY <2>5, <2>6
  <2>8. u \in dispatched /\ \E key : Fit(t, key) /\ Fit(u, key)
    BY <1>2, <2>7 DEF AliasOK
  <2>9. u \in Settled
    BY <1>2, <1>5, <2>8 DEF AliasOK
  <2>10. /\ t \in TaskIds /\ g.op[t] \in DOMAIN Registry /\ g.op[u] \in DOMAIN Registry
         /\ FailedDeps(t, outputs) = {} /\ FailedDeps(u, outputs) = {}
         /\ encode_task(t) = encode_task(u)
    BY <1>1, <1>2, <2>5, <2>8 DEF Fit, Named
  <2>11. PICK o : o = outputs[u]
    OBVIOUS
  <2>12. rop(u).output = o
    BY <1>2, <2>9, <2>11 DEF SettledOK
  <2>13. /\ rop(t).output = o
         /\ rop(t).origin = IF o.ok THEN None ELSE t
    BY <1>2, <2>5, <2>10, <2>12, TwinsAgree
  <2> QED
    BY <2>4, <2>9, <2>11, <2>13
<1>9. /\ DOMAIN outputs' = TaskIds /\ origins' = [u \in TaskIds |-> origins'[u]]
      /\ \A t \in TaskIds : outputs'[t] = IF t \in Aliased THEN outputs[TwinOf(t)]
                                                           ELSE outputs[t]
      /\ \A t \in TaskIds : origins'[t] = IF t \notin Aliased THEN origins[t]
                                          ELSE IF outputs'[t].ok THEN None ELSE t
  BY DEF SettleAliases
<1>10. Writes(Aliased)
  <2>1. Aliased \subseteq Level(lvl) \ Settled
    BY <1>5, <1>6, <1>7
  <2>2. Settled' = Settled \cup Aliased
    BY <1>5, <1>6
  <2>3. \A u \in Aliased : outputs'[u] = rop(u).output /\ origins'[u] = rop(u).origin
    BY <1>6, <1>7, <1>8, <1>9
  <2> QED
    BY <1>1, <1>9, <2>1, <2>2, <2>3 DEF Writes
<1>11. Effect
  BY <1>1, <1>10 DEF Effect, Running
<1>12. FitsKept
  BY <1>11, EffectKeeps DEF IInv
<1>13. LoopOK' /\ Named'
  BY <1>1, <1>2, <1>3 DEF LoopOK, Named
<1>14. PendingOK'
  BY <1>1, <1>2, <1>3 DEF PendingOK
<1>15. AliasOK'
  BY <1>1, <1>2, <1>4 DEF AliasOK
<1>16. IndexOK'
  BY <1>1, <1>5, <1>6, <1>12, IndexKept DEF IInv, TableInv
<1> QED
  BY <1>11, <1>13, <1>14, <1>15, <1>16 DEF TableInv

\* A level ends when all of it is settled, the last one with the run.
LEMMA NextLevelStep ==
    ASSUME InvokeYieldsResults, IInv, NextLevel
    PROVE  Effect /\ TableInv'
<1>1. /\ pc = "next" /\ lvl' = lvl + 1 /\ handled' = {} /\ dispatched' = {}
      /\ pc' = IF lvl + 1 < g.numLevels THEN "dispatch" ELSE "returning"
      /\ UNCHANGED <<g, dedup, outputs, origins, index, aliases, pending, todo, memo>>
      /\ UNCHANGED brokerVars
  BY DEF NextLevel
<1>2. /\ LoopOK /\ Named /\ g \in Graphs /\ PendingOK /\ AliasOK
      /\ TaskIds' = TaskIds /\ lvl \in Nat /\ g.numLevels \in Nat
      /\ lvl < g.numLevels /\ handled = Level(lvl)
      /\ \A t \in TaskIds : g.depth[t] \in Nat /\ g.depth[t] < g.numLevels
  <2>1. /\ LoopOK /\ Named /\ g \in Graphs /\ PendingOK /\ AliasOK
        /\ lvl < g.numLevels /\ handled = Level(lvl) /\ lvl \in 0 .. g.numLevels
    BY <1>1 DEF IInv, TableInv, SettledOK, LoopOK
  <2>2. /\ g.numLevels \in Nat
        /\ \A t \in TaskIds : g.depth[t] \in Nat /\ g.depth[t] \in 0 .. g.numLevels - 1
    BY <2>1, GraphFacts
  <2> QED
    BY <1>1, <2>1, <2>2 DEF TaskIds
<1>3. /\ DOMAIN pending = {} /\ aliases = {} /\ InFlight = {} /\ InFlight' = {}
      /\ Aliased = {} /\ Aliased' = {}
  BY <1>1, <1>2 DEF LoopOK, InFlight, Aliased
<1>4. Settled = Done \cup Level(lvl) /\ Settled' = Done'
  <2>1. Settled = Done \cup (handled \ (Aliased \cup InFlight))
    BY DEF Settled, Done, InFlight
  <2>2. Settled' = Done' \cup (handled' \ (Aliased' \cup InFlight'))
    BY DEF Settled, Done, InFlight
  <2> QED
    BY <1>1, <1>2, <1>3, <2>1, <2>2
<1>5. /\ Settled' = Settled
      /\ \A u \in TaskIds : g.depth[u] <= lvl => u \in Settled
  BY <1>1, <1>2, <1>4 DEF Done, Level
<1>6. Effect
  <2>1. WritesNothing
    BY <1>1, <1>2, <1>5 DEF WritesNothing
  <2>2. Running'
    BY <1>1 DEF Running
  <2> QED
    BY <1>1, <2>1, <2>2 DEF Effect, Running
<1>7. FitsKept
  BY <1>6, EffectKeeps DEF IInv
<1>8. LoopOK' /\ Named'
  BY <1>1, <1>2, <1>3 DEF LoopOK, Named
<1>9. PendingOK'
  BY <1>1, <1>2, <1>3 DEF PendingOK
<1>10. AliasOK'
  BY <1>1, <1>3 DEF AliasOK
<1>11. IndexOK'
  <2>1. dispatched \subseteq Settled'
    BY <1>2, <1>3, <1>4, <1>5 DEF AliasOK
  <2> QED
    BY <1>1, <1>5, <1>7, <2>1, IndexKept DEF IInv, TableInv
<1> QED
  BY <1>6, <1>8, <1>9, <1>10, <1>11 DEF TableInv

-----------------------------------------------------------------------------
(* The run.                                                                  *)

\* Every step of a run that has not ended does what Effect says and keeps the
\* tables.
LEMMA StepEffect ==
    ASSUME InvokeYieldsResults, IInv, Next
    PROVE  (Effect /\ TableInv') \/ UNCHANGED vars
<1>1. CASE Coordinator
  <2>1. CASE Preflight \/ EndDispatch \/ StartRound \/ EndRound \/ Join
    BY <2>1, CoordinatorQuiet
  <2>2. ASSUME NEW t \in TaskIds,
               Poison(t) \/ CopyTwin(t) \/ MemoHit(t) \/ EnqueueTask(t)
        PROVE  Effect /\ TableInv'
    BY <2>2, PoisonStep, CopyTwinStep, MemoHitStep, EnqueueTaskStep
  <2>3. ASSUME NEW q \in todo,
               StillOpen(q) \/ CollectResult(q) \/ Recover(q) \/ Dead(q)
        PROVE  Effect /\ TableInv'
    BY <2>3, CoordinatorQuiet, CollectResultStep, RecoverStep
  <2> QED
    BY <1>1, <2>1, <2>2, <2>3, SettleAliasesStep, NextLevelStep DEF Coordinator
<1>2. CASE Deadline \/ Abort
  BY <1>2, CoordinatorQuiet
<1>3. ASSUME NEW w \in Workers,
             LeaseTask(w) \/ Beat(w) \/ PutResult(w) \/ PutFails(w) \/ Finish(w)
             \/ Abandon(w) \/ Exit(w)
      PROVE  Effect /\ TableInv'
  <2>1. QueueOK /\ (~Idle(w) => wk[w].qid \in 1 .. nextQid)
    BY DEF IInv, ChannelInv, PumpsOK
  <2>2. Running /\ UNCHANGED <<runVars, memo>>
    BY <1>3 DEF LeaseTask, Beat, PutResult, PutFails, Finish, Abandon, Exit, Pump
  <2>3. \E C : Queued(C)
    <3>1. CASE LeaseTask(w)
      BY <2>1, <3>1, LeaseQueues DEF LeaseTask
    <3>2. CASE Beat(w) \/ Finish(w)
      BY <2>1, <3>2, HolderQueues DEF Beat, Finish
    <3>3. CASE PutResult(w) \/ PutFails(w) \/ Abandon(w) \/ Exit(w)
      BY <2>1, <3>3, QueueKept DEF PutResult, PutFails, Abandon, Exit
    <3> QED
      BY <1>3, <3>1, <3>2, <3>3
  <2> QED
    BY <2>2, <2>3, OutsideQuiet
<1>4. ASSUME NEW q \in DOMAIN results, LoseResult(q) PROVE Effect /\ TableInv'
  <2>1. Running /\ UNCHANGED <<runVars, memo>> /\ Queued({})
    BY <1>4, QueueKept DEF LoseResult, IInv, ChannelInv
  <2> QED
    BY <2>1, OutsideQuiet
<1>5. CASE Tick
  <2>1. Running /\ UNCHANGED <<runVars, memo>> /\ UNCHANGED <<entries, nextQid>>
    BY <1>5 DEF Tick, B!advance_time_ms
  <2>2. Queued({})
    BY <2>1 DEF IInv, ChannelInv, QueueOK, Queued
  <2> QED
    BY <2>1, <2>2, OutsideQuiet
<1> QED
  BY <1>1, <1>2, <1>3, <1>4, <1>5 DEF Next, Ended

\* The invariant, TaskRun's step and what joins the memo, for every step.
LEMMA NextKeepsRun ==
    ASSUME InvokeYieldsResults, IInv, [Next]_vars
    PROVE  /\ IInv' /\ [Run!Next]_(Run!vars)
           /\ \A key \in DOMAIN memo' \ DOMAIN memo : memo'[key] = Answer(key)
<1>1. ChannelInv'
  BY NextKeepsChannel DEF IInv
<1>2. CASE Effect /\ TableInv'
  BY <1>1, <1>2, EffectKeeps DEF IInv, Effect
<1>3. CASE UNCHANGED vars
  <2>1. UNCHANGED <<g, dedup, lvl, outputs, origins, pc, handled, index, dispatched,
                    aliases, pending, todo, memo, entries, nextQid>>
    BY <1>3 DEF vars, runVars, brokerVars
  <2>2. Settled' = Settled /\ Aliased' = Aliased
    BY <2>1 DEF Settled, TaskIds, Aliased
  <2>3. SettledOK' /\ MemoOK'
    <3>1. WritesNothing
      BY <2>1, <2>2 DEF WritesNothing
    <3> QED
      BY <2>1, <3>1, NothingWritten DEF IInv, MemoOK
  <2>4. \A t, k : Fit(t, k)' <=> Fit(t, k)
    BY <2>1 DEF Fit, FailedDeps, DepsOf, encode_task, Args, TaskIds
  <2>5. TableInv'
    <3>1. Named' /\ LoopOK'
      BY <2>1 DEF IInv, TableInv, Named, LoopOK, TaskIds, Level
    <3>2. FitsKept /\ Queued({}) /\ QueueOK
      BY <2>1, <2>4 DEF FitsKept, IInv, ChannelInv, QueueOK, Queued
    <3>3. \A q \in DOMAIN pending : Carries(q)'
      <4>1. ASSUME NEW q \in DOMAIN pending PROVE Carries(q)'
        <5>1. Carries(q) /\ pending'[q] = pending[q]
          BY <2>1 DEF IInv, TableInv, PendingOK
        <5>2. pending[q].id \in handled' \ Aliased'
          BY <2>1, <2>2, <5>1 DEF Carries
        <5> QED
          BY <3>2, <5>1, <5>2, CarriesKept
      <4> QED
        BY <4>1
    <3>4. PendingOK'
      BY <2>1, <3>3 DEF IInv, TableInv, PendingOK
    <3>5. AliasOK'
      <4>1. dispatched' \subseteq handled' \ Aliased'
        BY <2>1, <2>2 DEF IInv, TableInv, AliasOK
      <4> QED
        BY <2>1, <3>2, <4>1, AliasesKept DEF IInv, TableInv
    <3>6. IndexOK'
      BY <2>1, <2>2, <3>2, IndexKept DEF IInv, TableInv
    <3> QED
      BY <3>1, <3>4, <3>5, <3>6 DEF TableInv
  <2>6. Out' = Out /\ Running' = Running
    BY <2>1, <2>2 DEF Out, Running
  <2>7. UNCHANGED Run!vars
    BY <2>1, <2>6 DEF Run!vars, Out
  <2> QED
    BY <1>1, <2>1, <2>3, <2>5, <2>7 DEF IInv
<1> QED
  BY <1>2, <1>3, StepEffect

\* What a run starts with: nothing settled, nothing in flight, and a memo in
\* which usable entries are true.
LEMMA InitRun == Init => IInv /\ Run!Init
<1> SUFFICES ASSUME Init PROVE IInv /\ Run!Init
  OBVIOUS
<1>1. /\ g \in Graphs /\ dedup \in Dedups(g) /\ lvl = 0 /\ pc = "preflight"
      /\ outputs = [t \in TaskIds |-> [ok |-> TRUE, val |-> Empty]]
      /\ origins = [t \in TaskIds |-> None]
      /\ handled = {} /\ index = {} /\ dispatched = {} /\ aliases = {}
      /\ pending = NoneYet /\ todo = {} /\ memo \in Memos(g)
  BY DEF Init
<1>2. g.numLevels \in Nat /\ \A t \in TaskIds : g.depth[t] \in Nat
  BY <1>1, GraphFacts
<1>3. DOMAIN pending = {} /\ Aliased = {} /\ Done = {} /\ Settled = {}
  <2>1. DOMAIN pending = {} /\ Aliased = {}
    BY <1>1 DEF NoneYet, Aliased
  <2>2. Done = {}
    BY <1>1, <1>2 DEF Done
  <2> QED
    BY <1>1, <2>1, <2>2 DEF Settled, Done
<1>4. SettledOK
  BY <1>1, <1>2, <1>3 DEF SettledOK, OriginsBelow
<1>5. MemoOK /\ dedup \in BOOLEAN
  BY <1>1, RunAssumption DEF MemoOK
<1>6. TableInv
  <2>1. LoopOK /\ Named
    BY <1>1, <1>3 DEF LoopOK, Named
  <2>2. PendingOK /\ AliasOK /\ IndexOK
    BY <1>1, <1>3 DEF PendingOK, AliasOK, IndexOK
  <2> QED
    BY <2>1, <2>2 DEF TableInv
<1>7. IInv
  BY <1>4, <1>5, <1>6, InitChannel DEF IInv
<1>8. Run!Init
  <2>1. Out = [t \in {} |-> {}]
    BY <1>3 DEF Out
  <2>2. Running
    BY <1>1 DEF Running
  <2> QED
    BY <1>1, <2>1, <2>2 DEF Run!Init, Out
<1> QED
  BY <1>7, <1>8


\* Whatever the pumps do, a failed output names the task whose own body failed,
\* settled with that very failure: the value() of an origin that the poison
\* check takes is never that of an empty optional.
THEOREM OriginsSoundAlways ==
    ASSUME InvokeYieldsResults
    PROVE  Spec => []OriginsSound
<1>1. IInv => OriginsSound
  <2> SUFFICES ASSUME IInv, NEW t \in TaskIds
               PROVE  /\ outputs[t].ok <=> origins[t] = None
                      /\ ~outputs[t].ok => /\ origins[t] \in Settled
                                           /\ origins[origins[t]] = origins[t]
                                           /\ outputs[origins[t]] = outputs[t]
    BY DEF OriginsSound
  <2>1. CASE t \in Settled
    BY <2>1 DEF IInv, SettledOK, OriginsBelow
  <2>2. CASE t \notin Settled
    <3>1. outputs[t] = [ok |-> TRUE, val |-> Empty] /\ origins[t] = None
      BY <2>2 DEF IInv, SettledOK
    <3> QED
      BY <3>1
  <2> QED
    BY <2>1, <2>2
<1>2. IInv /\ [Next]_vars => IInv'
  BY NextKeepsRun
<1> QED
  BY <1>1, <1>2, InitRun, PTL DEF Spec

\* No unsettled task of the level is forgotten or in flight twice, each qid the
\* coordinator polls carries its own task's bytes, and an alias waits for a
\* task that will be collected.
THEOREM InFlightAccountedAlways ==
    ASSUME InvokeYieldsResults
    PROVE  Spec => []InFlightAccounted
<1>1. IInv => InFlightAccounted
  <2> SUFFICES ASSUME IInv PROVE InFlightAccounted
    OBVIOUS
  <2>1. \A q \in DOMAIN pending :
           /\ q \in 1 .. nextQid /\ pending[q].id \in handled \ Aliased
           /\ without_routing_tag(entries[q].payload) = pending[q].key
           /\ \A r \in DOMAIN pending : pending[q].id = pending[r].id => q = r
    BY DEF IInv, TableInv, PendingOK, Carries
  <2>2. \A a \in aliases : a[2] \in dispatched \ Aliased
    BY DEF IInv, TableInv, AliasOK
  <2>3. \A t \in handled \ Settled :
           outputs[t] = [ok |-> TRUE, val |-> Empty] /\ origins[t] = None
    BY DEF IInv, TableInv, LoopOK, Level, SettledOK
  <2>4. pc = "drained" => DOMAIN pending = {}
    BY DEF IInv, TableInv, LoopOK
  <2> QED
    BY <2>1, <2>2, <2>3, <2>4 DEF InFlightAccounted
<1>2. IInv /\ [Next]_vars => IInv'
  BY NextKeepsRun
<1> QED
  BY <1>1, <1>2, InitRun, PTL DEF Spec

\* A run adds nothing to the memo but the answers of the keys it adds, whatever
\* bridge errors and late puts the channel delivers.
THEOREM MemoSoundAlways ==
    ASSUME InvokeYieldsResults
    PROVE  Spec => MemoSound
<1>1. IInv /\ [Next]_vars => IInv'
  BY NextKeepsRun
<1>2. IInv /\ [Next]_vars =>
         [\A key \in DOMAIN memo' \ DOMAIN memo : memo'[key] = Answer(key)]_vars
  BY NextKeepsRun
<1> QED
  BY <1>1, <1>2, InitRun, PTL DEF Spec, MemoSound

\* The distributed run is a TaskRun: each task settles once, after its
\* dependencies and with the outcome a serial run gives it, and the run returns
\* with all of them or aborts.
THEOREM ImplementsRun ==
    ASSUME InvokeYieldsResults
    PROVE  Spec => ImplementsTaskRun
<1>1. IInv /\ [Next]_vars => IInv'
  BY NextKeepsRun
<1>2. IInv /\ [Next]_vars => [Run!Next]_(Run!vars)
  BY NextKeepsRun
<1> QED
  BY <1>1, <1>2, InitRun, PTL DEF Spec, ImplementsTaskRun, Run!Spec

=============================================================================
