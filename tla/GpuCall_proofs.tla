--------------------------- MODULE GpuCall_proofs ---------------------------
(***************************************************************************)
(* What GpuCall's threads leave behind, for any number of threads, any     *)
(* workload and any bridges that release what they acquire                 *)
(* (GpuAssumption), whichever of their steps fail.  Then what the bridges  *)
(* of gpu_bridge.h read and deliver: a certificate says for each position  *)
(* of a bridge what is known there at least, a call keeps to it            *)
(* (FlowHeld), and each of the 31 bridges has one (BridgesSound).          *)
(***************************************************************************)
EXTENDS GpuCall, TLAPS

-----------------------------------------------------------------------------
(* The inductive invariant.                                                  *)

IsCall(c) ==
    c = [phase |-> c.phase, prog |-> c.prog, pc |-> c.pc, why |-> c.why, dev |-> c.dev,
         host |-> c.host, pins |-> c.pins, ready |-> c.ready, got |-> c.got,
         ofX |-> c.ofX, ofOld |-> c.ofOld]

\* h is still to be unregistered by the ladder, from position i of it.
Ahead(c, h, i) == \E j \in DOMAIN c.prog.unpins : j >= i /\ c.prog.unpins[j] = h

\* Before the ladders at the end of a bridge it holds no more than they
\* release, and after each of them nothing of what it releases.
CallOK(c) ==
    /\ IsCall(c)
    /\ c.pc \in Nat \ {0}
    /\ c.phase \in {"idle", "run", "free", "unpin", "done"}
    /\ c.phase \in {"run", "free", "unpin"} => Tidy(c.prog)
    /\ c.phase \in {"run", "free"} =>
           /\ c.dev \subseteq c.prog.frees /\ c.host \subseteq c.prog.hosts
           /\ \A h \in c.pins : Ahead(c, h, 1)
    /\ c.phase \in {"idle", "unpin", "done"} => c.dev = {} /\ c.host = {}
    /\ c.phase = "unpin" => \A h \in c.pins : Ahead(c, h, c.pc)
    /\ c.phase \in {"idle", "done"} => c.pins = {}

CallsOK ==
    /\ todo \in [Threads -> Seq(Programs)]
    /\ call = [t \in Threads |-> call[t]]
    /\ \A t \in Threads : CallOK(call[t])

\* Every locked range belongs to a call that holds it, and to one only.
Owned == \A l \in locked : \E t \in Threads : \E h \in call[t].pins : l = <<HostRange(t, h), t>>
OneOwner == \A l, m \in locked : l[1] = m[1] => l = m

IInv == CallsOK /\ Owned /\ OneOwner /\ PinsAreKept

-----------------------------------------------------------------------------
\* Two arrays of one thread are two ranges.
LEMMA RangesDiffer ==
    ASSUME NEW t, NEW h, NEW k, HostRange(t, h) = HostRange(t, k)
    PROVE  h = k
BY DEF HostRange

LEMMA InitOK == ASSUME WorkloadsTidy, Init PROVE IInv
<1>1. PICK w \in Workloads :
          todo = w /\ call = [t \in DOMAIN w |-> Idle] /\ locked = {}
      BY DEF Init
<1>2. todo \in [Threads -> Seq(Programs)]
      BY <1>1 DEF WorkloadsTidy, Threads
<1>3. CallOK(Idle)
      BY DEF CallOK, IsCall, Idle, Fresh
<1>4. CallsOK
      BY <1>1, <1>2, <1>3 DEF CallsOK, Threads
<1> QED BY <1>1, <1>4 DEF IInv, Owned, OneOwner, PinsAreKept, Threads, Idle, Fresh

\* A step of one call that neither registers nor unregisters.
LEMMA LocalStep ==
    ASSUME IInv, NEW t \in Threads, NEW c,
           call' = [call EXCEPT ![t] = c], CallOK(c), c.pins = call[t].pins,
           todo' \in [Threads -> Seq(Programs)], locked' = locked
    PROVE  IInv'
<1>1. Threads' = Threads
      BY DEF Threads
<1>2. call' = [u \in Threads |-> IF u = t THEN c ELSE call[u]]
      BY DEF IInv, CallsOK
<1>3. \A u \in Threads : call'[u].pins = call[u].pins
      BY <1>2
<1>4. CallsOK'
      BY <1>1, <1>2 DEF IInv, CallsOK
<1>5. Owned' /\ OneOwner' /\ PinsAreKept'
      BY <1>1, <1>3 DEF IInv, Owned, OneOwner, PinsAreKept, HostRange
<1> QED BY <1>4, <1>5 DEF IInv

-----------------------------------------------------------------------------
(* The steps of a call.                                                      *)

LEMMA BeginOK ==
    ASSUME WorkloadsTidy, IInv, NEW t \in Threads, Begin(t) \/ Decline(t) PROVE IInv'
<1>1. todo[t] # <<>> /\ todo' = [todo EXCEPT ![t] = Tail(@)]
      BY Zenon DEF Begin, Decline
<1>2. todo[t] \in Seq(Programs) /\ CallOK(call[t])
      BY DEF IInv, CallsOK
<1>3. todo' \in [Threads -> Seq(Programs)]
      BY <1>1, <1>2 DEF IInv, CallsOK
<1>4. CASE Decline(t)
  <2>1. call' = [call EXCEPT ![t] = call[t]] /\ locked' = locked
        BY <1>4 DEF Decline, IInv, CallsOK
  <2> QED BY <1>2, <1>3, <2>1, LocalStep
<1>5. CASE Begin(t)
  <2>1. Head(todo[t]) \in Programs
        BY <1>1, <1>2
  <2>2. CallOK(Fresh("run", Head(todo[t]))) /\ Fresh("run", Head(todo[t])).pins = {}
        BY <2>1 DEF WorkloadsTidy, CallOK, IsCall, Fresh, Tidy
  <2>3. call[t].pins = {}
        BY <1>2, <1>5 DEF Begin, CallOK
  <2>4. call' = [call EXCEPT ![t] = Fresh("run", Head(todo[t]))] /\ locked' = locked
        BY <1>5 DEF Begin
  <2> QED BY <1>3, <2>2, <2>3, <2>4, LocalStep
<1> QED BY <1>4, <1>5

-----------------------------------------------------------------------------
(* The updates of a call record, field by field.                             *)

\* d is a call that holds what c does, for the same bridge.
Same(c, d) ==
    /\ IsCall(d) /\ d.prog = c.prog
    /\ d.dev = c.dev /\ d.host = c.host /\ d.pins = c.pins

LEMMA AdvanceSame ==
    ASSUME NEW c, IsCall(c)
    PROVE  Same(c, Advance(c)) /\ Advance(c).phase = c.phase /\ Advance(c).pc = c.pc + 1
BY DEF IsCall, Advance, Same

LEMMA FailSame ==
    ASSUME NEW c, IsCall(c), NEW why
    PROVE  LET d == FailWith(c, why) IN Same(c, d) /\ d.phase = "free" /\ d.pc = c.pc
<1> DEFINE a == [c EXCEPT !.phase = "free"]
           d == [a EXCEPT !.why = why]
<1>1. Same(c, a) /\ a.phase = "free" /\ a.pc = c.pc
      BY DEF IsCall, Same
<1> HIDE DEF a
<1>2. Same(a, d) /\ d.phase = a.phase /\ d.pc = a.pc
      BY <1>1 DEF IsCall, Same
<1> USE DEF a
<1> QED BY <1>1, <1>2 DEF FailWith, Same

LEMMA WrittenSame ==
    ASSUME NEW c, IsCall(c), NEW rs, NEW ws
    PROVE  LET d == Written(c, rs, ws) IN Same(c, d) /\ d.phase = c.phase /\ d.pc = c.pc
<1>0. PICK r, g, x, o :
          Written(c, rs, ws) = [c EXCEPT !.ready = r, !.got = g, !.ofX = x, !.ofOld = o]
      BY Zenon DEF Written
<1> DEFINE a1 == [c EXCEPT !.ready = r]
           a2 == [a1 EXCEPT !.got = g]
           a3 == [a2 EXCEPT !.ofX = x]
           a4 == [a3 EXCEPT !.ofOld = o]
           Like(d) == Same(c, d) /\ d.phase = c.phase /\ d.pc = c.pc
<1>1. Like(a1)
      BY DEF IsCall, Same
<1> HIDE DEF a1
<1>2. Like(a2)
      BY <1>1 DEF IsCall, Same
<1> HIDE DEF a2
<1>3. Like(a3)
      BY <1>2 DEF IsCall, Same
<1> HIDE DEF a3
<1>4. Like(a4)
      BY <1>3 DEF IsCall, Same
<1> USE DEF a1, a2, a3
<1> QED BY <1>0, <1>4

\* A running call that keeps what it holds is in order, also once it has failed.
LEMMA StillOK ==
    ASSUME NEW c, CallOK(c), c.phase = "run", NEW d, Same(c, d),
           d.phase \in {"run", "free"}, d.pc \in Nat \ {0}
    PROVE  CallOK(d)
BY DEF CallOK, Same, Ahead

\* A running call may also take another position of its bridge.
LEMMA RunsOn ==
    ASSUME IInv, NEW t \in Threads, call[t].phase = "run", todo' = todo, locked' = locked,
           NEW d, call' = [call EXCEPT ![t] = d], Same(call[t], d),
           d.phase \in {"run", "free"}, d.pc \in Nat \ {0}
    PROVE  IInv'
<1>1. CallOK(call[t]) /\ todo' \in [Threads -> Seq(Programs)]
      BY DEF IInv, CallsOK
<1>2. CallOK(d) /\ d.pins = call[t].pins
      BY <1>1, StillOK DEF Same
<1> QED BY <1>1, <1>2, LocalStep

LEMMA RunsNow ==
    ASSUME IInv, NEW t \in Threads, NEW op, Running(t, op)
    PROVE  /\ call[t].phase = "run" /\ IsCall(call[t]) /\ CallOK(call[t]) /\ Tidy(call[t].prog)
           /\ call[t].pc \in Nat \ {0} /\ call[t].pc \in DOMAIN call[t].prog.body
           /\ Step(t).op = op
BY DEF IInv, CallsOK, CallOK, Running, Tidy

LEMMA QuietOK ==
    ASSUME IInv, NEW t \in Threads,
           PinFails(t) \/ PinSkipped(t) \/ QueryStep(t) \/ BareQueryStep(t) \/ LabelStep(t)
    PROVE  IInv'
<1>1. /\ call' = [call EXCEPT ![t] = Advance(call[t])] /\ todo' = todo /\ locked' = locked
      /\ \E op \in {"pin", "query", "bare_query", "label"} : Running(t, op)
      BY DEF PinFails, PinSkipped, QueryStep, BareQueryStep, LabelStep
<1>2. IsCall(call[t]) /\ call[t].phase = "run" /\ call[t].pc \in Nat \ {0}
      BY <1>1, RunsNow
<1>3. /\ Same(call[t], Advance(call[t])) /\ Advance(call[t]).phase = "run"
      /\ Advance(call[t]).pc \in Nat \ {0}
      BY <1>2, AdvanceSame
<1> QED BY <1>1, <1>2, <1>3, RunsOn

LEMMA JumpOK == ASSUME IInv, NEW t \in Threads, JumpStep(t) PROVE IInv'
<1>1. IsCall(call[t]) /\ call[t].phase = "run" /\ Tidy(call[t].prog)
      BY RunsNow DEF JumpStep
<1>2. PICK i \in DOMAIN call[t].prog.body :
          /\ call' = [call EXCEPT ![t].pc = i] /\ todo' = todo /\ locked' = locked
      BY DEF JumpStep
<1> DEFINE d == [call[t] EXCEPT !.pc = i]
<1>3. call' = [call EXCEPT ![t] = d]
      BY <1>2
<1>4. i \in Nat \ {0}
      BY <1>1 DEF Tidy
<1>5. Same(call[t], d) /\ d.phase = "run" /\ d.pc \in Nat \ {0}
      BY <1>1, <1>4 DEF Same, IsCall
<1> HIDE DEF d
<1> QED BY <1>1, <1>2, <1>3, <1>5, RunsOn

LEMMA LaunchOK ==
    ASSUME IInv, NEW t \in Threads, LaunchWorks(t) \/ LaunchFails(t) \/ Fails(t)
    PROVE  IInv'
<1>1. /\ todo' = todo /\ locked' = locked
      /\ \E op \in {"launch", "alloc", "do", "get"} : Running(t, op)
      BY DEF LaunchWorks, LaunchFails, Fails
<1>2. IsCall(call[t]) /\ call[t].phase = "run" /\ call[t].pc \in Nat \ {0}
      BY <1>1, RunsNow
<1>3. CASE LaunchWorks(t)
  <2> DEFINE w == Written(call[t], Step(t).reads, Step(t).writes)
             d == Advance(w)
  <2>1. call' = [call EXCEPT ![t] = d]
        BY <1>3 DEF LaunchWorks
  <2>2. Same(call[t], w) /\ w.phase = "run" /\ w.pc = call[t].pc /\ IsCall(w)
        BY <1>2, WrittenSame DEF Same
  <2> HIDE DEF w
  <2>3. Same(w, d) /\ d.phase = "run" /\ d.pc \in Nat \ {0}
        BY <1>2, <2>2, AdvanceSame
  <2>4. Same(call[t], d)
        BY <2>2, <2>3 DEF Same
  <2> HIDE DEF d
  <2> QED BY <1>1, <1>2, <2>1, <2>3, <2>4, RunsOn
<1>4. CASE LaunchFails(t) \/ Fails(t)
  <2>1. PICK why : call' = [call EXCEPT ![t] = FailWith(call[t], why)]
        BY <1>4 DEF LaunchFails, Fails
  <2>2. /\ Same(call[t], FailWith(call[t], why)) /\ FailWith(call[t], why).phase = "free"
        /\ FailWith(call[t], why).pc \in Nat \ {0}
        BY <1>2, FailSame
  <2> QED BY <1>1, <1>2, <2>1, <2>2, RunsOn
<1> QED BY <1>3, <1>4

\* A step that may allocate: a running call d that holds more, all of it to be freed.
LEMMA GrowsOK ==
    ASSUME IInv, NEW t \in Threads, call[t].phase = "run", todo' = todo, locked' = locked,
           NEW d, call' = [call EXCEPT ![t] = d], IsCall(d),
           d.phase \in {"run", "free"}, d.pc \in Nat \ {0},
           d.prog = call[t].prog, d.pins = call[t].pins,
           d.dev \subseteq d.prog.frees, d.host \subseteq d.prog.hosts
    PROVE  IInv'
<1>1. CallOK(call[t]) /\ todo' \in [Threads -> Seq(Programs)]
      BY DEF IInv, CallsOK
<1>2. CallOK(d)
      BY <1>1 DEF CallOK, Ahead
<1> QED BY <1>1, <1>2, LocalStep

LEMMA WorksOK == ASSUME IInv, NEW t \in Threads, Works(t) PROVE IInv'
<1> DEFINE e == Effect(call[t], Step(t))
           d == Advance(e)
<1>1. /\ todo' = todo /\ locked' = locked /\ call' = [call EXCEPT ![t] = d]
      /\ \E op \in {"alloc", "do", "get"} : Running(t, op)
      BY DEF Works
<1>2. /\ IsCall(call[t]) /\ call[t].phase = "run" /\ call[t].pc \in Nat \ {0}
      /\ CallOK(call[t]) /\ Tidy(call[t].prog) /\ call[t].pc \in DOMAIN call[t].prog.body
      BY <1>1, RunsNow
<1>3. call[t].dev \subseteq call[t].prog.frees /\ call[t].host \subseteq call[t].prog.hosts
      BY <1>2 DEF CallOK
<1>4. /\ IsCall(e) /\ e.phase = "run" /\ e.pc = call[t].pc /\ e.prog = call[t].prog
      /\ e.pins = call[t].pins /\ e.host = call[t].host /\ e.dev \subseteq e.prog.frees
  <2>1. CASE Running(t, "alloc")
    <3> DEFINE a == [call[t] EXCEPT !.dev = @ \cup {Step(t).buf}]
               b == [a EXCEPT !.ready = @ \ {Step(t).buf}]
    <3>1. Step(t).op = "alloc" /\ Step(t).buf \in call[t].prog.frees
          BY <1>2, <2>1, RunsNow DEF Tidy, Step
    <3>2. /\ IsCall(a) /\ a.phase = "run" /\ a.pc = call[t].pc /\ a.prog = call[t].prog
          /\ a.pins = call[t].pins /\ a.host = call[t].host /\ a.dev \subseteq a.prog.frees
          BY <1>2, <1>3, <3>1 DEF IsCall
    <3>3. e = b
          BY <3>1, Zenon DEF Effect
    <3> HIDE DEF a, e
    <3>4. /\ IsCall(b) /\ b.phase = "run" /\ b.pc = a.pc /\ b.prog = a.prog
          /\ b.pins = a.pins /\ b.host = a.host /\ b.dev = a.dev
          BY <3>2 DEF IsCall
    <3> HIDE DEF b
    <3> QED BY <3>2, <3>3, <3>4
  <2>2. CASE Running(t, "do")
    <3>1. Step(t).op = "do"
          BY <2>2, RunsNow
    <3>2. e = Written(call[t], Step(t).reads, Step(t).writes)
          BY <3>1 DEF Effect
    <3> HIDE DEF e
    <3>3. Same(call[t], e) /\ e.phase = "run" /\ e.pc = call[t].pc
          BY <1>2, <3>2, WrittenSame
    <3> QED BY <1>3, <3>3 DEF Same
  <2>3. CASE Running(t, "get")
    <3>1. Step(t).op = "get"
          BY <2>3, RunsNow
    <3>2. e = [call[t] EXCEPT !.got = @ \cup {Step(t).buf}]
          BY <3>1 DEF Effect
    <3> HIDE DEF e
    <3>3. Same(call[t], e) /\ e.phase = "run" /\ e.pc = call[t].pc
          BY <1>2, <3>2 DEF IsCall, Same
    <3> QED BY <1>3, <3>3 DEF Same
  <2> QED BY <1>1, <2>1, <2>2, <2>3
<1> HIDE DEF e
<1>5. Same(e, d) /\ d.phase = "run" /\ d.pc \in Nat \ {0}
      BY <1>2, <1>4, AdvanceSame
<1> HIDE DEF d
<1> QED BY <1>1, <1>2, <1>3, <1>4, <1>5, GrowsOK DEF Same

LEMMA HostMallocOK == ASSUME IInv, NEW t \in Threads, HostMalloc(t) PROVE IInv'
<1>1. /\ IsCall(call[t]) /\ call[t].phase = "run" /\ call[t].pc \in Nat \ {0}
      /\ CallOK(call[t]) /\ Tidy(call[t].prog) /\ call[t].pc \in DOMAIN call[t].prog.body
      /\ Step(t).op = "host"
      BY RunsNow DEF HostMalloc
<1>2. Step(t).bufs \subseteq call[t].prog.hosts /\ call[t].dev \subseteq call[t].prog.frees
      BY <1>1 DEF Tidy, Step, CallOK
<1>3. PICK got \in SUBSET Step(t).bufs :
          LET c == [call[t] EXCEPT !.host = got]
          IN  call' = [call EXCEPT ![t] = IF got = Step(t).bufs THEN Advance(c)
                                          ELSE FailWith(c, "own")]
      BY DEF HostMalloc
<1> DEFINE c == [call[t] EXCEPT !.host = got]
           d == IF got = Step(t).bufs THEN Advance(c) ELSE FailWith(c, "own")
<1>4. /\ IsCall(c) /\ c.phase = "run" /\ c.pc = call[t].pc /\ c.prog = call[t].prog
      /\ c.pins = call[t].pins /\ c.dev = call[t].dev /\ c.host \subseteq c.prog.hosts
      BY <1>1, <1>2 DEF IsCall
<1>5. call' = [call EXCEPT ![t] = d] /\ todo' = todo /\ locked' = locked
      BY <1>3 DEF HostMalloc
<1> HIDE DEF c
<1>6. Same(c, d) /\ d.phase \in {"run", "free"} /\ d.pc \in Nat \ {0}
      BY <1>1, <1>4, AdvanceSame, FailSame
<1> HIDE DEF d
<1> QED BY <1>1, <1>2, <1>4, <1>5, <1>6, GrowsOK DEF Same

-----------------------------------------------------------------------------
(* Registration, and the end of a bridge.                                    *)

LEMMA PinnedOK == ASSUME IInv, NEW t \in Threads, Pinned(t) PROVE IInv'
<1> DEFINE h == Step(t).buf
           a == Advance(call[t])
           d == [a EXCEPT !.pins = @ \cup {h}]
<1>1. /\ IsCall(call[t]) /\ call[t].phase = "run" /\ call[t].pc \in Nat \ {0}
      /\ CallOK(call[t]) /\ Tidy(call[t].prog) /\ call[t].pc \in DOMAIN call[t].prog.body
      /\ Step(t).op = "pin"
      BY RunsNow DEF Pinned
<1>2. /\ todo' = todo /\ call' = [call EXCEPT ![t] = d]
      /\ locked' = locked \cup {<<HostRange(t, h), t>>}
      /\ HostRange(t, h) \notin LockedRanges
      BY DEF Pinned
<1>3. Ahead(call[t], h, 1)
  <2>1. PICK j \in DOMAIN call[t].prog.unpins : call[t].prog.unpins[j] = h
        BY <1>1 DEF Tidy, Step
  <2>2. j >= 1
        BY <1>1, <2>1 DEF Tidy
  <2> QED BY <2>1, <2>2 DEF Ahead
<1> HIDE DEF h
<1>4. Same(call[t], a) /\ a.phase = "run" /\ a.pc \in Nat \ {0}
      BY <1>1, AdvanceSame
<1> HIDE DEF a
<1>5. /\ IsCall(d) /\ d.phase = "run" /\ d.pc = a.pc /\ d.prog = a.prog /\ d.dev = a.dev
      /\ d.host = a.host /\ d.pins = call[t].pins \cup {h}
      BY <1>4 DEF IsCall, Same
<1> HIDE DEF d
<1>6. CallOK(d)
      BY <1>1, <1>3, <1>4, <1>5 DEF CallOK, Same, Ahead
<1>7. /\ Threads' = Threads
      /\ call' = [u \in Threads |-> IF u = t THEN d ELSE call[u]]
      BY <1>2 DEF Threads, IInv, CallsOK
<1>8. CallsOK'
      BY <1>2, <1>6, <1>7 DEF IInv, CallsOK
<1>9. Owned'
      BY <1>2, <1>5, <1>7 DEF IInv, Owned, HostRange
<1>10. OneOwner'
      BY <1>2 DEF IInv, OneOwner, LockedRanges
<1>11. PinsAreKept'
      BY <1>2, <1>5, <1>7 DEF IInv, PinsAreKept, HostRange
<1> QED BY <1>8, <1>9, <1>10, <1>11 DEF IInv

LEMMA EndOfBodyOK == ASSUME IInv, NEW t \in Threads, EndOfBody(t) PROVE IInv'
<1> DEFINE d == [call[t] EXCEPT !.phase = "free"]
<1>1. /\ call[t].phase = "run" /\ todo' = todo /\ locked' = locked
      /\ call' = [call EXCEPT ![t] = d]
      BY DEF EndOfBody
<1>2. IsCall(call[t]) /\ call[t].pc \in Nat \ {0}
      BY DEF IInv, CallsOK, CallOK
<1>3. Same(call[t], d) /\ d.phase = "free" /\ d.pc \in Nat \ {0}
      BY <1>2 DEF Same, IsCall
<1> HIDE DEF d
<1> QED BY <1>1, <1>3, RunsOn

LEMMA FreeAllOK == ASSUME IInv, NEW t \in Threads, FreeAll(t) PROVE IInv'
<1> DEFINE a1 == [call[t] EXCEPT !.phase = "unpin"]
           a2 == [a1 EXCEPT !.pc = 1]
           a3 == [a2 EXCEPT !.dev = @ \ call[t].prog.frees]
           a4 == [a3 EXCEPT !.host = @ \ call[t].prog.hosts]
<1>1. /\ call[t].phase = "free" /\ todo' = todo /\ locked' = locked
      /\ call' = [call EXCEPT ![t] = a4]
      BY ZenonT(40) DEF FreeAll
<1>2. CallOK(call[t]) /\ IsCall(call[t]) /\ todo' \in [Threads -> Seq(Programs)]
      BY <1>1 DEF IInv, CallsOK, CallOK
<1>3. Same(call[t], a1) /\ a1.phase = "unpin"
      BY <1>2 DEF IsCall, Same
<1> HIDE DEF a1
<1>4. Same(call[t], a2) /\ a2.phase = "unpin" /\ a2.pc = 1
      BY <1>3 DEF IsCall, Same
<1> HIDE DEF a2
<1>5. /\ IsCall(a3) /\ a3.phase = "unpin" /\ a3.pc = 1 /\ a3.prog = call[t].prog
      /\ a3.host = call[t].host /\ a3.pins = call[t].pins
      /\ a3.dev = call[t].dev \ call[t].prog.frees
      BY <1>4 DEF IsCall, Same
<1> HIDE DEF a3
<1>6. /\ IsCall(a4) /\ a4.phase = "unpin" /\ a4.pc = 1 /\ a4.prog = call[t].prog
      /\ a4.pins = call[t].pins /\ a4.dev = call[t].dev \ call[t].prog.frees
      /\ a4.host = call[t].host \ call[t].prog.hosts
      BY <1>5 DEF IsCall
<1> HIDE DEF a4
<1>7. CallOK(a4)
      BY <1>1, <1>2, <1>6 DEF CallOK, Ahead
<1> QED BY <1>1, <1>2, <1>6, <1>7, LocalStep

LEMMA UnpinOK == ASSUME IInv, NEW t \in Threads, Unpin(t) PROVE IInv'
<1> DEFINE h == call[t].prog.unpins[call[t].pc]
           a == [call[t] EXCEPT !.pins = @ \ {h}]
           d == [a EXCEPT !.pc = @ + 1]
<1>1. /\ call[t].phase = "unpin" /\ todo' = todo /\ call' = [call EXCEPT ![t] = d]
      /\ Unregister(t, h)
      BY DEF Unpin
<1>2. CallOK(call[t]) /\ IsCall(call[t]) /\ call[t].pc \in Nat \ {0} /\ Tidy(call[t].prog)
      BY <1>1 DEF IInv, CallsOK, CallOK
<1> HIDE DEF h
<1>3. /\ IsCall(a) /\ a.phase = "unpin" /\ a.pc = call[t].pc /\ a.prog = call[t].prog
      /\ a.dev = call[t].dev /\ a.host = call[t].host /\ a.pins = call[t].pins \ {h}
      BY <1>1, <1>2 DEF IsCall
<1> HIDE DEF a
<1>4. /\ IsCall(d) /\ d.phase = "unpin" /\ d.pc = call[t].pc + 1 /\ d.prog = call[t].prog
      /\ d.dev = call[t].dev /\ d.host = call[t].host /\ d.pins = call[t].pins \ {h}
      BY <1>3 DEF IsCall
<1> HIDE DEF d
<1>5. \A k \in d.pins : Ahead(d, k, d.pc)
  <2> SUFFICES ASSUME NEW k \in d.pins PROVE Ahead(d, k, d.pc)
      OBVIOUS
  <2>1. k # h /\ Ahead(call[t], k, call[t].pc)
        BY <1>1, <1>2, <1>4 DEF CallOK
  <2>2. PICK j \in DOMAIN call[t].prog.unpins :
            j >= call[t].pc /\ call[t].prog.unpins[j] = k
        BY <2>1 DEF Ahead
  <2>3. j \in Nat /\ j # call[t].pc
        BY <1>2, <2>1, <2>2 DEF Tidy, h
  <2> QED BY <1>2, <1>4, <2>2, <2>3 DEF Ahead
<1>6. CallOK(d)
      BY <1>1, <1>2, <1>4, <1>5 DEF CallOK
<1>7. /\ Threads' = Threads
      /\ call' = [u \in Threads |-> IF u = t THEN d ELSE call[u]]
      BY <1>1 DEF Threads, IInv, CallsOK
<1>8. CallsOK'
      BY <1>1, <1>6, <1>7 DEF IInv, CallsOK
<1>9. IF h \in call[t].pins THEN locked' = locked \ {<<HostRange(t, h), t>>}
      ELSE locked' = locked
      BY <1>1 DEF Unregister
<1>10. Owned'
      BY <1>4, <1>7, <1>9 DEF IInv, Owned, HostRange
<1>11. OneOwner'
      BY <1>9 DEF IInv, OneOwner
<1>12. PinsAreKept'
      BY <1>4, <1>7, <1>9, RangesDiffer DEF IInv, PinsAreKept, HostRange
<1> QED BY <1>8, <1>10, <1>11, <1>12 DEF IInv

LEMMA ReturnOK == ASSUME IInv, NEW t \in Threads, Return(t) PROVE IInv'
<1> DEFINE d == [call[t] EXCEPT !.phase = "done"]
<1>1. /\ call[t].phase = "unpin" /\ todo' = todo /\ locked' = locked
      /\ call' = [call EXCEPT ![t] = d] /\ call[t].pc > Len(call[t].prog.unpins)
      BY DEF Return
<1>2. CallOK(call[t]) /\ IsCall(call[t]) /\ todo' \in [Threads -> Seq(Programs)]
      BY <1>1 DEF IInv, CallsOK, CallOK
<1>3. call[t].pins = {}
      BY <1>1, <1>2 DEF CallOK, Ahead, Tidy
<1>4. Same(call[t], d) /\ d.phase = "done" /\ d.pc = call[t].pc
      BY <1>2 DEF Same, IsCall
<1> HIDE DEF d
<1>5. CallOK(d)
      BY <1>1, <1>2, <1>3, <1>4 DEF CallOK, Same
<1> QED BY <1>1, <1>2, <1>4, <1>5, LocalStep DEF Same

-----------------------------------------------------------------------------
(* The theorems.                                                             *)

LEMMA NextOK == ASSUME WorkloadsTidy, IInv, [Next]_vars PROVE IInv'
<1>1. CASE UNCHANGED vars
      BY <1>1 DEF vars, IInv, CallsOK, Owned, OneOwner, PinsAreKept, Threads
<1>2. CASE AllDone
      BY <1>1, <1>2 DEF AllDone
<1>3. ASSUME NEW t \in Threads, CallStep(t) PROVE IInv'
      BY <1>3, BeginOK, QuietOK, PinnedOK, WorksOK, LaunchOK, HostMallocOK, JumpOK,
         EndOfBodyOK, FreeAllOK, UnpinOK, ReturnOK DEF CallStep
<1> QED BY <1>1, <1>2, <1>3 DEF Next

LEMMA Held == Spec => []IInv
<1>1. Init => IInv
      BY InitOK, GpuAssumption
<1>2. IInv /\ [Next]_vars => IInv'
      BY NextOK, GpuAssumption
<1> QED BY <1>1, <1>2, PTL DEF Spec

\* While a call runs, what it registered stays registered, by it, whatever
\* other threads do with the same arrays.
THEOREM PinsStay == Spec => []PinsAreKept
<1>1. IInv => PinsAreKept
      BY DEF IInv
<1> QED BY <1>1, Held, PTL

\* A call that has returned has left nothing behind on the device, on the host
\* or in the table of locked ranges, whatever failed.
THEOREM NothingLeaks == Spec => []ReturnsClean
<1>1. IInv => ReturnsClean
  <2> SUFFICES ASSUME IInv, NEW t \in Threads, Returned(t)
               PROVE  /\ call[t].dev = {} /\ call[t].host = {}
                      /\ \A l \in locked : l[2] # t
      BY DEF ReturnsClean
  <2>1. call[t].dev = {} /\ call[t].host = {} /\ call[t].pins = {}
        BY DEF IInv, CallsOK, CallOK, Returned
  <2>2. ASSUME NEW l \in locked PROVE l[2] # t
        BY <2>1, <2>2 DEF IInv, Owned
  <2> QED BY <2>1, <2>2
<1> QED BY <1>1, Held, PTL

-----------------------------------------------------------------------------
(* What holds at each position of a bridge.                                  *)

\* What is known of a call at a position: device memory it holds, memory that
\* has contents as well, results downloaded since they were last written, memory
\* that follows from the x of now, and all that may follow from an x before it.
At(dev, ready, got, ofX, old) ==
    [dev |-> dev, ready |-> ready, got |-> got, ofX |-> ofX, old |-> old]

\* k says no more than m.
Weaker(k, m) ==
    /\ k.dev \subseteq m.dev /\ k.ready \subseteq m.ready /\ k.got \subseteq m.got
    /\ k.ofX \subseteq m.ofX /\ m.old \subseteq k.old

\* Call c is as k says, and of its buffers only those in W follow from any x.
Sat(c, k, W) ==
    /\ k.dev \subseteq c.dev /\ k.ready \subseteq c.ready \cap c.dev /\ k.got \subseteq c.got
    /\ k.ofX \subseteq c.ofX /\ c.ofOld \subseteq k.old /\ c.ofX \cup c.ofOld \subseteq W

\* What is known after a step that finds k, at least.
ReadsOld(st, k) == st.reads \cap k.old # {}
ReadsX(st, k) == st.reads \cap (k.ofX \cup {"x"}) # {}

AfterWrite(st, k, W) ==
    At(k.dev, k.ready \cup st.writes, k.got \ st.writes,
       IF "x" \in st.writes THEN {}
       ELSE IF ReadsX(st, k) /\ ~ReadsOld(st, k) THEN k.ofX \cup st.writes
            ELSE k.ofX \ st.writes,
       IF "x" \in st.writes THEN W
       ELSE IF ReadsOld(st, k) THEN k.old \cup st.writes ELSE k.old \ st.writes)

After(st, k, W) ==
    CASE st.op = "alloc" -> At(k.dev \cup {st.buf}, k.ready \ {st.buf}, k.got, k.ofX, k.old)
      [] st.op \in {"do", "launch"} -> AfterWrite(st, k, W)
      [] st.op = "get" -> At(k.dev, k.ready, k.got \cup {st.buf}, k.ofX, k.old)
      [] OTHER -> k

\* A step may run where k is known and leads to where m is; L says what is
\* known at each label.
Flow(st, k, m, L, W) ==
    /\ st.op \in {"do", "launch"} =>
           /\ st.reads \subseteq k.ready /\ st.writes \subseteq k.dev
           /\ st.reads # {} => st.writes \subseteq W \cup {"x"}
    /\ st.op = "get" => st.buf \in k.ready
    /\ st.op = "label" => st.name \in DOMAIN L /\ k = L[st.name]
    /\ st.op = "jump" => \A l \in st.to : l \in DOMAIN L /\ Weaker(L[l], k)
    /\ st.op # "jump" => Weaker(m, After(st, k, W))

\* Steps s lead from k to m.
Flows(s, K, L, W) == \A i \in 1 .. Len(s) : Flow(s[i], K[i], K[i + 1], L, W)

Path(s, k, m, L, W) ==
    \E S, K : s \in Seq(S) /\ K[1] = k /\ K[Len(s) + 1] = m /\ Flows(s, K, L, W)

Nothing(W) == At({}, {}, {}, {}, W)

\* At its end a bridge has delivered, and a residual belongs to its x.
Delivered(c, got, ofX) ==
    /\ c.outs \subseteq got
    /\ c.resid # "none" => c.resid \in ofX

Cert(p, K, L, W) ==
    /\ K[1] = Nothing(W) /\ Flows(p.body, K, L, W)
    /\ Delivered(p, K[Len(p.body) + 1].got, K[Len(p.body) + 1].ofX)

\* Every step of the bridge, in any pass of its loops, finds what it reads.
Sound(p) == \E K, L, W : Cert(p, K, L, W)

Fits(c) ==
    /\ c.phase = "run" =>
           \E K, L, W : /\ Cert(c.prog, K, L, W) /\ c.pc \in 1 .. Len(c.prog.body) + 1
                        /\ Sat(c, K[c.pc], W)
    /\ (c.phase \in {"free", "unpin", "done"} /\ c.why = "none") =>
           Delivered(c.prog, c.got, c.ofX)

FlowInv == \A t \in Threads : Fits(call[t])

-----------------------------------------------------------------------------
\* What satisfies a record satisfies a weaker one.
LEMMA WeakerSat ==
    ASSUME NEW c, NEW k, NEW m, NEW W, Weaker(k, m), Sat(c, m, W)
    PROVE  Sat(c, k, W)
BY DEF Weaker, Sat

\* What follows from x after a step that reads rs and writes ws, had it not
\* written x.
NowX(c, rs, ws) ==
    IF rs \cap (c.ofX \cup {"x"}) # {} /\ rs \cap c.ofOld = {} THEN c.ofX \cup ws
    ELSE c.ofX \ ws
NowOld(c, rs, ws) == IF rs \cap c.ofOld # {} THEN c.ofOld \cup ws ELSE c.ofOld \ ws

\* What a step that writes leaves in the record.
Wrote(c, rs, ws, d) ==
    /\ d.dev = c.dev /\ d.ready = c.ready \cup ws /\ d.got = c.got \ ws
    /\ d.ofX = IF "x" \in ws THEN {} ELSE NowX(c, rs, ws)
    /\ d.ofOld = IF "x" \in ws THEN (NowOld(c, rs, ws) \cup NowX(c, rs, ws)) \ {"x"}
                 ELSE NowOld(c, rs, ws)
    /\ d.why = c.why

\* Written, field by field.
LEMMA WrittenIs ==
    ASSUME NEW c, IsCall(c), NEW rs, NEW ws, NEW d, d = Written(c, rs, ws)
    PROVE  Wrote(c, rs, ws, d)
<1> DEFINE x == IF "x" \in ws THEN {} ELSE NowX(c, rs, ws)
           o == IF "x" \in ws THEN (NowOld(c, rs, ws) \cup NowX(c, rs, ws)) \ {"x"}
                ELSE NowOld(c, rs, ws)
           r == c.ready \cup ws
           g == c.got \ ws
           a1 == [c EXCEPT !.ready = r]
           a2 == [a1 EXCEPT !.got = g]
           a3 == [a2 EXCEPT !.ofX = x]
           a4 == [a3 EXCEPT !.ofOld = o]
<1>0. d = [c EXCEPT !.ready = r, !.got = g, !.ofX = x, !.ofOld = o]
      BY Zenon DEF Written, NowX, NowOld
<1> HIDE DEF x, o, r, g
<1>1. /\ IsCall(a1) /\ a1.dev = c.dev /\ a1.ready = r /\ a1.got = c.got /\ a1.why = c.why
      BY DEF IsCall
<1> HIDE DEF a1
<1>2. /\ IsCall(a2) /\ a2.dev = c.dev /\ a2.ready = r /\ a2.got = g /\ a2.why = c.why
      BY <1>1 DEF IsCall
<1> HIDE DEF a2
<1>3. /\ IsCall(a3) /\ a3.dev = c.dev /\ a3.ready = r /\ a3.got = g /\ a3.why = c.why
      /\ a3.ofX = x
      BY <1>2 DEF IsCall
<1> HIDE DEF a3
<1>4. /\ a4.dev = c.dev /\ a4.ready = r /\ a4.got = g /\ a4.why = c.why
      /\ a4.ofX = x /\ a4.ofOld = o
      BY <1>3 DEF IsCall
<1>5. d = a4
      BY <1>0 DEF a1, a2, a3
<1> HIDE DEF a4
<1> QED BY <1>4, <1>5 DEF x, o, r, g, Wrote

\* A write takes a call that is as k says to one that is as AfterWrite says.
LEMMA WriteSat ==
    ASSUME NEW c, IsCall(c), NEW st, NEW k, NEW W, Sat(c, k, W),
           st.writes \subseteq k.dev, st.reads # {} => st.writes \subseteq W \cup {"x"}
    PROVE  Sat(Written(c, st.reads, st.writes), AfterWrite(st, k, W), W)
<1> DEFINE rs == st.reads
           ws == st.writes
           d == Written(c, rs, ws)
           m == AfterWrite(st, k, W)
           old == rs \cap c.ofOld # {}
           cur == rs \cap (c.ofX \cup {"x"}) # {}
           ofX == NowX(c, rs, ws)
           ofOld == NowOld(c, rs, ws)
<1>10. d = Written(c, rs, ws)
      OBVIOUS
<1> HIDE DEF rs, ws, d, ofX, ofOld
<1>1. /\ d.dev = c.dev /\ d.ready = c.ready \cup ws /\ d.got = c.got \ ws
      /\ d.ofX = IF "x" \in ws THEN {} ELSE ofX
      /\ d.ofOld = IF "x" \in ws THEN (ofOld \cup ofX) \ {"x"} ELSE ofOld
  <2>1. Wrote(c, rs, ws, d)
        BY <1>10, WrittenIs
  <2> QED BY <2>1 DEF Wrote, ofX, ofOld
<1>2. /\ m.dev = k.dev /\ m.ready = k.ready \cup ws /\ m.got = k.got \ ws
      /\ m.ofX = IF "x" \in ws THEN {}
                 ELSE IF ReadsX(st, k) /\ ~ReadsOld(st, k) THEN k.ofX \cup ws ELSE k.ofX \ ws
      /\ m.old = IF "x" \in ws THEN W
                 ELSE IF ReadsOld(st, k) THEN k.old \cup ws ELSE k.old \ ws
      BY DEF AfterWrite, At, rs, ws, m
<1> HIDE DEF d, m
<1>0. /\ ofX = IF cur /\ ~old THEN c.ofX \cup ws ELSE c.ofX \ ws
      /\ ofOld = IF old THEN c.ofOld \cup ws ELSE c.ofOld \ ws
      BY DEF NowX, NowOld, ofX, ofOld
<1>3. (old => ReadsOld(st, k)) /\ (ReadsX(st, k) => cur)
      BY DEF Sat, ReadsOld, ReadsX, rs
<1>4. (old \/ cur) => ws \subseteq W \cup {"x"}
      BY DEF rs, ws
<1>5. /\ k.dev \subseteq c.dev /\ k.ready \subseteq c.ready \cap c.dev /\ k.got \subseteq c.got
      /\ k.ofX \subseteq c.ofX /\ c.ofOld \subseteq k.old /\ c.ofX \cup c.ofOld \subseteq W
      BY DEF Sat
<1> HIDE DEF old, cur, ofX, ofOld
<1>11. ws \subseteq k.dev
      BY DEF ws
<1>6. m.dev \subseteq d.dev /\ m.ready \subseteq d.ready \cap d.dev /\ m.got \subseteq d.got
      BY <1>1, <1>2, <1>5, <1>11
<1>7. m.ofX \subseteq d.ofX
      BY <1>0, <1>1, <1>2, <1>3, <1>5
<1>8. d.ofOld \subseteq m.old
  <2>1. CASE "x" \in ws
    <3>1. ofX \subseteq c.ofX \cup ws /\ ofOld \subseteq c.ofOld \cup ws
          BY <1>0
    <3>2. CASE old \/ cur
          BY <1>1, <1>2, <1>4, <1>5, <2>1, <3>1, <3>2
    <3>3. CASE ~old /\ ~cur
          BY <1>0, <1>1, <1>2, <1>5, <2>1, <3>3
    <3> QED BY <3>2, <3>3
  <2>2. CASE "x" \notin ws
        BY <1>0, <1>1, <1>2, <1>3, <1>5, <2>2
  <2> QED BY <2>1, <2>2
<1>9. d.ofX \cup d.ofOld \subseteq W
  <2>1. CASE old \/ cur
    <3>1. ofX \subseteq c.ofX \cup ws /\ ofOld \subseteq c.ofOld \cup ws
          BY <1>0
    <3>2. CASE "x" \in ws
          BY <1>1, <1>4, <1>5, <2>1, <3>1, <3>2
    <3>3. CASE "x" \notin ws
          BY <1>1, <1>4, <1>5, <2>1, <3>1, <3>3
    <3> QED BY <3>2, <3>3
  <2>2. CASE ~old /\ ~cur
        BY <1>0, <1>1, <1>5, <2>2
  <2> QED BY <2>1, <2>2
<1> QED BY <1>6, <1>7, <1>8, <1>9 DEF Sat, d, m, rs, ws

\* Two calls that say the same of memory and results.
Alike(c, d) ==
    /\ d.prog = c.prog /\ d.dev = c.dev /\ d.ready = c.ready /\ d.got = c.got
    /\ d.ofX = c.ofX /\ d.ofOld = c.ofOld

\* Sat looks at memory and results only.
LEMMA AlikeSat ==
    ASSUME NEW c, NEW d, Alike(c, d), NEW k, NEW W, Sat(c, k, W)
    PROVE  Sat(d, k, W)
BY DEF Alike, Sat

\* Advance moves the position and nothing else.
LEMMA AdvanceAlike ==
    ASSUME NEW c, IsCall(c)
    PROVE  /\ Alike(c, Advance(c)) /\ IsCall(Advance(c))
           /\ Advance(c).phase = c.phase /\ Advance(c).pc = c.pc + 1
BY DEF IsCall, Advance, Alike

\* A call that fails has a reason.
LEMMA FailFits ==
    ASSUME NEW c, IsCall(c), NEW why, why # "none"
    PROVE  Fits(FailWith(c, why))
<1> DEFINE a == [c EXCEPT !.phase = "free"]
           d == [a EXCEPT !.why = why]
<1>1. IsCall(a) /\ a.phase = "free"
      BY DEF IsCall
<1> HIDE DEF a
<1>2. d.phase = "free" /\ d.why = why
      BY <1>1 DEF IsCall
<1>3. FailWith(c, why) = d
      BY DEF FailWith, a
<1> HIDE DEF d
<1> QED BY <1>2, <1>3 DEF Fits

\* A step of the ladder: e is what it makes of c, and the call goes on behind it.
LEMMA OnwardFits ==
    ASSUME NEW c, IsCall(c), c.phase = "run", Fits(c), Tidy(c.prog),
           c.pc \in DOMAIN c.prog.body, c.prog.body[c.pc].op # "jump",
           NEW e, IsCall(e), e.phase = "run", e.pc = c.pc, e.prog = c.prog,
           \A k, m, L, W :
               Sat(c, k, W) /\ Flow(c.prog.body[c.pc], k, m, L, W)
               => Sat(e, After(c.prog.body[c.pc], k, W), W)
    PROVE  Fits(Advance(e))
<1> DEFINE p == c.prog
           i == c.pc
           n == Len(p.body)
           d == Advance(e)
<1>1. PICK K, L, W : Cert(p, K, L, W) /\ i \in 1 .. n + 1 /\ Sat(c, K[i], W)
      BY Zenon DEF Fits
<1>2. n \in Nat /\ i \in 1 .. n
      BY DEF Tidy
<1>3. Flow(p.body[i], K[i], K[i + 1], L, W)
      BY <1>1, <1>2, Zenon DEF Cert, Flows
<1>4. Sat(e, After(p.body[i], K[i], W), W) /\ Weaker(K[i + 1], After(p.body[i], K[i], W))
      BY <1>1, <1>3, Zenon DEF Flow
<1>5. Sat(e, K[i + 1], W)
      BY <1>4, WeakerSat, Zenon
<1>6. Alike(e, d) /\ d.phase = "run" /\ d.pc = i + 1
      BY AdvanceAlike
<1>7. Sat(d, K[d.pc], W) /\ d.pc \in 1 .. n + 1 /\ d.prog = p
      BY <1>2, <1>5, <1>6, AlikeSat DEF Alike
<1> HIDE DEF d, p, i, n
<1>8. n = Len(d.prog.body) /\ Cert(d.prog, K, L, W)
      BY <1>1, <1>7 DEF n
<1> QED BY <1>6, <1>7, <1>8 DEF Fits, d

\* One call moves, the others stay.
LEMMA OneMoves ==
    ASSUME IInv, FlowInv, NEW t \in Threads, NEW d, call' = [call EXCEPT ![t] = d],
           todo' \in [Threads -> Seq(Programs)], Fits(d)
    PROVE  FlowInv'
<1>1. Threads' = Threads
      BY DEF Threads
<1>2. call' = [u \in Threads |-> IF u = t THEN d ELSE call[u]]
      BY DEF IInv, CallsOK
<1>3. \A u \in Threads : Fits(call'[u])
      BY <1>2 DEF FlowInv
<1> QED BY <1>1, <1>3 DEF FlowInv

-----------------------------------------------------------------------------
(* The steps of a call, once more.                                           *)

\* A new call knows nothing, as position 1 of any certificate says.
LEMMA BeginFits ==
    ASSUME WorkloadsTidy, \A p \in Programs : Sound(p), IInv, FlowInv,
           NEW t \in Threads, Begin(t) \/ Decline(t)
    PROVE  FlowInv'
<1>1. todo[t] # <<>> /\ todo' = [todo EXCEPT ![t] = Tail(@)]
      BY Zenon DEF Begin, Decline
<1>2. todo[t] \in Seq(Programs)
      BY DEF IInv, CallsOK
<1>3. todo' \in [Threads -> Seq(Programs)]
      BY <1>1, <1>2 DEF IInv, CallsOK
<1>4. CASE Decline(t)
  <2>1. call' = [call EXCEPT ![t] = call[t]]
        BY <1>4 DEF Decline, IInv, CallsOK
  <2> QED BY <1>3, <2>1, OneMoves DEF FlowInv
<1>5. CASE Begin(t)
  <2> DEFINE p == Head(todo[t])
             d == Fresh("run", p)
  <2>1. p \in Programs
        BY <1>1, <1>2
  <2>2. PICK K, L, W : Cert(p, K, L, W)
        BY <2>1 DEF Sound
  <2>3. Len(p.body) \in Nat
        BY <2>1 DEF WorkloadsTidy, Tidy
  <2>4. call' = [call EXCEPT ![t] = d]
        BY <1>5 DEF Begin
  <2> HIDE DEF p
  <2>5. /\ d.prog = p /\ d.pc = 1 /\ d.phase = "run" /\ d.ofX = {} /\ d.ofOld = {}
        BY DEF Fresh
  <2> HIDE DEF d
  <2>6. Sat(d, K[d.pc], W) /\ d.pc \in 1 .. Len(p.body) + 1
        BY <2>2, <2>3, <2>5 DEF Cert, Nothing, At, Sat
  <2>7. Fits(d)
        BY <2>2, <2>5, <2>6 DEF Fits
  <2> QED BY <1>3, <2>4, <2>7, OneMoves
<1> QED BY <1>4, <1>5

\* A step that runs leads on, by OnwardFits.
LEMMA StepMoves ==
    ASSUME IInv, FlowInv, NEW t \in Threads, NEW op, Running(t, op), op # "jump",
           todo' = todo, NEW e, IsCall(e), e.phase = "run", e.pc = call[t].pc,
           e.prog = call[t].prog, call' = [call EXCEPT ![t] = Advance(e)],
           \A k, m, L, W : Sat(call[t], k, W) /\ Flow(Step(t), k, m, L, W)
                           => Sat(e, After(Step(t), k, W), W)
    PROVE  FlowInv'
<1>1. /\ call[t].phase = "run" /\ IsCall(call[t]) /\ Tidy(call[t].prog)
      /\ call[t].pc \in DOMAIN call[t].prog.body /\ Step(t).op = op
      BY RunsNow
<1>2. Fits(call[t])
      BY DEF FlowInv
<1>3. Fits(Advance(e))
      BY <1>1, <1>2, OnwardFits DEF Step
<1>4. todo' \in [Threads -> Seq(Programs)]
      BY DEF IInv, CallsOK
<1> QED BY <1>3, <1>4, OneMoves

\* Steps that touch neither memory nor results.
LEMMA QuietFits ==
    ASSUME IInv, FlowInv, NEW t \in Threads,
           PinFails(t) \/ PinSkipped(t) \/ QueryStep(t) \/ BareQueryStep(t) \/ LabelStep(t)
    PROVE  FlowInv'
<1>1. /\ call' = [call EXCEPT ![t] = Advance(call[t])] /\ todo' = todo
      /\ \E op \in {"pin", "query", "bare_query", "label"} : Running(t, op)
      BY DEF PinFails, PinSkipped, QueryStep, BareQueryStep, LabelStep
<1>2. PICK op \in {"pin", "query", "bare_query", "label"} : Running(t, op)
      BY <1>1
<1>3. IsCall(call[t]) /\ call[t].phase = "run" /\ Step(t).op = op
      BY <1>2, RunsNow
<1>4. \A k, W : After(Step(t), k, W) = k
      BY <1>3 DEF After
<1> QED BY <1>1, <1>2, <1>3, <1>4, StepMoves

\* A registration is of the host: no record speaks of it.
LEMMA PinnedFits == ASSUME IInv, FlowInv, NEW t \in Threads, Pinned(t) PROVE FlowInv'
<1> DEFINE h == Step(t).buf
           a == Advance(call[t])
           d == [a EXCEPT !.pins = @ \cup {h}]
           e == [call[t] EXCEPT !.pins = @ \cup {h}]
           b == Advance(e)
<1>1. /\ Running(t, "pin") /\ todo' = todo /\ call' = [call EXCEPT ![t] = d]
      BY DEF Pinned
<1>2. IsCall(call[t]) /\ call[t].phase = "run" /\ Step(t).op = "pin"
      BY <1>1, RunsNow
<1> HIDE DEF h
<1>3. IsCall(e) /\ e.phase = "run" /\ e.pc = call[t].pc /\ Alike(call[t], e)
      BY <1>2 DEF IsCall, Alike
<1>4. d = b
      BY <1>2 DEF IsCall, Advance
<1>5. call' = [call EXCEPT ![t] = b]
      BY <1>1, <1>4
<1> HIDE DEF a, b, d, e
<1>6. \A k, W : After(Step(t), k, W) = k
      BY <1>2 DEF After
<1>7. \A k, W : Sat(call[t], k, W) => Sat(e, k, W)
      BY <1>3, AlikeSat
<1> QED BY <1>1, <1>3, <1>5, <1>6, <1>7, StepMoves DEF b, Alike

\* A step that writes, done by the host or by a kernel, leads on by WriteSat.
LEMMA WriteFits ==
    ASSUME IInv, FlowInv, NEW t \in Threads, NEW op \in {"do", "launch"}, Running(t, op),
           todo' = todo, NEW e, e = Written(call[t], Step(t).reads, Step(t).writes),
           call' = [call EXCEPT ![t] = Advance(e)]
    PROVE  FlowInv'
<1>1. IsCall(call[t]) /\ call[t].phase = "run" /\ Step(t).op = op
      BY RunsNow
<1>2. Same(call[t], e) /\ e.phase = "run" /\ e.pc = call[t].pc
      BY <1>1, WrittenSame
<1>3. ASSUME NEW k, NEW m, NEW L, NEW W, Sat(call[t], k, W), Flow(Step(t), k, m, L, W)
      PROVE  Sat(e, After(Step(t), k, W), W)
  <2>1. /\ Step(t).writes \subseteq k.dev
        /\ Step(t).reads # {} => Step(t).writes \subseteq W \cup {"x"}
        BY <1>1, <1>3 DEF Flow
  <2>2. After(Step(t), k, W) = AfterWrite(Step(t), k, W)
        BY <1>1 DEF After
  <2> QED BY <1>1, <1>3, <2>1, <2>2, WriteSat
<1> QED BY <1>2, <1>3, StepMoves DEF Same

\* Allocations, copies and downloads that work.
LEMMA WorksFits == ASSUME IInv, FlowInv, NEW t \in Threads, Works(t) PROVE FlowInv'
<1> DEFINE e == Effect(call[t], Step(t))
           b == Step(t).buf
<1>1. /\ todo' = todo /\ call' = [call EXCEPT ![t] = Advance(e)]
      /\ \E op \in {"alloc", "do", "get"} : Running(t, op)
      BY DEF Works
<1>2. CASE Running(t, "alloc")
  <2>1. IsCall(call[t]) /\ call[t].phase = "run" /\ Step(t).op = "alloc"
        BY <1>2, RunsNow
  <2> DEFINE a1 == [call[t] EXCEPT !.dev = @ \cup {b}]
             a2 == [a1 EXCEPT !.ready = @ \ {b}]
  <2>2. e = a2
        BY <2>1, Zenon DEF Effect
  <2> HIDE DEF b, e
  <2>3. /\ IsCall(a1) /\ a1.phase = "run" /\ a1.pc = call[t].pc /\ a1.prog = call[t].prog
        /\ a1.dev = call[t].dev \cup {b} /\ a1.ready = call[t].ready /\ a1.got = call[t].got
        /\ a1.ofX = call[t].ofX /\ a1.ofOld = call[t].ofOld
        BY <2>1 DEF IsCall
  <2> HIDE DEF a1
  <2>4. /\ IsCall(a2) /\ a2.phase = "run" /\ a2.pc = call[t].pc /\ a2.prog = call[t].prog
        /\ a2.dev = a1.dev /\ a2.ready = a1.ready \ {b} /\ a2.got = a1.got
        /\ a2.ofX = a1.ofX /\ a2.ofOld = a1.ofOld
        BY <2>3 DEF IsCall
  <2> HIDE DEF a2
  <2>5. \A k, W : After(Step(t), k, W) = At(k.dev \cup {b}, k.ready \ {b}, k.got, k.ofX, k.old)
        BY <2>1 DEF After, b
  <2>6. \A k, W : Sat(call[t], k, W) => Sat(e, After(Step(t), k, W), W)
        BY <2>2, <2>3, <2>4, <2>5 DEF Sat, At
  <2> QED BY <1>1, <1>2, <2>2, <2>4, <2>6, StepMoves
<1>3. CASE Running(t, "do")
  <2>0. Step(t).op = "do"
        BY <1>3, RunsNow
  <2>1. e = Written(call[t], Step(t).reads, Step(t).writes)
        BY <2>0 DEF Effect
  <2> QED BY <1>1, <1>3, <2>1, WriteFits
<1>4. CASE Running(t, "get")
  <2>1. IsCall(call[t]) /\ call[t].phase = "run" /\ Step(t).op = "get"
        BY <1>4, RunsNow
  <2>2. e = [call[t] EXCEPT !.got = @ \cup {b}]
        BY <2>1, Zenon DEF Effect
  <2> HIDE DEF b, e
  <2>3. /\ IsCall(e) /\ e.phase = "run" /\ e.pc = call[t].pc /\ e.prog = call[t].prog
        /\ e.dev = call[t].dev /\ e.ready = call[t].ready /\ e.got = call[t].got \cup {b}
        /\ e.ofX = call[t].ofX /\ e.ofOld = call[t].ofOld
        BY <2>1, <2>2 DEF IsCall
  <2>4. \A k, W : After(Step(t), k, W) = At(k.dev, k.ready, k.got \cup {b}, k.ofX, k.old)
        BY <2>1 DEF After, b
  <2>5. \A k, W : Sat(call[t], k, W) => Sat(e, After(Step(t), k, W), W)
        BY <2>3, <2>4 DEF Sat, At
  <2> QED BY <1>1, <1>4, <2>3, <2>5, StepMoves
<1> QED BY <1>1, <1>2, <1>3, <1>4

\* A failure leaves the body with a reason, and promises nothing.
LEMMA FailsFits ==
    ASSUME IInv, FlowInv, NEW t \in Threads, LaunchFails(t) \/ Fails(t)
    PROVE  FlowInv'
<1>1. todo' = todo /\ \E op \in {"launch", "alloc", "do", "get"} : Running(t, op)
      BY DEF LaunchFails, Fails
<1>2. PICK why : why # "none" /\ call' = [call EXCEPT ![t] = FailWith(call[t], why)]
      BY DEF LaunchFails, Fails
<1>3. Fits(FailWith(call[t], why))
      BY <1>1, <1>2, FailFits, RunsNow
<1>4. todo' \in [Threads -> Seq(Programs)]
      BY <1>1 DEF IInv, CallsOK
<1> QED BY <1>2, <1>3, <1>4, OneMoves

\* A launch that works writes as its step says.
LEMMA LaunchFits == ASSUME IInv, FlowInv, NEW t \in Threads, LaunchWorks(t) PROVE FlowInv'
<1>1. /\ Running(t, "launch") /\ todo' = todo
      /\ call' = [call EXCEPT ![t] = Advance(Written(call[t], Step(t).reads, Step(t).writes))]
      BY DEF LaunchWorks
<1> QED BY <1>1, WriteFits

\* Host memory is not in the records; too little of it is a failure.
LEMMA HostMallocFits == ASSUME IInv, FlowInv, NEW t \in Threads, HostMalloc(t) PROVE FlowInv'
<1>1. /\ Running(t, "host") /\ todo' = todo
      /\ \E got \in SUBSET Step(t).bufs :
            LET c == [call[t] EXCEPT !.host = got]
            IN  call' = [call EXCEPT ![t] = IF got = Step(t).bufs THEN Advance(c)
                                            ELSE FailWith(c, "own")]
      BY DEF HostMalloc
<1>2. PICK got \in SUBSET Step(t).bufs :
          LET c == [call[t] EXCEPT !.host = got]
          IN  call' = [call EXCEPT ![t] = IF got = Step(t).bufs THEN Advance(c)
                                          ELSE FailWith(c, "own")]
      BY <1>1
<1> DEFINE e == [call[t] EXCEPT !.host = got]
<1>3. IsCall(call[t]) /\ call[t].phase = "run" /\ Step(t).op = "host"
      BY <1>1, RunsNow
<1>4. IsCall(e) /\ e.phase = "run" /\ e.pc = call[t].pc /\ Alike(call[t], e)
      BY <1>3 DEF IsCall, Alike
<1>5. call' = [call EXCEPT ![t] = IF got = Step(t).bufs THEN Advance(e) ELSE FailWith(e, "own")]
      BY <1>2
<1> HIDE DEF e
<1>6. CASE got = Step(t).bufs
  <2>1. \A k, W : After(Step(t), k, W) = k
        BY <1>3 DEF After
  <2>2. \A k, W : Sat(call[t], k, W) => Sat(e, k, W)
        BY <1>4, AlikeSat
  <2>3. call' = [call EXCEPT ![t] = Advance(e)]
        BY <1>5, <1>6
  <2>4. \A k, W : Sat(call[t], k, W) => Sat(e, After(Step(t), k, W), W)
        BY <2>1, <2>2
  <2>5. e.prog = call[t].prog
        BY <1>4 DEF Alike
  <2> QED BY <1>1, <1>4, <2>3, <2>4, <2>5, StepMoves
<1>7. CASE got # Step(t).bufs
  <2>1. Fits(FailWith(e, "own"))
        BY <1>4, FailFits
  <2>2. call' = [call EXCEPT ![t] = FailWith(e, "own")]
        BY <1>5, <1>7
  <2>3. todo' \in [Threads -> Seq(Programs)]
        BY <1>1 DEF IInv, CallsOK
  <2> QED BY <2>1, <2>2, <2>3, OneMoves
<1> QED BY <1>6, <1>7

\* A jump leads to a label whose record is no stronger than what is known.
LEMMA JumpFits == ASSUME IInv, FlowInv, NEW t \in Threads, JumpStep(t) PROVE FlowInv'
<1> DEFINE c == call[t]
           p == c.prog
           n == Len(p.body)
<1>1. /\ c.phase = "run" /\ IsCall(c) /\ Tidy(p) /\ c.pc \in DOMAIN p.body
      /\ p.body[c.pc].op = "jump" /\ todo' \in [Threads -> Seq(Programs)]
      BY RunsNow DEF JumpStep, Step, IInv, CallsOK
<1>2. PICK i \in DOMAIN p.body :
          /\ p.body[i].op = "label" /\ p.body[i].name \in p.body[c.pc].to
          /\ call' = [call EXCEPT ![t].pc = i]
      BY DEF JumpStep, Step
<1>3. PICK K, L, W : Cert(p, K, L, W) /\ c.pc \in 1 .. n + 1 /\ Sat(c, K[c.pc], W)
      BY <1>1, Zenon DEF FlowInv, Fits
<1>4. n \in Nat /\ i \in 1 .. n /\ c.pc \in 1 .. n
      BY <1>1, <1>2 DEF Tidy
<1>5. Flow(p.body[c.pc], K[c.pc], K[c.pc + 1], L, W) /\ Flow(p.body[i], K[i], K[i + 1], L, W)
      BY <1>3, <1>4 DEF Cert, Flows
<1>6. Weaker(L[p.body[i].name], K[c.pc]) /\ K[i] = L[p.body[i].name]
      BY <1>1, <1>2, <1>5 DEF Flow
<1>7. Sat(c, K[i], W)
      BY <1>3, <1>6, WeakerSat, Zenon
<1> DEFINE d == [c EXCEPT !.pc = i]
<1>8. d.phase = "run" /\ d.pc = i /\ Alike(c, d)
      BY <1>1 DEF IsCall, Alike
<1>9. call' = [call EXCEPT ![t] = d]
      BY <1>2
<1> HIDE DEF d
<1>10. Sat(d, K[d.pc], W) /\ d.pc \in 1 .. n + 1 /\ d.prog = p
      BY <1>4, <1>7, <1>8, AlikeSat DEF Alike
<1>11. Fits(d)
      BY <1>3, <1>8, <1>10 DEF Fits
<1> QED BY <1>1, <1>9, <1>11, OneMoves

\* The steps behind the body keep results and reason.
LEMMA KeepsFits ==
    ASSUME NEW c, Fits(c), c.phase \in {"free", "unpin", "done"},
           NEW d, d.phase \in {"free", "unpin", "done"}, d.why = c.why, d.prog = c.prog,
           d.got = c.got, d.ofX = c.ofX
    PROVE  Fits(d)
BY DEF Fits

\* The end of the body has what Delivered asks; the ladders behind keep it.
LEMMA EndFits ==
    ASSUME IInv, FlowInv, NEW t \in Threads,
           EndOfBody(t) \/ FreeAll(t) \/ Unpin(t) \/ Return(t)
    PROVE  FlowInv'
<1> DEFINE c == call[t]
           p == c.prog
<1>1. CallOK(c) /\ IsCall(c) /\ Fits(c) /\ todo' \in [Threads -> Seq(Programs)]
      BY DEF EndOfBody, FreeAll, Unpin, Return, IInv, CallsOK, CallOK, FlowInv
<1>2. CASE EndOfBody(t)
  <2> DEFINE d == [c EXCEPT !.phase = "free"]
             n == Len(p.body)
  <2>1. c.phase = "run" /\ c.pc > n /\ call' = [call EXCEPT ![t] = d] /\ Tidy(p)
        BY <1>1, <1>2 DEF EndOfBody, CallOK
  <2>2. PICK K, L, W : Cert(p, K, L, W) /\ c.pc \in 1 .. n + 1 /\ Sat(c, K[c.pc], W)
        BY <1>1, <2>1, Zenon DEF Fits
  <2>3. n \in Nat /\ c.pc = n + 1
        BY <2>1, <2>2 DEF Tidy
  <2>4. Delivered(p, K[n + 1].got, K[n + 1].ofX)
        BY <2>2 DEF Cert
  <2>5. K[n + 1].got \subseteq c.got /\ K[n + 1].ofX \subseteq c.ofX
        BY <2>2, <2>3 DEF Sat
  <2>6. Delivered(p, c.got, c.ofX)
        BY <2>4, <2>5 DEF Delivered
  <2>7. d.phase = "free" /\ d.prog = p /\ d.got = c.got /\ d.ofX = c.ofX
        BY <1>1 DEF IsCall
  <2>8. Fits(d)
        BY <2>6, <2>7 DEF Fits
  <2> QED BY <1>1, <2>1, <2>8, OneMoves
<1>3. CASE FreeAll(t)
  <2> DEFINE a1 == [c EXCEPT !.phase = "unpin"]
             a2 == [a1 EXCEPT !.pc = 1]
             a3 == [a2 EXCEPT !.dev = @ \ p.frees]
             a4 == [a3 EXCEPT !.host = @ \ p.hosts]
             Like(d) == /\ IsCall(d) /\ d.phase = "unpin" /\ d.why = c.why /\ d.prog = p
                        /\ d.got = c.got /\ d.ofX = c.ofX
  <2>1. c.phase = "free" /\ call' = [call EXCEPT ![t] = a4]
        BY <1>3, ZenonT(40) DEF FreeAll
  <2> HIDE DEF p, c
  <2>2. Like(a1)
        BY <1>1 DEF IsCall, p
  <2> HIDE DEF a1
  <2>3. Like(a2)
        BY <2>2 DEF IsCall
  <2> HIDE DEF a2
  <2>4. Like(a3)
        BY <2>3 DEF IsCall
  <2> HIDE DEF a3
  <2>5. Like(a4)
        BY <2>4 DEF IsCall
  <2> HIDE DEF a4
  <2>6. Fits(a4)
        BY <1>1, <2>1, <2>5, KeepsFits DEF p
  <2> QED BY <1>1, <2>1, <2>6, OneMoves DEF c
<1>4. CASE Unpin(t)
  <2> DEFINE q == c.pins \ {p.unpins[c.pc]}
             a == [c EXCEPT !.pins = q]
             d == [a EXCEPT !.pc = @ + 1]
             Like(x) == /\ IsCall(x) /\ x.phase = "unpin" /\ x.why = c.why /\ x.prog = p
                        /\ x.got = c.got /\ x.ofX = c.ofX
  <2>1. c.phase = "unpin" /\ call' = [call EXCEPT ![t] = d]
        BY <1>4 DEF Unpin
  <2> HIDE DEF q, p, c
  <2>0. c.phase = "unpin" /\ IsCall(c) /\ c.prog = p
        BY <1>1, <2>1 DEF p
  <2>2. Like(a)
        BY <2>0 DEF IsCall
  <2> HIDE DEF a
  <2>3. Like(d)
        BY <2>2 DEF IsCall
  <2> HIDE DEF d
  <2>4. Fits(d)
        BY <1>1, <2>1, <2>3, KeepsFits DEF p
  <2> QED BY <1>1, <2>1, <2>4, OneMoves DEF c
<1>5. CASE Return(t)
  <2> DEFINE d == [c EXCEPT !.phase = "done"]
  <2>1. c.phase = "unpin" /\ call' = [call EXCEPT ![t] = d]
        BY <1>5 DEF Return
  <2>2. /\ d.phase = "done" /\ d.why = c.why /\ d.prog = p /\ d.got = c.got /\ d.ofX = c.ofX
        BY <1>1 DEF IsCall
  <2> HIDE DEF d
  <2>3. Fits(d)
        BY <1>1, <2>1, <2>2, KeepsFits
  <2> QED BY <1>1, <2>1, <2>3, OneMoves
<1> QED BY <1>2, <1>3, <1>4, <1>5

-----------------------------------------------------------------------------
\* Every step keeps calls to the certificates of their bridges.
LEMMA FlowNext ==
    ASSUME WorkloadsTidy, \A p \in Programs : Sound(p), IInv, FlowInv, [Next]_vars
    PROVE  FlowInv'
<1>1. CASE UNCHANGED vars
      BY <1>1 DEF vars, FlowInv, Threads
<1>2. CASE AllDone
      BY <1>1, <1>2 DEF AllDone
<1>3. ASSUME NEW t \in Threads, CallStep(t) PROVE FlowInv'
      BY <1>3, BeginFits, QuietFits, PinnedFits, WorksFits, LaunchFits, FailsFits,
         HostMallocFits, JumpFits, EndFits DEF CallStep
<1> QED BY <1>1, <1>2, <1>3 DEF Next

\* Nothing runs at first.
LEMMA FlowInit == Init => FlowInv
<1> SUFFICES ASSUME Init PROVE FlowInv
    OBVIOUS
<1>1. PICK w \in Workloads : todo = w /\ call = [t \in DOMAIN w |-> Idle]
      BY DEF Init
<1>2. Fits(Idle)
      BY DEF Fits, Idle, Fresh
<1> QED BY <1>1, <1>2 DEF FlowInv, Threads

\* Calls of sound bridges keep to their certificates.
LEMMA FlowHeld ==
    ASSUME \A p \in Programs : Sound(p)
    PROVE  Spec => [](IInv /\ FlowInv)
<1>1. Init => IInv /\ FlowInv
      BY InitOK, FlowInit, GpuAssumption
<1>2. IInv /\ FlowInv /\ [Next]_vars => (IInv /\ FlowInv)'
      BY NextOK, FlowNext, GpuAssumption
<1> QED BY <1>1, <1>2, PTL DEF Spec

-----------------------------------------------------------------------------
(* Chains of steps.                                                          *)

\* Paths compose.
LEMMA PathCat ==
    ASSUME NEW s, NEW u, NEW k, NEW m, NEW n, NEW L, NEW W,
           Path(s, k, m, L, W), Path(u, m, n, L, W)
    PROVE  Path(s \o u, k, n, L, W)
<1>1. PICK S, K : s \in Seq(S) /\ K[1] = k /\ K[Len(s) + 1] = m /\ Flows(s, K, L, W)
      BY DEF Path
<1>2. PICK T, M : u \in Seq(T) /\ M[1] = m /\ M[Len(u) + 1] = n /\ Flows(u, M, L, W)
      BY DEF Path
<1> DEFINE a == Len(s)
           b == Len(u)
           v == s \o u
           N == [i \in 1 .. a + b + 1 |-> IF i <= a THEN K[i] ELSE M[i - a]]
<1>3. s \in Seq(S \cup T) /\ u \in Seq(S \cup T) /\ a \in Nat /\ b \in Nat
      BY <1>1, <1>2
<1>4. /\ v \in Seq(S \cup T) /\ Len(v) = a + b
      /\ \A i \in 1 .. a : v[i] = s[i]
      /\ \A i \in 1 .. b : v[a + i] = u[i]
      BY <1>3
<1>5. N[1] = k /\ N[a + b + 1] = n
      BY <1>1, <1>2, <1>3
<1>6. ASSUME NEW i \in 1 .. a + b PROVE Flow(v[i], N[i], N[i + 1], L, W)
  <2>1. CASE i <= a
    <3>1. i \in 1 .. a /\ v[i] = s[i] /\ N[i] = K[i]
          BY <1>3, <1>4, <2>1
    <3>2. N[i + 1] = K[i + 1]
          BY <1>1, <1>2, <1>3, <2>1
    <3>3. Flow(s[i], K[i], K[i + 1], L, W)
          BY <1>1, <3>1 DEF Flows
    <3> QED BY <3>1, <3>2, <3>3
  <2>2. CASE i > a
    <3> DEFINE j == i - a
    <3>1. j \in 1 .. b /\ a + j = i
          BY <1>3, <2>2
    <3>2. v[i] = u[j]
          BY <1>4, <3>1
    <3>3. N[i] = M[j] /\ N[i + 1] = M[j + 1]
          BY <1>3, <2>2
    <3>4. Flow(u[j], M[j], M[j + 1], L, W)
          BY <1>2, <3>1 DEF Flows
    <3> QED BY <3>2, <3>3, <3>4
  <2> QED BY <1>3, <2>1, <2>2
<1> HIDE DEF N, v, a, b
<1>7. v \in Seq(S \cup T) /\ N[1] = k /\ N[Len(v) + 1] = n /\ Flows(v, N, L, W)
      BY <1>4, <1>5, <1>6 DEF Flows
<1>8. Path(v, k, n, L, W)
      BY <1>7 DEF Path
<1> QED BY <1>8 DEF v

\* A path of one step.
LEMMA PathOne ==
    ASSUME NEW st, NEW k, NEW m, NEW L, NEW W, Flow(st, k, m, L, W)
    PROVE  Path(<<st>>, k, m, L, W)
<1> DEFINE K == [i \in 1 .. 2 |-> IF i = 1 THEN k ELSE m]
           s == <<st>>
<1>1. s \in Seq({st}) /\ Len(s) = 1 /\ s[1] = st /\ K[1] = k /\ K[2] = m
      OBVIOUS
<1> HIDE DEF s, K
<1>2. Flows(s, K, L, W)
      BY <1>1 DEF Flows
<1>3. Path(s, k, m, L, W)
      BY <1>1, <1>2 DEF Path
<1> QED BY <1>3 DEF s

\* Steps that change nothing of what is known, in any number and order.
LEMMA PathSame ==
    ASSUME NEW S, NEW s \in Seq(S), NEW k, NEW L, NEW W, \A st \in S : Flow(st, k, k, L, W)
    PROVE  Path(s, k, k, L, W)
<1> DEFINE K == [i \in 1 .. Len(s) + 1 |-> k]
<1>1. Len(s) \in Nat /\ \A i \in 1 .. Len(s) : s[i] \in S
      OBVIOUS
<1>2. /\ K[1] = k /\ K[Len(s) + 1] = k
      /\ \A i \in 1 .. Len(s) : K[i] = k /\ K[i + 1] = k
      BY <1>1
<1> HIDE DEF K
<1>3. Flows(s, K, L, W)
      BY <1>1, <1>2 DEF Flows
<1> QED BY <1>2, <1>3 DEF Path

\* A path over the whole body that delivers is a certificate.
LEMMA PathSound ==
    ASSUME NEW p, NEW k, NEW L, NEW W, Path(p.body, Nothing(W), k, L, W),
           Delivered(p, k.got, k.ofX)
    PROVE  Sound(p)
<1>1. PICK S, K : /\ p.body \in Seq(S) /\ K[1] = Nothing(W) /\ K[Len(p.body) + 1] = k
                  /\ Flows(p.body, K, L, W)
      BY DEF Path
<1> QED BY <1>1 DEF Cert, Sound

-----------------------------------------------------------------------------
(* Ladders.                                                                  *)

\* The steps of one kind, one for each array of a sequence.
LEMMA EachIsSeq ==
    ASSUME NEW S, NEW s \in Seq(S)
    PROVE  /\ Each(Pin, s) \in Seq({Pin(b) : b \in ToSet(s)})
           /\ Each(Alloc, s) \in Seq({Alloc(b) : b \in ToSet(s)})
           /\ Each(Put, s) \in Seq({Put(b) : b \in ToSet(s)})
           /\ Each(Get, s) \in Seq({Get(b) : b \in ToSet(s)})
<1>1. DOMAIN s = 1 .. Len(s) /\ Len(s) \in Nat /\ \A i \in DOMAIN s : s[i] \in ToSet(s)
      BY DEF ToSet
<1> HIDE DEF Pin, Alloc, Put, Get
<1> QED BY <1>1 DEF Each

\* Elements of a sequence are in its set.
LEMMA InToSet ==
    ASSUME NEW S, NEW s \in Seq(S)
    PROVE  /\ Len(s) \in Nat /\ DOMAIN s = 1 .. Len(s) /\ ToSet(s) \subseteq S
           /\ \A i \in 1 .. Len(s) : s[i] \in ToSet(s)
BY DEF ToSet

\* The registrations of a ladder change nothing that is known.
LEMMA PinsFlow ==
    ASSUME NEW S, NEW pins \in Seq(S), NEW k, NEW L, NEW W
    PROVE  Path(Each(Pin, pins), k, k, L, W)
<1> DEFINE Pins == {Pin(b) : b \in ToSet(pins)}
<1>1. Each(Pin, pins) \in Seq(Pins)
      BY EachIsSeq
<1>2. \A st \in Pins : st.op = "pin"
      BY DEF Pin
<1> HIDE DEF Pins
<1>3. \A st \in Pins : Flow(st, k, k, L, W)
      BY <1>2 DEF Flow, After, Weaker
<1> QED BY <1>1, <1>3, PathSame

\* What the first i of a list of buffers are.
First(s, i) == {s[j] : j \in 1 .. i}

\* The front of a sequence one longer.
LEMMA FirstIs ==
    ASSUME NEW S, NEW s \in Seq(S)
    PROVE  /\ First(s, 0) = {} /\ First(s, Len(s)) = ToSet(s)
           /\ \A i \in 1 .. Len(s) : First(s, i) = First(s, i - 1) \cup {s[i]}
<1>1. Len(s) \in Nat /\ DOMAIN s = 1 .. Len(s)
      OBVIOUS
<1>2. First(s, 0) = {} /\ First(s, Len(s)) = ToSet(s)
      BY <1>1 DEF First, ToSet
<1>3. ASSUME NEW i \in 1 .. Len(s) PROVE First(s, i) = First(s, i - 1) \cup {s[i]}
  <2>1. \A j : j \in 1 .. i <=> (j \in 1 .. i - 1 \/ j = i)
        BY <1>1
  <2> QED BY <2>1 DEF First
<1> QED BY <1>2, <1>3

\* The allocations of a ladder: it holds all its buffers.
LEMMA AllocsFlow ==
    ASSUME NEW S, NEW bufs \in Seq(S), NEW L, NEW W
    PROVE  Path(Each(Alloc, bufs), Nothing(W), At(ToSet(bufs), {}, {}, {}, W), L, W)
<1> DEFINE s == Each(Alloc, bufs)
           n == Len(bufs)
           K == [i \in 1 .. n + 1 |-> At(First(bufs, i - 1), {}, {}, {}, W)]
<1>1. n \in Nat /\ DOMAIN bufs = 1 .. n
      OBVIOUS
<1>2. s \in Seq({Alloc(b) : b \in ToSet(bufs)}) /\ s = [i \in 1 .. n |-> Alloc(bufs[i])]
      BY <1>1, EachIsSeq DEF Each
<1>3. Len(s) = n
      BY <1>1, <1>2
<1>0. First(bufs, 0) = {} /\ First(bufs, n) = ToSet(bufs)
      BY FirstIs
<1>4. K[1] = Nothing(W) /\ K[n + 1] = At(ToSet(bufs), {}, {}, {}, W)
  <2>1. /\ K[1] = At(First(bufs, 1 - 1), {}, {}, {}, W)
        /\ K[n + 1] = At(First(bufs, (n + 1) - 1), {}, {}, {}, W)
        BY <1>1
  <2>2. 1 - 1 = 0 /\ (n + 1) - 1 = n
        BY <1>1
  <2> HIDE DEF K, n, s
  <2> QED BY <1>0, <2>1, <2>2 DEF Nothing
<1>5. ASSUME NEW i \in 1 .. n PROVE Flow(s[i], K[i], K[i + 1], L, W)
  <2> DEFINE b == bufs[i]
  <2>0. s[i] = Alloc(bufs[i])
        BY <1>2
  <2> HIDE DEF s, K
  <2>1. s[i].op = "alloc" /\ s[i].buf = b
        BY <1>1, <2>0 DEF Alloc
  <2>2. K[i] = At(First(bufs, i - 1), {}, {}, {}, W)
        BY <1>1 DEF K
  <2>3. K[i + 1] = At(First(bufs, i - 1) \cup {b}, {}, {}, {}, W)
    <3>1. i + 1 \in 1 .. n + 1 /\ (i + 1) - 1 = i
          BY <1>1
    <3> QED BY <3>1, FirstIs DEF K
  <2> HIDE DEF b
  <2>4. After(s[i], K[i], W) = At(First(bufs, i - 1) \cup {b}, {} \ {b}, {}, {}, W)
        BY <2>1, <2>2 DEF After, At
  <2> QED BY <2>1, <2>3, <2>4 DEF Flow, Weaker, At
<1> HIDE DEF K, s, n
<1>6. Flows(s, K, L, W)
      BY <1>3, <1>5 DEF Flows
<1> QED BY <1>2, <1>3, <1>4, <1>6 DEF Path, s

\* The uploads of a ladder: what they fill has contents.
LEMMA PutsFlow ==
    ASSUME NEW S, NEW ups \in Seq(S), NEW B, ToSet(ups) \subseteq B, NEW L, NEW W
    PROVE  Path(Each(Put, ups), At(B, {}, {}, {}, W), At(B, ToSet(ups), {}, {}, W), L, W)
<1> DEFINE s == Each(Put, ups)
           n == Len(ups)
           K == [i \in 1 .. n + 1 |-> At(B, First(ups, i - 1), {}, {}, W)]
<1>1. n \in Nat /\ DOMAIN ups = 1 .. n /\ \A i \in 1 .. n : ups[i] \in ToSet(ups)
      BY DEF ToSet
<1>2. s \in Seq({Put(b) : b \in ToSet(ups)}) /\ s = [i \in 1 .. n |-> Put(ups[i])]
      BY <1>1, EachIsSeq DEF Each
<1>3. Len(s) = n
      BY <1>1, <1>2
<1>0. First(ups, 0) = {} /\ First(ups, n) = ToSet(ups)
      BY FirstIs
<1>4. K[1] = At(B, {}, {}, {}, W) /\ K[n + 1] = At(B, ToSet(ups), {}, {}, W)
  <2>1. /\ K[1] = At(B, First(ups, 1 - 1), {}, {}, W)
        /\ K[n + 1] = At(B, First(ups, (n + 1) - 1), {}, {}, W)
        BY <1>1
  <2>2. 1 - 1 = 0 /\ (n + 1) - 1 = n
        BY <1>1
  <2> HIDE DEF K, n, s
  <2> QED BY <1>0, <2>1, <2>2
<1>5. ASSUME NEW i \in 1 .. n PROVE Flow(s[i], K[i], K[i + 1], L, W)
  <2> DEFINE b == ups[i]
             R == First(ups, i - 1)
  <2>0. s[i] = Put(ups[i])
        BY <1>2
  <2> HIDE DEF s, K
  <2>1. s[i].op = "do" /\ s[i].reads = {} /\ s[i].writes = {b} /\ b \in B
        BY <1>1, <2>0 DEF Put, Do
  <2>2. K[i] = At(B, R, {}, {}, W)
        BY <1>1 DEF K
  <2>3. K[i + 1] = At(B, R \cup {b}, {}, {}, W)
    <3>1. i + 1 \in 1 .. n + 1 /\ (i + 1) - 1 = i
          BY <1>1
    <3> QED BY <3>1, FirstIs DEF K
  <2> HIDE DEF b, R
  <2>4. After(s[i], K[i], W) = AfterWrite(s[i], K[i], W)
        BY <2>1 DEF After
  <2> DEFINE a == AfterWrite(s[i], K[i], W)
  <2>5. ~ReadsOld(s[i], K[i]) /\ ~ReadsX(s[i], K[i])
        BY <2>1 DEF ReadsOld, ReadsX
  <2>6. /\ a.dev = B /\ a.ready = R \cup {b} /\ a.got = {} /\ a.ofX = {}
        /\ a.old \subseteq W
        BY <2>1, <2>2, <2>5 DEF AfterWrite, At
  <2> HIDE DEF a
  <2>7. Weaker(K[i + 1], a)
        BY <2>3, <2>6 DEF Weaker, At
  <2> QED BY <2>1, <2>2, <2>4, <2>7 DEF Flow, At, a
<1> HIDE DEF K, s, n
<1>6. Flows(s, K, L, W)
      BY <1>3, <1>5 DEF Flows
<1> QED BY <1>2, <1>3, <1>4, <1>6 DEF Path, s

\* The downloads of a ladder: the results are at the host.
LEMMA GetsFlow ==
    ASSUME NEW S, NEW gets \in Seq(S), NEW B, NEW R, ToSet(gets) \subseteq R,
           NEW X, NEW O, NEW L, NEW W
    PROVE  Path(Each(Get, gets), At(B, R, {}, X, O), At(B, R, ToSet(gets), X, O), L, W)
<1> DEFINE s == Each(Get, gets)
           n == Len(gets)
           K == [i \in 1 .. n + 1 |-> At(B, R, First(gets, i - 1), X, O)]
<1>1. n \in Nat /\ DOMAIN gets = 1 .. n /\ \A i \in 1 .. n : gets[i] \in ToSet(gets)
      BY DEF ToSet
<1>2. s \in Seq({Get(b) : b \in ToSet(gets)}) /\ s = [i \in 1 .. n |-> Get(gets[i])]
      BY <1>1, EachIsSeq DEF Each
<1>3. Len(s) = n
      BY <1>1, <1>2
<1>0. First(gets, 0) = {} /\ First(gets, n) = ToSet(gets)
      BY FirstIs
<1>4. K[1] = At(B, R, {}, X, O) /\ K[n + 1] = At(B, R, ToSet(gets), X, O)
  <2>1. /\ K[1] = At(B, R, First(gets, 1 - 1), X, O)
        /\ K[n + 1] = At(B, R, First(gets, (n + 1) - 1), X, O)
        BY <1>1
  <2>2. 1 - 1 = 0 /\ (n + 1) - 1 = n
        BY <1>1
  <2> HIDE DEF K, n, s
  <2> QED BY <1>0, <2>1, <2>2
<1>5. ASSUME NEW i \in 1 .. n PROVE Flow(s[i], K[i], K[i + 1], L, W)
  <2> DEFINE b == gets[i]
             G == First(gets, i - 1)
  <2>0. s[i] = Get(gets[i])
        BY <1>2
  <2> HIDE DEF s, K
  <2>1. s[i].op = "get" /\ s[i].buf = b /\ b \in R
        BY <1>1, <2>0 DEF Get
  <2>2. K[i] = At(B, R, G, X, O)
        BY <1>1 DEF K
  <2>3. K[i + 1] = At(B, R, G \cup {b}, X, O)
    <3>1. i + 1 \in 1 .. n + 1 /\ (i + 1) - 1 = i
          BY <1>1
    <3> QED BY <3>1, FirstIs DEF K
  <2> HIDE DEF b, G
  <2>4. After(s[i], K[i], W) = At(B, R, G \cup {b}, X, O)
        BY <2>1, <2>2 DEF After, At
  <2> QED BY <2>1, <2>2, <2>3, <2>4 DEF Flow, Weaker, At
<1> HIDE DEF K, s, n
<1>6. Flows(s, K, L, W)
      BY <1>3, <1>5 DEF Flows
<1> QED BY <1>2, <1>3, <1>4, <1>6 DEF Path, s

\* A ladder is as sound as what it does between its uploads and downloads.
LEMMA LadderFlows ==
    ASSUME NEW S, NEW pins \in Seq(S), NEW bufs \in Seq(S), NEW ups \in Seq(S),
           NEW gets \in Seq(S), NEW outs, NEW main, ToSet(ups) \subseteq ToSet(bufs),
           NEW D, NEW R, NEW X, NEW O, NEW L, NEW W,
           Path(main, At(ToSet(bufs), ToSet(ups), {}, {}, W), At(D, R, {}, X, O), L, W),
           ToSet(gets) \subseteq R
    PROVE  Path(Ladder(pins, bufs, ups, main, gets, outs).body, Nothing(W),
                At(D, R, ToSet(gets), X, O), L, W)
<1> DEFINE a == Each(Pin, pins)
           b == Each(Alloc, bufs)
           c == Each(Put, ups)
           d == Each(Get, gets)
           k0 == Nothing(W)
           k1 == At(ToSet(bufs), {}, {}, {}, W)
           k2 == At(ToSet(bufs), ToSet(ups), {}, {}, W)
           k3 == At(D, R, {}, X, O)
           k4 == At(D, R, ToSet(gets), X, O)
<1>1. Path(a, k0, k0, L, W)
      BY PinsFlow
<1>2. Path(b, k0, k1, L, W)
      BY AllocsFlow
<1>3. Path(c, k1, k2, L, W)
      BY PutsFlow
<1>4. Path(d, k3, k4, L, W)
      BY GetsFlow
<1>5. Path(main, k2, k3, L, W)
      OBVIOUS
<1>6. Ladder(pins, bufs, ups, main, gets, outs).body = (((a \o b) \o c) \o main) \o d
      BY DEF Ladder, Bridge
<1> HIDE DEF a, b, c, d, k0, k1, k2, k3, k4
<1>7. Path(a \o b, k0, k1, L, W)
      BY <1>1, <1>2, PathCat
<1>8. Path((a \o b) \o c, k0, k2, L, W)
      BY <1>3, <1>7, PathCat
<1>9. Path(((a \o b) \o c) \o main, k0, k3, L, W)
      BY <1>5, <1>8, PathCat
<1>10. Path((((a \o b) \o c) \o main) \o d, k0, k4, L, W)
      BY <1>4, <1>9, PathCat
<1>11. Path(Ladder(pins, bufs, ups, main, gets, outs).body, k0, k4, L, W)
      BY <1>6, <1>10
<1> QED BY <1>11 DEF k0, k4

-----------------------------------------------------------------------------
(* The steps between uploads and downloads, where residuals do not matter.   *)

\* All memory of B is there, that in R with contents.
State(B, R, W) == At(B, R, {}, {}, W)

\* One write between states that say nothing of downloads or x.
LEMMA WriteFlows ==
    ASSUME NEW B, NEW R, NEW W, NEW L, NEW st, st.op \in {"do", "launch"},
           st.reads \subseteq R, st.writes \subseteq B, st.writes \subseteq W \cup {"x"},
           NEW Q, Q \subseteq R \cup st.writes
    PROVE  Flow(st, State(B, R, W), State(B, Q, W), L, W)
<1> DEFINE k == State(B, R, W)
           a == AfterWrite(st, k, W)
<1>1. k.dev = B /\ k.ready = R /\ k.got = {} /\ k.ofX = {} /\ k.old = W
      BY DEF State, At
<1> HIDE DEF k
<1>2. a.dev = B /\ a.ready = R \cup st.writes /\ a.got = {} /\ a.old \subseteq W
      BY <1>1 DEF AfterWrite, At
<1>3. After(st, k, W) = a
      BY DEF After
<1> HIDE DEF a
<1>4. Weaker(State(B, Q, W), a)
      BY <1>2 DEF Weaker, State, At
<1> QED BY <1>1, <1>3, <1>4 DEF Flow, k

\* A step that finds all it needs in R and adds nothing to it.
Easy(st, B, R, L, W) ==
    /\ st.op \in {"do", "launch", "get", "label", "jump", "query", "bare_query", "host"}
    /\ st.op \in {"do", "launch"} =>
           /\ st.reads \subseteq R /\ st.writes \subseteq B
           /\ st.writes \subseteq W \cup {"x"}
    /\ st.op = "get" => st.buf \in R
    /\ st.op = "label" => st.name \in DOMAIN L /\ L[st.name] = State(B, R, W)
    /\ st.op = "jump" =>
           \A l \in st.to : l \in DOMAIN L /\ \E Q \in SUBSET R : L[l] = State(B, Q, W)

\* An easy step loses nothing that a state says.
LEMMA EasyFlows ==
    ASSUME NEW B, NEW R, NEW W, NEW L, NEW st, Easy(st, B, R, L, W)
    PROVE  Flow(st, State(B, R, W), State(B, R, W), L, W)
<1> DEFINE k == State(B, R, W)
<1>1. CASE st.op \in {"do", "launch"}
      BY <1>1, WriteFlows DEF Easy
<1>2. CASE st.op = "get"
  <2>1. After(st, k, W) = At(B, R, {st.buf}, {}, W)
        BY <1>2 DEF After, State, At
  <2>2. Weaker(k, After(st, k, W))
        BY <2>1 DEF Weaker, State, At
  <2>3. st.buf \in k.ready
        BY <1>2 DEF Easy, State, At
  <2> QED BY <1>2, <2>2, <2>3 DEF Flow
<1>3. CASE st.op \in {"label", "query", "bare_query", "host"}
  <2>1. After(st, k, W) = k
        BY <1>3 DEF After
  <2> QED BY <1>3, <2>1 DEF Flow, Weaker, Easy
<1>4. CASE st.op = "jump"
  <2>1. ASSUME NEW l \in st.to PROVE l \in DOMAIN L /\ Weaker(L[l], k)
    <3>1. PICK Q \in SUBSET R : L[l] = State(B, Q, W)
          BY <1>4 DEF Easy
    <3> QED BY <1>4, <3>1 DEF Easy, Weaker, State, At
  <2> QED BY <1>4, <2>1 DEF Flow
<1> QED BY <1>1, <1>2, <1>3, <1>4 DEF Easy

\* A sequence of easy steps leads from a state to itself.
LEMMA EasyPath ==
    ASSUME NEW B, NEW R, NEW W, NEW L, NEW S, NEW s \in Seq(S),
           \A st \in S : Easy(st, B, R, L, W)
    PROVE  Path(s, State(B, R, W), State(B, R, W), L, W)
<1>1. \A st \in S : Flow(st, State(B, R, W), State(B, R, W), L, W)
      BY EasyFlows
<1> QED BY <1>1, PathSame

\* A path of one write.
LEMMA WritePath ==
    ASSUME NEW B, NEW R, NEW W, NEW L, NEW r, r \subseteq R,
           NEW w, w \subseteq B, w \subseteq W \cup {"x"}
    PROVE  /\ Path(<<Launch(r, w)>>, State(B, R, W), State(B, R \cup w, W), L, W)
           /\ Path(<<Do(r, w)>>, State(B, R, W), State(B, R \cup w, W), L, W)
<1>1. ASSUME NEW st \in {Launch(r, w), Do(r, w)}
      PROVE  Flow(st, State(B, R, W), State(B, R \cup w, W), L, W)
  <2>1. st.op \in {"do", "launch"} /\ st.reads = r /\ st.writes = w
        BY DEF Launch, Do
  <2> QED BY <2>1, WriteFlows
<1> QED BY <1>1, PathOne

\* Positions of a concatenation.
LEMMA CatIs ==
    ASSUME NEW S, NEW s \in Seq(S), NEW u \in Seq(S)
    PROVE  /\ s \o u \in Seq(S) /\ Len(s \o u) = Len(s) + Len(u)
           /\ \A i \in 1 .. Len(s) : (s \o u)[i] = s[i]
           /\ \A i \in 1 .. Len(u) : (s \o u)[Len(s) + i] = u[i]
OBVIOUS

\* s is one element, and p is that and then u.
Shifted(s, u, p) ==
    /\ Len(s) = 1 /\ Len(p) = Len(u) + 1 /\ p[1] = s[1]
    /\ \A i \in 2 .. Len(u) + 1 : p[i] = u[i - 1]

\* A sequence is its first element before the others.
LEMMA PrefixIs ==
    ASSUME NEW S, NEW s \in Seq(S), NEW u \in Seq(S), NEW p \in Seq(S), Shifted(s, u, p)
    PROVE  s \o u = p
<1> DEFINE v == s \o u
<1>1. /\ v \in Seq(S) /\ Len(v) = Len(s) + Len(u)
      /\ \A i \in 1 .. Len(s) : v[i] = s[i]
      /\ \A i \in 1 .. Len(u) : v[Len(s) + i] = u[i]
      BY CatIs
<1> HIDE DEF v
<1>2. Len(u) \in Nat /\ Len(v) = Len(p) /\ Len(p) = Len(u) + 1 /\ Len(s) = 1
      BY <1>1 DEF Shifted
<1>3. ASSUME NEW i \in 1 .. Len(p) PROVE v[i] = p[i]
  <2>1. CASE i = 1
        BY <1>1, <2>1 DEF Shifted
  <2>2. CASE i # 1
    <3>1. i \in 2 .. Len(u) + 1 /\ i - 1 \in 1 .. Len(u) /\ Len(s) + (i - 1) = i
          BY <1>2, <2>2
    <3>2. v[Len(s) + (i - 1)] = u[i - 1]
          BY <1>1, <3>1
    <3> QED BY <3>1, <3>2 DEF Shifted
  <2> QED BY <2>1, <2>2
<1>4. v = p
      BY <1>1, <1>2, <1>3
<1> QED BY <1>4 DEF v

\* One element in front of a short list.
LEMMA Prefixed ==
    /\ \A a, b : <<a>> \o <<b>> = <<a, b>>
    /\ \A a, b, c : <<a>> \o <<b, c>> = <<a, b, c>>
    /\ \A a, b, c, d : <<a>> \o <<b, c, d>> = <<a, b, c, d>>
    /\ \A a, b, c, d, e : <<a>> \o <<b, c, d, e>> = <<a, b, c, d, e>>
<1>1. ASSUME NEW a, NEW b
      PROVE  <<a>> \o <<b>> = <<a, b>>
  <2> DEFINE s == <<a>>
             u == <<b>>
             p == <<a, b>>
             S == {a, b}
  <2>1. /\ s \in Seq(S) /\ Len(s) = 1 /\ s[1] = a
        /\ u \in Seq(S) /\ Len(u) = 1 /\ u[1] = b
        /\ p \in Seq(S) /\ Len(p) = 2 /\ p[1] = a /\ p[2] = b
        OBVIOUS
  <2> HIDE DEF s, u, p, S
  <2>2. Shifted(s, u, p)
        BY <2>1 DEF Shifted
  <2>3. /\ s \in Seq(S) /\ u \in Seq(S) /\ p \in Seq(S)
        BY <2>1
  <2>4. s \o u = p
        BY <2>2, <2>3, PrefixIs
  <2> QED BY <2>4 DEF s, u, p
<1>2. ASSUME NEW a, NEW b, NEW c
      PROVE  <<a>> \o <<b, c>> = <<a, b, c>>
  <2> DEFINE s == <<a>>
             u == <<b, c>>
             p == <<a, b, c>>
             S == {a, b, c}
  <2>1. /\ s \in Seq(S) /\ Len(s) = 1 /\ s[1] = a
        /\ u \in Seq(S) /\ Len(u) = 2 /\ u[1] = b /\ u[2] = c
        /\ p \in Seq(S) /\ Len(p) = 3 /\ p[1] = a /\ p[2] = b /\ p[3] = c
        OBVIOUS
  <2> HIDE DEF s, u, p, S
  <2>2. Shifted(s, u, p)
        BY <2>1 DEF Shifted
  <2>3. /\ s \in Seq(S) /\ u \in Seq(S) /\ p \in Seq(S)
        BY <2>1
  <2>4. s \o u = p
        BY <2>2, <2>3, PrefixIs
  <2> QED BY <2>4 DEF s, u, p
<1>3. ASSUME NEW a, NEW b, NEW c, NEW d
      PROVE  <<a>> \o <<b, c, d>> = <<a, b, c, d>>
  <2> DEFINE s == <<a>>
             u == <<b, c, d>>
             p == <<a, b, c, d>>
             S == {a, b, c, d}
  <2>1. /\ s \in Seq(S) /\ Len(s) = 1 /\ s[1] = a
        /\ u \in Seq(S) /\ Len(u) = 3 /\ u[1] = b /\ u[2] = c /\ u[3] = d
        /\ p \in Seq(S) /\ Len(p) = 4 /\ p[1] = a /\ p[2] = b /\ p[3] = c /\ p[4] = d
        OBVIOUS
  <2> HIDE DEF s, u, p, S
  <2>2. Shifted(s, u, p)
        BY <2>1 DEF Shifted
  <2>3. /\ s \in Seq(S) /\ u \in Seq(S) /\ p \in Seq(S)
        BY <2>1
  <2>4. s \o u = p
        BY <2>2, <2>3, PrefixIs
  <2> QED BY <2>4 DEF s, u, p
<1>4. ASSUME NEW a, NEW b, NEW c, NEW d, NEW e
      PROVE  <<a>> \o <<b, c, d, e>> = <<a, b, c, d, e>>
  <2> DEFINE s == <<a>>
             u == <<b, c, d, e>>
             p == <<a, b, c, d, e>>
             S == {a, b, c, d, e}
  <2>1. /\ s \in Seq(S) /\ Len(s) = 1 /\ s[1] = a
        /\ u \in Seq(S) /\ Len(u) = 4 /\ u[1] = b /\ u[2] = c /\ u[3] = d /\ u[4] = e
        /\ p \in Seq(S) /\ Len(p) = 5 /\ p[1] = a /\ p[2] = b /\ p[3] = c /\ p[4] = d /\ p[5] = e
        OBVIOUS
  <2> HIDE DEF s, u, p, S
  <2>2. Shifted(s, u, p)
        BY <2>1 DEF Shifted
  <2>3. /\ s \in Seq(S) /\ u \in Seq(S) /\ p \in Seq(S)
        BY <2>1
  <2>4. s \o u = p
        BY <2>2, <2>3, PrefixIs
  <2> QED BY <2>4 DEF s, u, p
<1> QED BY <1>1, <1>2, <1>3, <1>4

\* A kernel fills what it writes.
LEMMA KernelPath ==
    ASSUME NEW B, NEW R, NEW W, NEW L, NEW r, r \subseteq R,
           NEW w, w \subseteq B, w \subseteq W \cup {"x"}
    PROVE  Path(Kernel(r, w), State(B, R, W), State(B, R \cup w, W), L, W)
<1> DEFINE a == Launch(r, w)
           k == State(B, R, W)
           m == State(B, R \cup w, W)
<1>1. Path(<<a>>, k, m, L, W)
      BY WritePath
<1>2. Path(<<Sync>>, m, m, L, W)
  <2>1. (R \cup w) \cup {} = R \cup w /\ {} \subseteq R \cup w /\ {} \subseteq B
        OBVIOUS
  <2>2. Path(<<Do({}, {})>>, m, State(B, (R \cup w) \cup {}, W), L, W)
        BY <2>1, WritePath
  <2> QED BY <2>1, <2>2 DEF Sync
<1> HIDE DEF a, k, m
<1>3. Path(<<a>> \o <<Sync>>, k, m, L, W)
      BY <1>1, <1>2, PathCat
<1>4. <<a>> \o <<Sync>> = <<a, Sync>>
      BY Prefixed
<1>5. Kernel(r, w) = <<a, Sync>>
      BY DEF Kernel, a
<1> QED BY <1>3, <1>4, <1>5 DEF k, m

\* A query changes nothing that is known.
LEMMA QueryPath ==
    ASSUME NEW q, q.op \in {"query", "bare_query", "host"}, NEW k, NEW L, NEW W
    PROVE  Path(<<q>>, k, k, L, W)
<1>1. Flow(q, k, k, L, W)
      BY DEF Flow, After, Weaker
<1> QED BY <1>1, PathOne

\* The two forms of the attribute query.
LEMMA QueryOps == Query.op = "query" /\ BareQuery.op = "bare_query"
BY DEF Query, BareQuery

\* A ladder that reports no residual.
LEMMA LadderSound ==
    ASSUME NEW S, NEW pins \in Seq(S), NEW bufs \in Seq(S), NEW ups \in Seq(S),
           NEW gets \in Seq(S), NEW outs, NEW main, ToSet(ups) \subseteq ToSet(bufs),
           NEW D, NEW R, NEW L, NEW O, NEW W, NEW X,
           Path(main, At(ToSet(bufs), ToSet(ups), {}, {}, W), At(D, R, {}, X, O), L, W),
           ToSet(gets) \subseteq R, outs \subseteq ToSet(gets)
    PROVE  /\ Sound(Ladder(pins, bufs, ups, main, gets, outs))
           /\ Sound(Sized(Ladder(pins, bufs, ups, main, gets, outs)))
<1> DEFINE p == Ladder(pins, bufs, ups, main, gets, outs)
           k == At(D, R, ToSet(gets), X, O)
<1>1. Path(p.body, Nothing(W), k, L, W)
      BY LadderFlows
<1>2. p.outs = outs /\ p.resid = "none"
      BY DEF Ladder, Bridge
<1>3. k.got = ToSet(gets)
      BY DEF At
<1>4. Sized(p).body = <<Query>> \o p.body /\ Sized(p).outs = outs /\ Sized(p).resid = "none"
      BY DEF Sized, Ladder, Bridge
<1> HIDE DEF p, k
<1>5. Sound(p)
      BY <1>1, <1>2, <1>3, PathSound DEF Delivered
<1>6. Path(<<Query>> \o p.body, Nothing(W), k, L, W)
      BY <1>1, QueryPath, QueryOps, PathCat
<1>7. Sound(Sized(p))
      BY <1>3, <1>4, <1>6, PathSound DEF Delivered
<1> QED BY <1>5, <1>7 DEF p

\* The set of a concatenation.
LEMMA ToSetCat ==
    ASSUME NEW S, NEW s \in Seq(S), NEW u \in Seq(S)
    PROVE  s \o u \in Seq(S) /\ ToSet(s \o u) = ToSet(s) \cup ToSet(u)
<1> DEFINE a == Len(s)
           b == Len(u)
           v == s \o u
<1>1. /\ a \in Nat /\ b \in Nat /\ v \in Seq(S) /\ Len(v) = a + b
      /\ DOMAIN s = 1 .. a /\ DOMAIN u = 1 .. b /\ DOMAIN v = 1 .. a + b
      /\ \A i \in 1 .. a : v[i] = s[i]
      /\ \A i \in 1 .. b : v[a + i] = u[i]
      OBVIOUS
<1>2. ASSUME NEW i \in 1 .. a + b PROVE v[i] \in ToSet(s) \cup ToSet(u)
  <2>1. CASE i <= a
        BY <1>1, <2>1 DEF ToSet
  <2>2. CASE i > a
    <3>1. i - a \in 1 .. b /\ a + (i - a) = i
          BY <1>1, <2>2
    <3> QED BY <1>1, <3>1 DEF ToSet
  <2> QED BY <1>1, <2>1, <2>2
<1>3. ASSUME NEW i \in 1 .. a PROVE s[i] \in ToSet(v)
  <2>1. i \in 1 .. a + b
        BY <1>1
  <2> QED BY <1>1, <2>1 DEF ToSet
<1>4. ASSUME NEW i \in 1 .. b PROVE u[i] \in ToSet(v)
  <2>1. a + i \in 1 .. a + b
        BY <1>1
  <2> QED BY <1>1, <2>1 DEF ToSet
<1> HIDE DEF v
<1>5. ToSet(v) \subseteq ToSet(s) \cup ToSet(u)
  <2>1. ASSUME NEW x \in ToSet(v) PROVE x \in ToSet(s) \cup ToSet(u)
    <3>1. PICK i \in 1 .. a + b : x = v[i]
          BY <1>1 DEF ToSet
    <3> QED BY <1>2, <3>1
  <2> QED BY <2>1
<1>6. ToSet(s) \subseteq ToSet(v)
      BY <1>1, <1>3 DEF ToSet
<1>7. ToSet(u) \subseteq ToSet(v)
      BY <1>1, <1>4 DEF ToSet
<1>8. ToSet(v) = ToSet(s) \cup ToSet(u)
      BY <1>5, <1>6, <1>7
<1> QED BY <1>1, <1>8 DEF v

\* A list of buffers.
Listed(s) == s \in Seq(ToSet(s))

\* The short lists the bridges are written with, and their sets.
LEMMA ListOf ==
    /\ Listed(<<>>) /\ ToSet(<<>>) = {}
    /\ \A a : Listed(<<a>>) /\ ToSet(<<a>>) = {a}
    /\ \A a, b : Listed(<<a, b>>) /\ ToSet(<<a, b>>) = {a, b}
    /\ \A a, b, c : Listed(<<a, b, c>>) /\ ToSet(<<a, b, c>>) = {a, b, c}
    /\ \A a, b, c, d : Listed(<<a, b, c, d>>) /\ ToSet(<<a, b, c, d>>) = {a, b, c, d}
    /\ \A a, b, c, d, e :
          Listed(<<a, b, c, d, e>>) /\ ToSet(<<a, b, c, d, e>>) = {a, b, c, d, e}
    /\ \A a, b, c, d, e, f, g :
          /\ Listed(<<a, b, c, d, e, f, g>>)
          /\ ToSet(<<a, b, c, d, e, f, g>>) = {a, b, c, d, e, f, g}
    /\ \A a, b, c, d, e, f :
          Listed(<<a, b, c, d, e, f>>) /\ ToSet(<<a, b, c, d, e, f>>) = {a, b, c, d, e, f}
    /\ \A a, b, c, d, e, f, g, h :
          /\ Listed(<<a, b, c, d, e, f, g, h>>)
          /\ ToSet(<<a, b, c, d, e, f, g, h>>) = {a, b, c, d, e, f, g, h}
<1>1. Listed(<<>>) /\ ToSet(<<>>) = {}
      BY DEF ToSet, Listed
<1>2. ASSUME NEW a PROVE Listed(<<a>>) /\ ToSet(<<a>>) = {a}
  <2> DEFINE s == <<a>>
  <2>1. s \in Seq({a})
        OBVIOUS
  <2>2. ToSet(s) = {a}
        BY DEF ToSet
  <2> QED BY <2>1, <2>2 DEF Listed
<1>3. ASSUME NEW a, NEW b PROVE Listed(<<a, b>>) /\ ToSet(<<a, b>>) = {a, b}
  <2> DEFINE s == <<a, b>>
  <2>1. s \in Seq({a, b})
        OBVIOUS
  <2>2. ToSet(s) = {a, b}
        BY DEF ToSet
  <2> QED BY <2>1, <2>2 DEF Listed
<1>4. ASSUME NEW a, NEW b, NEW c PROVE Listed(<<a, b, c>>) /\ ToSet(<<a, b, c>>) = {a, b, c}
  <2> DEFINE s == <<a, b, c>>
  <2>1. s \in Seq({a, b, c})
        OBVIOUS
  <2>2. ToSet(s) = {a, b, c}
        BY DEF ToSet
  <2> QED BY <2>1, <2>2 DEF Listed
<1>5. ASSUME NEW a, NEW b, NEW c, NEW d
      PROVE  /\ Listed(<<a, b, c, d>>)
             /\ ToSet(<<a, b, c, d>>) = {a, b, c, d}
  <2> DEFINE s == <<a, b, c, d>>
  <2>1. s \in Seq({a, b, c, d})
        OBVIOUS
  <2>2. ToSet(s) = {a, b, c, d}
        BY DEF ToSet
  <2> QED BY <2>1, <2>2 DEF Listed
<1>6. ASSUME NEW a, NEW b, NEW c, NEW d, NEW e
      PROVE  /\ Listed(<<a, b, c, d, e>>)
             /\ ToSet(<<a, b, c, d, e>>) = {a, b, c, d, e}
  <2> DEFINE s == <<a, b, c, d, e>>
  <2>1. s \in Seq({a, b, c, d, e})
        OBVIOUS
  <2>2. ToSet(s) = {a, b, c, d, e}
        BY DEF ToSet
  <2> QED BY <2>1, <2>2 DEF Listed
<1>7. ASSUME NEW a, NEW b, NEW c, NEW d, NEW e, NEW f, NEW g
      PROVE  /\ Listed(<<a, b, c, d, e, f, g>>)
             /\ ToSet(<<a, b, c, d, e, f, g>>) = {a, b, c, d, e, f, g}
  <2> DEFINE s == <<a, b, c, d, e, f, g>>
  <2>1. s \in Seq({a, b, c, d, e, f, g})
        OBVIOUS
  <2>2. ToSet(s) = {a, b, c, d, e, f, g}
        BY DEF ToSet
  <2> QED BY <2>1, <2>2 DEF Listed
<1>8. ASSUME NEW a, NEW b, NEW c, NEW d, NEW e, NEW f
      PROVE  /\ Listed(<<a, b, c, d, e, f>>)
             /\ ToSet(<<a, b, c, d, e, f>>) = {a, b, c, d, e, f}
  <2> DEFINE s == <<a, b, c, d, e, f>>
  <2>1. s \in Seq({a, b, c, d, e, f})
        OBVIOUS
  <2>2. ToSet(s) = {a, b, c, d, e, f}
        BY DEF ToSet
  <2> QED BY <2>1, <2>2 DEF Listed
<1>9. ASSUME NEW a, NEW b, NEW c, NEW d, NEW e, NEW f, NEW g, NEW h
      PROVE  /\ Listed(<<a, b, c, d, e, f, g, h>>)
             /\ ToSet(<<a, b, c, d, e, f, g, h>>) = {a, b, c, d, e, f, g, h}
  <2> DEFINE s == <<a, b, c, d, e, f, g, h>>
  <2>1. s \in Seq({a, b, c, d, e, f, g, h})
        OBVIOUS
  <2>2. ToSet(s) = {a, b, c, d, e, f, g, h}
        BY DEF ToSet
  <2> QED BY <2>1, <2>2 DEF Listed
<1> QED BY <1>1, <1>2, <1>3, <1>4, <1>5, <1>6, <1>7, <1>8, <1>9

\* Listed sequences concatenate.
LEMMA ListedCat ==
    ASSUME NEW s, NEW u, Listed(s), Listed(u)
    PROVE  Listed(s \o u) /\ ToSet(s \o u) = ToSet(s) \cup ToSet(u)
<1> DEFINE S == ToSet(s) \cup ToSet(u)
<1>1. s \in Seq(S) /\ u \in Seq(S)
      BY DEF Listed
<1> QED BY <1>1, ToSetCat DEF Listed

\* A ladder whose steps between uploads and downloads fill R, in the forms the
\* bridges give it.
LEMMA MainLadder ==
    ASSUME NEW pins, Listed(pins), NEW bufs, Listed(bufs), NEW ups, Listed(ups),
           NEW gets, Listed(gets), NEW outs, ToSet(ups) \subseteq ToSet(bufs),
           NEW main, NEW L, NEW W, NEW R, ToSet(gets) \subseteq R, outs \subseteq ToSet(gets),
           Path(main, State(ToSet(bufs), ToSet(ups), W), State(ToSet(bufs), R, W), L, W)
    PROVE  /\ Sound(Ladder(pins, bufs, ups, main, gets, outs))
           /\ Sound(Sized(Ladder(pins, bufs, ups, main, gets, outs)))
<1> DEFINE B == ToSet(bufs)
           S == ToSet(pins) \cup B \cup ToSet(ups) \cup ToSet(gets)
<1>1. pins \in Seq(S) /\ bufs \in Seq(S) /\ ups \in Seq(S) /\ gets \in Seq(S)
      BY DEF Listed
<1>2. Path(main, At(ToSet(bufs), ToSet(ups), {}, {}, W), At(B, R, {}, {}, W), L, W)
      BY DEF State
<1> HIDE DEF B, S
<1> QED BY <1>1, <1>2, LadderSound

\* One kernel, from what was uploaded to what is downloaded.
LEMMA KernelLadder ==
    ASSUME NEW pins, Listed(pins), NEW bufs, Listed(bufs), NEW ups, Listed(ups),
           NEW gets, Listed(gets), NEW outs, ToSet(ups) \subseteq ToSet(bufs),
           NEW r, r \subseteq ToSet(ups), NEW w, w \subseteq ToSet(bufs),
           ToSet(gets) \subseteq ToSet(ups) \cup w, outs \subseteq ToSet(gets)
    PROVE  /\ Sound(Ladder(pins, bufs, ups, Kernel(r, w), gets, outs))
           /\ Sound(Ladder(pins, bufs, ups, <<Query>> \o Kernel(r, w), gets, outs))
           /\ Sound(Ladder(pins, bufs, ups, <<BareQuery>> \o Kernel(r, w), gets, outs))
<1> DEFINE B == ToSet(bufs)
           k == State(B, ToSet(ups), B)
           m == State(B, ToSet(ups) \cup w, B)
           L == <<>>
<1>1. Path(Kernel(r, w), k, m, L, B)
      BY KernelPath
<1>2. Path(<<Query>>, k, k, L, B) /\ Path(<<BareQuery>>, k, k, L, B)
      BY QueryPath, QueryOps
<1> HIDE DEF k, m, L
<1>3. /\ Path(<<Query>> \o Kernel(r, w), k, m, L, B)
      /\ Path(<<BareQuery>> \o Kernel(r, w), k, m, L, B)
      BY <1>1, <1>2, PathCat
<1>4. ASSUME NEW main, Path(main, k, m, L, B)
      PROVE  Sound(Ladder(pins, bufs, ups, main, gets, outs))
      BY <1>4, MainLadder DEF k, m
<1> QED BY <1>1, <1>3, <1>4

-----------------------------------------------------------------------------
(* The bridges.                                                              *)

\* From one array to another.
LEMMA OneToOne ==
    ASSUME NEW pins, Listed(pins), NEW a, NEW b
    PROVE  /\ Sound(Ladder(pins, <<a, b>>, <<a>>, Kernel({a}, {b}), <<b>>, {b}))
           /\ Sound(Ladder(pins, <<a, b>>, <<a>>, <<Query>> \o Kernel({a}, {b}), <<b>>, {b}))
<1>1. /\ Listed(<<a, b>>) /\ Listed(<<a>>) /\ Listed(<<b>>)
      /\ ToSet(<<a, b>>) = {a, b} /\ ToSet(<<a>>) = {a} /\ ToSet(<<b>>) = {b}
      BY ListOf
<1> QED BY <1>1, KernelLadder

\* From two arrays to a third.
LEMMA TwoToOne ==
    ASSUME NEW pins, Listed(pins), NEW a, NEW b, NEW c
    PROVE  /\ Sound(Ladder(pins, <<a, b, c>>, <<a, b>>, Kernel({a, b}, {c}), <<c>>, {c}))
           /\ Sound(Ladder(pins, <<a, b, c>>, <<a, b>>,
                           <<Query>> \o Kernel({a, b}, {c}), <<c>>, {c}))
<1>1. /\ Listed(<<a, b, c>>) /\ Listed(<<a, b>>) /\ Listed(<<c>>)
      /\ ToSet(<<a, b, c>>) = {a, b, c} /\ ToSet(<<a, b>>) = {a, b} /\ ToSet(<<c>>) = {c}
      BY ListOf
<1> QED BY <1>1, KernelLadder

\* The bridges that are a ladder around one kernel with one result.
LEMMA OneKernelBridges ==
    /\ Sound(haar_dwt_batch) /\ Sound(fft_batch) /\ Sound(black_scholes_batch)
    /\ Sound(bs_greeks_batch) /\ Sound(bs_extended_greeks_batch)
    /\ Sound(sobol_batch) /\ Sound(halton_batch)
    /\ Sound(poly_eval) /\ Sound(batched_matmul) /\ Sound(strategy_grid)
    /\ Sound(futures_grid) /\ Sound(index_probe_batch)
<1>1. /\ Listed(<<>>) /\ Listed(<<"out">>) /\ Listed(<<"in", "out">>)
      /\ Listed(<<"coeffs", "x", "out">>) /\ Listed(<<"a", "b", "c">>)
      BY ListOf
<1>2. Sound(haar_dwt_batch) /\ Sound(fft_batch)
      BY <1>1, OneToOne DEF haar_dwt_batch, fft_batch
<1>3. Sound(black_scholes_batch) /\ Sound(bs_greeks_batch)
      BY <1>1, OneToOne DEF black_scholes_batch, bs_greeks_batch
<1>4. Sound(sobol_batch) /\ Sound(halton_batch)
      BY <1>1, OneToOne DEF sobol_batch, halton_batch
<1>5. Sound(bs_extended_greeks_batch)
      BY <1>3 DEF bs_extended_greeks_batch
<1>6. Sound(poly_eval) /\ Sound(batched_matmul)
      BY <1>1, TwoToOne DEF poly_eval, batched_matmul
<1>7. Sound(strategy_grid) /\ Sound(futures_grid) /\ Sound(index_probe_batch)
      BY <1>1, TwoToOne DEF strategy_grid, futures_grid, index_probe_batch
<1> QED BY <1>2, <1>3, <1>4, <1>5, <1>6, <1>7

\* Those with other lists of arrays.
LEMMA MoreKernelBridges ==
    /\ Sound(edit_distance_batch) /\ Sound(nqueens_count)
    /\ Sound(bode_sweep) /\ Sound(nyquist_sweep) /\ Sound(dwt_batch) /\ Sound(swt_batch)
<1>1. Sound(edit_distance_batch)
  <2> DEFINE bufs == <<"a", "aoff", "b", "boff", "out">>
             ups == <<"a", "aoff", "b", "boff">>
  <2>1. /\ Listed(<<"a", "b", "out">>) /\ Listed(bufs) /\ Listed(ups) /\ Listed(<<"out">>)
        /\ ToSet(bufs) = {"a", "aoff", "b", "boff", "out"}
        /\ ToSet(ups) = {"a", "aoff", "b", "boff"} /\ ToSet(<<"out">>) = {"out"}
        BY ListOf
  <2> QED BY <2>1, KernelLadder DEF edit_distance_batch
<1>2. Sound(nqueens_count)
  <2> DEFINE bufs == <<"pc", "pd1", "pd2", "count">>
  <2>1. /\ Listed(<<>>) /\ Listed(bufs) /\ Listed(<<"count">>)
        /\ ToSet(bufs) = {"pc", "pd1", "pd2", "count"} /\ ToSet(<<"count">>) = {"count"}
        BY ListOf
  <2> QED BY <2>1, KernelLadder DEF nqueens_count
<1>3. ASSUME NEW a, NEW b
      PROVE  Sound(Ladder(<<>>, <<"num", "den", "omegas", a, b>>, <<"num", "den", "omegas">>,
                          <<Query>> \o Kernel({"num", "den", "omegas"}, {a, b}),
                          <<a, b>>, {a, b}))
  <2> DEFINE bufs == <<"num", "den", "omegas", a, b>>
             ups == <<"num", "den", "omegas">>
  <2>1. /\ Listed(<<>>) /\ Listed(bufs) /\ Listed(ups) /\ Listed(<<a, b>>)
        /\ ToSet(bufs) = {"num", "den", "omegas", a, b}
        /\ ToSet(ups) = {"num", "den", "omegas"} /\ ToSet(<<a, b>>) = {a, b}
        BY ListOf
  <2> QED BY <2>1, KernelLadder
<1>4. Sound(bode_sweep) /\ Sound(nyquist_sweep)
      BY <1>3 DEF bode_sweep, nyquist_sweep
<1>5. Sound(dwt_batch) /\ Sound(swt_batch)
  <2> DEFINE bufs == <<"in", "out", "lo", "hi">>
             ups == <<"in", "lo", "hi">>
  <2>1. /\ Listed(bufs) /\ Listed(ups) /\ Listed(<<"out">>)
        /\ ToSet(bufs) = {"in", "out", "lo", "hi"} /\ ToSet(ups) = {"in", "lo", "hi"}
        /\ ToSet(<<"out">>) = {"out"}
        BY ListOf
  <2> QED BY <2>1, KernelLadder DEF dwt_batch, swt_batch
<1> QED BY <1>1, <1>2, <1>4, <1>5

\* Tail of a list of four.
LEMMA TailOf == \A a, b, c, d : Tail(<<a, b, c, d>>) = <<b, c, d>>
OBVIOUS

\* The batched solvers: one kernel, many arrays.
LEMMA BatchedBridges == Sound(batched_cg_csr) /\ Sound(batched_lm_curvefit)
<1>1. Sound(batched_cg_csr)
  <2> DEFINE W == {"scratch_r", "scratch_p", "scratch_ap"}
             scratch == <<"scratch_r", "scratch_p", "scratch_ap">>
             zeroed == <<"scratch_p", "scratch_ap">>
             tail == Tail(BatchedOut)
             outs == {"x", "out_iters", "out_converged", "out_resid"}
             bufs == BatchedIn \o scratch \o tail
             ups == zeroed \o BatchedIn
  <2>1. /\ Listed(<<>>)
        /\ Listed(scratch) /\ ToSet(scratch) = W
        /\ Listed(zeroed) /\ ToSet(zeroed) = {"scratch_p", "scratch_ap"}
        BY ListOf
  <2>2. /\ Listed(tail) /\ ToSet(tail) = {"out_iters", "out_converged", "out_resid"}
        BY ListOf, TailOf DEF BatchedOut
  <2>3. Listed(BatchedOut) /\ ToSet(BatchedOut) = outs
        BY ListOf DEF BatchedOut
  <2>4. /\ Listed(BatchedIn)
        /\ ToSet(BatchedIn) = {"row", "col", "val", "x_off", "nz_off", "b", "x"}
        BY ListOf DEF BatchedIn
  <2> HIDE DEF scratch, zeroed, tail
  <2>5. /\ Listed(BatchedIn \o scratch)
        /\ ToSet(BatchedIn \o scratch) = ToSet(BatchedIn) \cup ToSet(scratch)
        /\ Listed(ups) /\ ToSet(ups) = ToSet(zeroed) \cup ToSet(BatchedIn)
        BY <2>1, <2>4, ListedCat
  <2>6. Listed(bufs) /\ ToSet(bufs) = ToSet(BatchedIn) \cup ToSet(scratch) \cup ToSet(tail)
        BY <2>2, <2>5, ListedCat
  <2>7. batched_cg_csr =
            Ladder(<<>>, bufs, ups,
                   <<BareQuery>> \o Kernel(ToSet(BatchedIn), ToSet(BatchedOut) \cup W),
                   BatchedOut, outs)
        BY DEF batched_cg_csr, scratch, zeroed, tail
  <2> HIDE DEF bufs, ups
  <2>8. /\ ToSet(ups) \subseteq ToSet(bufs) /\ ToSet(BatchedIn) \subseteq ToSet(ups)
        /\ ToSet(BatchedOut) \cup W \subseteq ToSet(bufs)
        BY <2>1, <2>2, <2>3, <2>4, <2>5, <2>6
  <2>9. /\ ToSet(BatchedOut) \subseteq ToSet(ups) \cup (ToSet(BatchedOut) \cup W)
        /\ outs \subseteq ToSet(BatchedOut)
        BY <2>3
  <2> HIDE DEF W, outs
  <2>10. Sound(Ladder(<<>>, bufs, ups,
                     <<BareQuery>> \o Kernel(ToSet(BatchedIn), ToSet(BatchedOut) \cup W),
                     BatchedOut, outs))
        BY <2>1, <2>3, <2>5, <2>6, <2>8, <2>9, KernelLadder
  <2> QED BY <2>7, <2>10
<1>2. Sound(batched_lm_curvefit)
  <2> DEFINE tail == Tail(LmOut)
             outs == {"theta", "out_iters", "out_converged", "out_resid"}
             bufs == LmIn \o LmScratch \o tail
             ups == LmScratch \o LmIn
             r == ToSet(LmIn) \cup ToSet(LmScratch)
             w == ToSet(LmScratch) \cup ToSet(LmOut)
  <2>1. Listed(<<>>) /\ Listed(LmScratch)
        BY ListOf DEF LmScratch
  <2>2. /\ Listed(tail) /\ ToSet(tail) = {"out_iters", "out_converged", "out_resid"}
        BY ListOf, TailOf DEF LmOut
  <2>3. Listed(LmOut) /\ ToSet(LmOut) = outs
        BY ListOf DEF LmOut
  <2>4. /\ Listed(LmIn)
        /\ ToSet(LmIn) = {"model", "t", "y", "pt_off", "theta", "th_off", "jac_off"}
        BY ListOf DEF LmIn
  <2> HIDE DEF tail
  <2>5. /\ Listed(LmIn \o LmScratch) /\ ToSet(LmIn \o LmScratch) = r
        /\ Listed(ups) /\ ToSet(ups) = r
        BY <2>1, <2>4, ListedCat
  <2>6. Listed(bufs) /\ ToSet(bufs) = r \cup ToSet(tail)
        BY <2>2, <2>5, ListedCat
  <2>7. batched_lm_curvefit =
            Ladder(<<>>, bufs, ups, <<BareQuery>> \o Kernel(r, w), LmOut, outs)
        BY DEF batched_lm_curvefit, tail
  <2> HIDE DEF bufs, ups
  <2>8. /\ ToSet(ups) \subseteq ToSet(bufs) /\ r \subseteq ToSet(ups)
        /\ w \subseteq ToSet(bufs)
        BY <2>2, <2>3, <2>4, <2>5, <2>6
  <2>9. ToSet(LmOut) \subseteq ToSet(ups) \cup w /\ outs \subseteq ToSet(LmOut)
        BY <2>3
  <2> HIDE DEF r, w, outs
  <2>10. Sound(Ladder(<<>>, bufs, ups, <<BareQuery>> \o Kernel(r, w), LmOut, outs))
        BY <2>1, <2>3, <2>5, <2>6, <2>8, <2>9, KernelLadder
  <2> QED BY <2>7, <2>10
<1> QED BY <1>1, <1>2

-----------------------------------------------------------------------------
(* Bridges of several kernels, and loops.                                    *)

\* Two kernels, the second on what was uploaded or the first has written.
LEMMA TwoKernels ==
    ASSUME NEW B, NEW R, NEW W, NEW L, NEW r, r \subseteq R,
           NEW w, w \subseteq B, w \subseteq W \cup {"x"}, NEW p, p \subseteq R \cup w,
           NEW q, q \subseteq B, q \subseteq W \cup {"x"}
    PROVE  Path(Kernel(r, w) \o Kernel(p, q), State(B, R, W),
                State(B, R \cup w \cup q, W), L, W)
<1>1. Path(Kernel(r, w), State(B, R, W), State(B, R \cup w, W), L, W)
      BY KernelPath
<1>2. Path(Kernel(p, q), State(B, R \cup w, W), State(B, R \cup w \cup q, W), L, W)
      BY KernelPath
<1> QED BY <1>1, <1>2, PathCat

\* A kernel that fills partial sums, and one that adds them.
LEMMA TwoKernelBridges == Sound(qmc_poly_integrate) /\ Sound(l2_star_discrepancy)
<1>1. Sound(qmc_poly_integrate)
  <2> DEFINE B == {"coeffs", "x", "partials", "sum"}
             R == {"coeffs", "x"}
             Q == R \cup {"partials"} \cup {"sum"}
             bufs == <<"coeffs", "x", "partials", "sum">>
             ups == <<"coeffs", "x">>
             main == Kernel({"coeffs", "x"}, {"partials"}) \o Kernel({"partials"}, {"sum"})
  <2>1. /\ Listed(bufs) /\ Listed(ups) /\ Listed(<<"sum">>)
        /\ ToSet(bufs) = B /\ ToSet(ups) = R /\ ToSet(<<"sum">>) = {"sum"}
        BY ListOf
  <2>2. Path(main, State(B, R, B), State(B, Q, B), <<>>, B)
        BY TwoKernels
  <2>3. R \subseteq B /\ {"sum"} \subseteq Q
        OBVIOUS
  <2>4. qmc_poly_integrate = Sized(Ladder(ups, bufs, ups, main, <<"sum">>, {"sum"}))
        BY DEF qmc_poly_integrate
  <2> HIDE DEF main, bufs, ups, B, R, Q
  <2>5. Sound(Sized(Ladder(ups, bufs, ups, main, <<"sum">>, {"sum"})))
        BY <2>1, <2>2, <2>3, MainLadder
  <2> QED BY <2>4, <2>5
<1>2. Sound(l2_star_discrepancy)
  <2> DEFINE B == {"points", "partials", "sum"}
             R == {"points"}
             Q == R \cup {"partials"} \cup {"sum"}
             bufs == <<"points", "partials", "sum">>
             ups == <<"points">>
             main == Kernel({"points"}, {"partials"}) \o Kernel({"partials"}, {"sum"})
  <2>1. /\ Listed(bufs) /\ Listed(ups) /\ Listed(<<"sum">>)
        /\ ToSet(bufs) = B /\ ToSet(ups) = R /\ ToSet(<<"sum">>) = {"sum"}
        BY ListOf
  <2>2. Path(main, State(B, R, B), State(B, Q, B), <<>>, B)
        BY TwoKernels
  <2>3. R \subseteq B /\ {"sum"} \subseteq Q
        OBVIOUS
  <2>4. l2_star_discrepancy = Sized(Ladder(ups, bufs, ups, main, <<"sum">>, {"sum"}))
        BY DEF l2_star_discrepancy
  <2> HIDE DEF main, bufs, ups, B, R, Q
  <2>5. Sound(Sized(Ladder(ups, bufs, ups, main, <<"sum">>, {"sum"})))
        BY <2>1, <2>2, <2>3, MainLadder
  <2> QED BY <2>4, <2>5
<1> QED BY <1>1, <1>2

\* The simulations: host memory first, then a ladder.
LEMMA SimulationBridges ==
    Sound(mc_european_batch) /\ Sound(mc_asian_batch) /\ Sound(mc_barrier_batch)
<1> DEFINE B == {"pre", "psum", "psumsq", "sums", "sumsqs"}
           w == {"psum", "psumsq"}
           q == {"sums", "sumsqs"}
           outs == <<"sums", "sumsqs">>
           ups == <<"pre">>
           a == Ladder(<<>>, McBufs, ups, McKernels, outs, q)
           k == At(B, {"pre"} \cup w \cup q, q, {}, B)
<1>1. /\ Listed(<<>>) /\ Listed(ups) /\ ToSet(ups) = {"pre"}
      /\ Listed(outs) /\ ToSet(outs) = q
      BY ListOf
<1>2. Listed(McBufs) /\ ToSet(McBufs) = B
      BY ListOf DEF McBufs
<1>3. Path(McKernels, State(B, {"pre"}, B), State(B, {"pre"} \cup w \cup q, B), <<>>, B)
  <2>1. Path(<<Query>>, State(B, {"pre"}, B), State(B, {"pre"}, B), <<>>, B)
        BY QueryPath, QueryOps
  <2>2. Path(Kernel({"pre"}, w), State(B, {"pre"}, B), State(B, {"pre"} \cup w, B), <<>>, B)
        BY KernelPath
  <2>3. Path(Kernel(w, q), State(B, {"pre"} \cup w, B), State(B, {"pre"} \cup w \cup q, B), <<>>, B)
        BY KernelPath
  <2>4. McKernels = (<<Query>> \o Kernel({"pre"}, w)) \o Kernel(w, q)
        BY DEF McKernels
  <2>5. Path(<<Query>> \o Kernel({"pre"}, w), State(B, {"pre"}, B), State(B, {"pre"} \cup w, B),
             <<>>, B)
        BY <2>1, <2>2, PathCat
  <2> QED BY <2>3, <2>4, <2>5, PathCat
<1>4. Path(a.body, Nothing(B), k, <<>>, B)
  <2> DEFINE R == {"pre"} \cup w \cup q
             S == B
  <2>1. <<>> \in Seq(S) /\ McBufs \in Seq(S) /\ ups \in Seq(S) /\ outs \in Seq(S)
        BY <1>1, <1>2 DEF Listed
  <2>2. ToSet(ups) \subseteq ToSet(McBufs) /\ ToSet(outs) \subseteq R
        BY <1>1, <1>2
  <2>3. Path(McKernels, At(ToSet(McBufs), ToSet(ups), {}, {}, B), At(B, R, {}, {}, B), <<>>, B)
        BY <1>1, <1>2, <1>3 DEF State
  <2> HIDE DEF B, R, S, q, outs, ups
  <2>4. Path(a.body, Nothing(B), At(B, R, ToSet(outs), {}, B), <<>>, B)
        BY <2>1, <2>2, <2>3, LadderFlows
  <2> QED BY <1>1, <2>4 DEF R
<1>5. /\ MonteCarlo.body = <<Host(McHost)>> \o a.body
      /\ MonteCarlo.outs = q /\ MonteCarlo.resid = "none"
      BY DEF MonteCarlo, Ladder, Bridge
<1>6. k.got = q
      BY DEF At
<1> HIDE DEF a, k, q, B
<1>7. Path(<<Host(McHost)>>, Nothing(B), Nothing(B), <<>>, B)
  <2>1. Host(McHost).op = "host"
        BY DEF Host
  <2> QED BY <2>1, QueryPath
<1>8. Path(<<Host(McHost)>> \o a.body, Nothing(B), k, <<>>, B)
      BY <1>4, <1>7, PathCat
<1>9. Path(MonteCarlo.body, Nothing(B), k, <<>>, B)
      BY <1>5, <1>8
<1>10. Delivered(MonteCarlo, k.got, k.ofX)
      BY <1>5, <1>6 DEF Delivered
<1>11. Sound(MonteCarlo)
      BY <1>9, <1>10, PathSound
<1> QED BY <1>11 DEF mc_european_batch, mc_asian_batch, mc_barrier_batch

\* Which steps are easy.
LEMMA EasyOf ==
    ASSUME NEW B, NEW R, NEW W, NEW L
    PROVE  /\ \A r, w : r \subseteq R /\ w \subseteq B /\ w \subseteq W \cup {"x"} =>
                  Easy(Launch(r, w), B, R, L, W) /\ Easy(Do(r, w), B, R, L, W)
           /\ \A b \in R : Easy(Get(b), B, R, L, W)
           /\ Easy(Query, B, R, L, W)
           /\ \A h : Easy(Host(h), B, R, L, W)
           /\ \A l \in DOMAIN L : L[l] = State(B, R, W) => Easy(Label(l), B, R, L, W)
           /\ \A ls :
                 (\A l \in ls : l \in DOMAIN L /\ \E Q \in SUBSET R : L[l] = State(B, Q, W))
                     => Easy(Jump(ls), B, R, L, W)
<1>1. ASSUME NEW r, NEW w, r \subseteq R, w \subseteq B, w \subseteq W \cup {"x"}
      PROVE  Easy(Launch(r, w), B, R, L, W) /\ Easy(Do(r, w), B, R, L, W)
      BY <1>1 DEF Easy, Launch, Do
<1>2. \A b \in R : Easy(Get(b), B, R, L, W)
      BY DEF Easy, Get
<1>3. Easy(Query, B, R, L, W) /\ \A h : Easy(Host(h), B, R, L, W)
      BY DEF Easy, Query, Host
<1>4. \A l \in DOMAIN L : L[l] = State(B, R, W) => Easy(Label(l), B, R, L, W)
      BY DEF Easy, Label
<1>5. ASSUME NEW ls, \A l \in ls : l \in DOMAIN L /\ \E Q \in SUBSET R : L[l] = State(B, Q, W)
      PROVE  Easy(Jump(ls), B, R, L, W)
      BY <1>5 DEF Easy, Jump
<1> QED BY <1>1, <1>2, <1>3, <1>4, <1>5

\* Easy steps in a row.
LEMMA EasyRow ==
    ASSUME NEW B, NEW R, NEW W, NEW L, NEW s, Listed(s),
           \A st \in ToSet(s) : Easy(st, B, R, L, W)
    PROVE  Path(s, State(B, R, W), State(B, R, W), L, W)
BY EasyPath DEF Listed

\* The breadth-first search: any number of levels.
LEMMA SearchBridge == Sound(bfs)
<1> DEFINE U == {"row", "col", "dist"}
           B == {"row", "col", "dist", "changed"}
           bufs == <<"row", "col", "dist", "changed">>
           ups == <<"row", "col", "dist", "dist">>
           pins == <<"row", "col", "dist">>
           L == [l \in {"level", "done"} |-> IF l = "level" THEN State(B, U, B) ELSE State(B, B, B)]
           r == {"row", "col", "dist", "changed"}
           w == {"dist", "changed"}
           end == <<Get("changed"), Jump({"level", "done"}), Label("done")>>
<1>1. /\ Listed(pins) /\ Listed(bufs) /\ Listed(ups) /\ Listed(<<"dist">>)
      /\ ToSet(bufs) = B /\ ToSet(ups) = U /\ ToSet(<<"dist">>) = {"dist"}
      BY ListOf
<1>2. DOMAIN L = {"level", "done"} /\ L["level"] = State(B, U, B) /\ L["done"] = State(B, B, B)
      OBVIOUS
<1> HIDE DEF L
<1>3. Path(<<Query>>, State(B, U, B), State(B, U, B), L, B)
      BY QueryPath, QueryOps
<1>4. Path(<<Label("level")>>, State(B, U, B), State(B, U, B), L, B)
  <2>1. Easy(Label("level"), B, U, L, B)
        BY <1>2, EasyOf
  <2> QED BY <2>1, EasyFlows, PathOne
<1>5. Path(<<Put("changed")>>, State(B, U, B), State(B, B, B), L, B)
  <2>1. Path(<<Do({}, {"changed"})>>, State(B, U, B), State(B, U \cup {"changed"}, B), L, B)
        BY WritePath
  <2>2. U \cup {"changed"} = B
        OBVIOUS
  <2> QED BY <2>1, <2>2 DEF Put
<1>6. Path(<<Label("level"), Put("changed")>>, State(B, U, B), State(B, B, B), L, B)
      BY <1>4, <1>5, PathCat, Prefixed
<1>7. Path(Kernel(r, w), State(B, B, B), State(B, B, B), L, B)
  <2>1. B \cup w = B
        OBVIOUS
  <2> QED BY <2>1, KernelPath
<1>8. Path(end, State(B, B, B), State(B, B, B), L, B)
  <2>1. Listed(end) /\ ToSet(end) = {Get("changed"), Jump({"level", "done"}), Label("done")}
        BY ListOf
  <2>2. U \in SUBSET B /\ B \in SUBSET B
        OBVIOUS
  <2>3. Easy(Jump({"level", "done"}), B, B, L, B)
        BY <1>2, <2>2, EasyOf
  <2>4. Easy(Get("changed"), B, B, L, B) /\ Easy(Label("done"), B, B, L, B)
        BY <1>2, EasyOf
  <2> QED BY <2>1, <2>3, <2>4, EasyRow
<1>9. bfs_level = (<<Label("level"), Put("changed")>> \o Kernel(r, w)) \o end
      BY DEF bfs_level
<1>10. bfs = Ladder(pins, bufs, ups, <<Query>> \o bfs_level, <<"dist">>, {"dist"})
      BY DEF bfs
<1> HIDE DEF pins, bufs, ups, end, r, w, U, B
<1>11. Path(bfs_level, State(B, U, B), State(B, B, B), L, B)
      BY <1>6, <1>7, <1>8, <1>9, PathCat
<1>12. Path(<<Query>> \o bfs_level, State(B, U, B), State(B, B, B), L, B)
      BY <1>3, <1>11, PathCat
<1>13. {"dist"} \subseteq B /\ U \subseteq B
      BY DEF B, U
<1> QED BY <1>1, <1>10, <1>12, <1>13, MainLadder

\* The captured graph, launched any number of times.
LEMMA GraphBridge == Sound(black_scholes_graphed)
<1> DEFINE B == {"opts", "out"}
           D == {"opts", "out", "stream", "graph", "exec"}
           bufs == <<"opts", "out">>
           ups == <<"opts">>
           gets == <<"out">>
           k(dev, ready) == At(dev, ready, {}, {}, B)
           k0 == k(B, {"opts"})
           k1 == k(B \cup {"stream"}, {"opts"})
           k2 == k(B \cup {"stream", "graph"}, {"opts"})
           k3 == k(D, {"opts"})
           k4 == k(D, B)
           L == [l \in {"again", "done"} |-> IF l = "again" THEN k3 ELSE k4]
           make == <<Alloc("stream"), Sync, Alloc("graph"), Alloc("exec"), Label("again"),
                     Do({"opts"}, {"out"}), Jump({"again", "done"}), Label("done"), Sync>>
           K == <<k0, k1, k1, k2, k3, k3, k4, k4, k4, k4>>
           p == Ladder(<<>>, bufs, ups, make, gets, {"out"})
           q == black_scholes_graphed
<1>1. /\ Listed(<<>>) /\ Listed(bufs) /\ Listed(ups) /\ Listed(gets)
      /\ ToSet(bufs) = B /\ ToSet(ups) = {"opts"} /\ ToSet(gets) = {"out"}
      BY ListOf
<1>2. /\ Flow(Alloc("stream"), k0, k1, L, B) /\ Flow(Alloc("graph"), k1, k2, L, B)
      /\ Flow(Alloc("exec"), k2, k3, L, B)
  <2> DEFINE a == Alloc("stream")
             b == Alloc("graph")
             c == Alloc("exec")
  <2>1. /\ a.op = "alloc" /\ a.buf = "stream" /\ b.op = "alloc" /\ b.buf = "graph"
        /\ c.op = "alloc" /\ c.buf = "exec"
        BY DEF Alloc
  <2> HIDE DEF a, b, c
  <2>2. /\ After(a, k0, B) = k(B \cup {"stream"}, {"opts"} \ {"stream"})
        /\ After(b, k1, B) = k(B \cup {"stream"} \cup {"graph"}, {"opts"} \ {"graph"})
        /\ After(c, k2, B) = k(B \cup {"stream", "graph"} \cup {"exec"}, {"opts"} \ {"exec"})
        BY <2>1 DEF After, At
  <2>3. Weaker(k1, After(a, k0, B)) /\ Weaker(k2, After(b, k1, B)) /\ Weaker(k3, After(c, k2, B))
        BY <2>2 DEF Weaker, At
  <2> HIDE DEF k0, k1, k2, k3
  <2>4. Flow(a, k0, k1, L, B) /\ Flow(b, k1, k2, L, B) /\ Flow(c, k2, k3, L, B)
        BY <2>1, <2>3 DEF Flow
  <2> QED BY <2>4 DEF a, b, c
<1>3. /\ Flow(Sync, k1, k1, L, B) /\ Flow(Sync, k4, k4, L, B)
  <2>1. /\ k1 = State(B \cup {"stream"}, {"opts"}, B) /\ k4 = State(D, B, B)
        BY DEF State
  <2>2. Sync.op = "do" /\ Sync.reads = {} /\ Sync.writes = {}
        BY DEF Sync, Do
  <2> QED BY <2>1, <2>2, WriteFlows
<1>4. Flow(Do({"opts"}, {"out"}), k3, k4, L, B)
  <2> DEFINE st == Do({"opts"}, {"out"})
  <2>1. st.op = "do" /\ st.reads = {"opts"} /\ st.writes = {"out"}
        BY DEF Do
  <2>2. k3 = State(D, {"opts"}, B) /\ k4 = State(D, B, B)
        BY DEF State
  <2> HIDE DEF st, k3, k4
  <2> QED BY <2>1, <2>2, WriteFlows DEF st
<1>5. DOMAIN L = {"again", "done"} /\ L["again"] = k3 /\ L["done"] = k4
      OBVIOUS
<1>6. Weaker(k3, k4) /\ Weaker(k4, k4) /\ Weaker(k3, k3)
      BY DEF Weaker, At
<1> HIDE DEF L, k0, k1, k2, k3, k4
<1>7. /\ Flow(Label("again"), k3, k3, L, B) /\ Flow(Label("done"), k4, k4, L, B)
      /\ Flow(Jump({"again", "done"}), k4, k4, L, B)
  <2> DEFINE a == Label("again")
             b == Label("done")
             c == Jump({"again", "done"})
  <2>1. /\ a.op = "label" /\ a.name = "again" /\ b.op = "label" /\ b.name = "done"
        /\ c.op = "jump" /\ c.to = {"again", "done"}
        BY DEF Label, Jump
  <2> HIDE DEF a, b, c
  <2>2. After(a, k3, B) = k3 /\ After(b, k4, B) = k4
        BY <2>1 DEF After
  <2>3. Flow(a, k3, k3, L, B) /\ Flow(b, k4, k4, L, B) /\ Flow(c, k4, k4, L, B)
        BY <1>5, <1>6, <2>1, <2>2 DEF Flow
  <2> QED BY <2>3 DEF a, b, c
<1>8. Path(make, k0, k4, L, B)
  <2> DEFINE S == {make[i] : i \in 1 .. 9}
  <2>1. /\ make[1] = Alloc("stream") /\ make[2] = Sync /\ make[3] = Alloc("graph")
        /\ make[4] = Alloc("exec") /\ make[5] = Label("again")
        /\ make[6] = Do({"opts"}, {"out"}) /\ make[7] = Jump({"again", "done"})
        /\ make[8] = Label("done") /\ make[9] = Sync
        OBVIOUS
  <2>2. Len(make) = 9 /\ make \in Seq(S)
        OBVIOUS
  <2>3. /\ K[1] = k0 /\ K[2] = k1 /\ K[3] = k1 /\ K[4] = k2 /\ K[5] = k3 /\ K[6] = k3
        /\ K[7] = k4 /\ K[8] = k4 /\ K[9] = k4 /\ K[10] = k4
        OBVIOUS
  <2> HIDE DEF make, K, S
  <2>4. ASSUME NEW i \in 1 .. 9 PROVE Flow(make[i], K[i], K[i + 1], L, B)
    <3>1. i \in {1, 2, 3, 4, 5, 6, 7, 8, 9}
          OBVIOUS
    <3>2. CASE i \in {1, 2, 3, 4}
          BY <1>2, <1>3, <2>1, <2>3, <3>2
    <3>3. CASE i \in {5, 6, 7, 8, 9}
          BY <1>3, <1>4, <1>7, <2>1, <2>3, <3>3
    <3> QED BY <3>1, <3>2, <3>3
  <2>5. Flows(make, K, L, B)
        BY <2>2, <2>4 DEF Flows
  <2> QED BY <2>2, <2>3, <2>5 DEF Path
<1>9. Path(p.body, Nothing(B), At(D, B, ToSet(gets), {}, B), L, B)
  <2> DEFINE S == B
  <2>1. <<>> \in Seq(S) /\ bufs \in Seq(S) /\ ups \in Seq(S) /\ gets \in Seq(S)
        BY <1>1 DEF Listed
  <2>2. ToSet(ups) \subseteq ToSet(bufs) /\ ToSet(gets) \subseteq B
        BY <1>1
  <2>3. Path(make, At(ToSet(bufs), ToSet(ups), {}, {}, B), At(D, B, {}, {}, B), L, B)
        BY <1>1, <1>8 DEF k0, k4
  <2> HIDE DEF B, D, S, bufs, ups, gets, make
  <2> QED BY <2>1, <2>2, <2>3, LadderFlows
<1>10. q.body = <<Query>> \o p.body /\ q.outs = {"out"} /\ q.resid = "none"
      BY DEF black_scholes_graphed, Sized, Ladder, Bridge
<1> HIDE DEF p, q
<1> DEFINE m == At(D, B, ToSet(gets), {}, B)
<1>11. m.got = {"out"}
      BY <1>1 DEF At
<1> HIDE DEF m
<1>12. Path(<<Query>>, Nothing(B), Nothing(B), L, B)
      BY QueryPath, QueryOps
<1>13. Path(p.body, Nothing(B), m, L, B)
      BY <1>9 DEF m
<1>14. Path(q.body, Nothing(B), m, L, B)
      BY <1>10, <1>12, <1>13, PathCat
<1>15. Sound(q)
      BY <1>10, <1>11, <1>14, PathSound DEF Delivered
<1> QED BY <1>15 DEF q

-----------------------------------------------------------------------------
(* The solvers.                                                              *)

\* A dot product fills its scratch.
LEMMA DotPath ==
    ASSUME NEW B, NEW R, NEW W, NEW L, NEW a \in R, NEW b \in R,
           {"partials", "scalar"} \subseteq B \cap W
    PROVE  Path(cg_device_dot(a, b), State(B, R, W),
                State(B, R \cup {"partials", "scalar"}, W), L, W)
<1> DEFINE s1 == Launch({a, b}, {"partials"})
           s2 == Launch({"partials"}, {"scalar"})
           k0 == State(B, R, W)
           k1 == State(B, R \cup {"partials"}, W)
           k2 == State(B, R \cup {"partials"} \cup {"scalar"}, W)
<1>1. Path(<<s1>>, k0, k1, L, W)
      BY WritePath
<1>2. Path(<<s2>>, k1, k2, L, W)
      BY WritePath
<1>3. Path(<<Sync, Get("scalar")>>, k2, k2, L, W)
  <2> DEFINE Q == R \cup {"partials"} \cup {"scalar"}
  <2>1. Easy(Get("scalar"), B, Q, L, W)
        BY EasyOf
  <2>2. Easy(Sync, B, Q, L, W)
        BY EasyOf DEF Sync
  <2>3. Listed(<<Sync, Get("scalar")>>) /\ ToSet(<<Sync, Get("scalar")>>) = {Sync, Get("scalar")}
        BY ListOf
  <2> QED BY <2>1, <2>2, <2>3, EasyRow
<1>4. cg_device_dot(a, b) = <<s1, s2, Sync, Get("scalar")>>
      BY DEF cg_device_dot
<1>5. k2 = State(B, R \cup {"partials", "scalar"}, W)
  <2>1. R \cup {"partials"} \cup {"scalar"} = R \cup {"partials", "scalar"}
        OBVIOUS
  <2> QED BY <2>1
<1> HIDE DEF s1, s2, k0, k1, k2
<1>6. Path(<<s2>> \o <<Sync, Get("scalar")>>, k1, k2, L, W)
      BY <1>2, <1>3, PathCat
<1>7. Path(<<s2, Sync, Get("scalar")>>, k1, k2, L, W)
      BY <1>6, Prefixed
<1>8. Path(<<s1>> \o <<s2, Sync, Get("scalar")>>, k0, k2, L, W)
      BY <1>1, <1>7, PathCat
<1>9. Path(<<s1, s2, Sync, Get("scalar")>>, k0, k2, L, W)
      BY <1>8, Prefixed
<1> QED BY <1>4, <1>5, <1>9 DEF k0

\* A jump leads to its labels only.
LEMMA JumpPath ==
    ASSUME NEW B, NEW R, NEW W, NEW L, NEW ls, NEW m,
           \A l \in ls : l \in DOMAIN L /\ \E Q \in SUBSET R : L[l] = State(B, Q, W)
    PROVE  Path(<<Jump(ls)>>, State(B, R, W), m, L, W)
<1> DEFINE st == Jump(ls)
           k == State(B, R, W)
<1>1. st.op = "jump" /\ st.to = ls
      BY DEF Jump
<1> HIDE DEF st
<1>2. ASSUME NEW l \in ls PROVE l \in DOMAIN L /\ Weaker(L[l], k)
  <2>1. PICK Q \in SUBSET R : L[l] = State(B, Q, W)
        OBVIOUS
  <2> QED BY <2>1 DEF Weaker, State, At
<1>3. Flow(st, k, m, L, W)
      BY <1>1, <1>2 DEF Flow
<1> QED BY <1>3, PathOne DEF st

\* Easy steps, of which the last is a jump, and a label that less holds at.
LEMMA EasyThenLabel ==
    ASSUME NEW B, NEW R, NEW W, NEW L, NEW S, NEW s \in Seq(S), NEW n \in Nat \ {0},
           Len(s) = n + 1, \A i \in 1 .. n : Easy(s[i], B, R, L, W), s[n].op = "jump",
           NEW Q, Easy(s[n + 1], B, Q, L, W)
    PROVE  Path(s, State(B, R, W), State(B, Q, W), L, W)
<1> DEFINE k == State(B, R, W)
           m == State(B, Q, W)
           K == [i \in 1 .. n + 2 |-> IF i <= n THEN k ELSE m]
<1>1. (\A i \in 1 .. n : K[i] = k) /\ K[n + 1] = m /\ K[n + 1 + 1] = m
      OBVIOUS
<1>2. \A i \in 1 .. n : Flow(s[i], k, k, L, W)
      BY EasyFlows
<1>3. Flow(s[n + 1], m, m, L, W)
      BY EasyFlows
<1>4. Flow(s[n], k, m, L, W)
  <2>1. Flow(s[n], k, k, L, W)
        BY <1>2
  <2> QED BY <2>1 DEF Flow
<1> HIDE DEF K, k, m
<1>5. ASSUME NEW i \in 1 .. n + 1 PROVE Flow(s[i], K[i], K[i + 1], L, W)
  <2>1. CASE i = n + 1
        BY <1>1, <1>3, <2>1
  <2>2. CASE i = n
        BY <1>1, <1>4, <2>2
  <2>3. CASE i \in 1 .. n /\ i + 1 \in 1 .. n
        BY <1>1, <1>2, <2>3
  <2> QED BY <2>1, <2>2, <2>3
<1>6. K[1] = k /\ K[Len(s) + 1] = m
      BY <1>1
<1>7. Flows(s, K, L, W)
      BY <1>5 DEF Flows
<1>8. Path(s, k, m, L, W)
      BY <1>6, <1>7 DEF Path
<1> QED BY <1>8 DEF k, m

\* The regression: one pass per exercise date.
LEMMA SimulatedBridge == Sound(lsm_american_batch)
<1> DEFINE B == {"S", "cash", "partials", "out8", "out2"}
           C == {"S", "cash"}
           F == {"S", "cash", "partials", "out8"}
           G == {"S", "cash", "partials", "out2"}
           bufs == <<"S", "cash", "partials", "out8", "out2">>
           k(R) == State(B, R, B)
           end == At(B, G, {"out2"}, {}, B)
           names == {"option", "back", "solved", "final", "done"}
           L == [l \in names |-> IF l = "option" THEN k({}) ELSE IF l = "solved" THEN k(F)
                                 ELSE IF l = "done" THEN end ELSE k(C)]
           open == <<Query, Query, Label("option")>>
           p == lsm_american_batch
<1>1. /\ DOMAIN L = names /\ L["option"] = k({}) /\ L["back"] = k(C) /\ L["final"] = k(C)
      /\ L["solved"] = k(F) /\ L["done"] = end
      OBVIOUS
<1>2. C \subseteq F /\ C \subseteq B /\ F \subseteq B /\ {} \subseteq B /\ C \in SUBSET C
      OBVIOUS
<1> HIDE DEF L
<1>3. Path(Each(Alloc, bufs), Nothing(B), k({}), L, B)
  <2>1. Listed(bufs) /\ ToSet(bufs) = B
        BY ListOf
  <2>2. bufs \in Seq(B)
        BY <2>1 DEF Listed
  <2> HIDE DEF bufs
  <2>3. Path(Each(Alloc, bufs), Nothing(B), At(ToSet(bufs), {}, {}, {}, B), L, B)
        BY <2>2, AllocsFlow
  <2> QED BY <2>1, <2>3 DEF State
<1>4. Path(open, k({}), k({}), L, B)
  <2>1. Easy(Label("option"), B, {}, L, B) /\ Easy(Query, B, {}, L, B)
        BY <1>1, EasyOf
  <2>2. Listed(open) /\ ToSet(open) = {Query, Query, Label("option")}
        BY ListOf
  <2> QED BY <2>1, <2>2, EasyRow
<1>5. Path(Kernel({}, {"S", "cash"}), k({}), k(C), L, B)
  <2>1. {} \cup {"S", "cash"} = C
        OBVIOUS
  <2> QED BY <2>1, KernelPath
<1>6. Path(LsmStep, k(C), k(C), L, B)
  <2> DEFINE s1 == <<Jump({"back", "final"}), Label("back")>>
             s2 == Kernel({"S", "cash"}, {"cash", "partials"})
             s3 == Kernel({"partials"}, {"out8"})
             s4 == <<Get("out8"), Jump({"solved", "back", "final"}), Label("solved")>>
             s5 == Kernel({"S", "cash"}, {"cash"})
             s6 == <<Jump({"back", "final"})>>
  <2>1. Path(s1, k(C), k(C), L, B)
    <3>1. Easy(Label("back"), B, C, L, B) /\ Easy(Jump({"back", "final"}), B, C, L, B)
          BY <1>1, <1>2, EasyOf
    <3>2. Listed(s1) /\ ToSet(s1) = {Jump({"back", "final"}), Label("back")}
          BY ListOf
    <3> QED BY <3>1, <3>2, EasyRow
  <2>2. Path(s2, k(C), k(C \cup {"cash", "partials"}), L, B)
        BY KernelPath
  <2>3. Path(s3, k(C \cup {"cash", "partials"}), k(F), L, B)
    <3>1. (C \cup {"cash", "partials"}) \cup {"out8"} = F
          OBVIOUS
    <3> QED BY <3>1, KernelPath
  <2>4. Path(s4, k(F), k(F), L, B)
    <3>1. Easy(Get("out8"), B, F, L, B) /\ Easy(Label("solved"), B, F, L, B)
          BY <1>1, EasyOf
    <3>2. F \in SUBSET F /\ C \in SUBSET F
          OBVIOUS
    <3>3. Easy(Jump({"solved", "back", "final"}), B, F, L, B)
          BY <1>1, <3>2, EasyOf
    <3>4. /\ Listed(s4)
          /\ ToSet(s4) = {Get("out8"), Jump({"solved", "back", "final"}), Label("solved")}
          BY ListOf
    <3> QED BY <3>1, <3>3, <3>4, EasyRow
  <2>5. Path(s5, k(F), k(F), L, B)
    <3>1. F \cup {"cash"} = F
          OBVIOUS
    <3> QED BY <3>1, KernelPath
  <2>6. Path(s6, k(F), k(C), L, B)
    <3>1. C \in SUBSET F
          OBVIOUS
    <3> QED BY <1>1, <3>1, JumpPath
  <2>7. LsmStep = ((((s1 \o s2) \o s3) \o s4) \o s5) \o s6
        BY DEF LsmStep
  <2> HIDE DEF s1, s2, s3, s4, s5, s6, k
  <2>8. Path((s1 \o s2) \o s3, k(C), k(F), L, B)
        BY <2>1, <2>2, <2>3, PathCat
  <2>9. Path(((s1 \o s2) \o s3) \o s4, k(C), k(F), L, B)
        BY <2>4, <2>8, PathCat
  <2>10. Path((((s1 \o s2) \o s3) \o s4) \o s5, k(C), k(F), L, B)
        BY <2>5, <2>9, PathCat
  <2> QED BY <2>6, <2>7, <2>10, PathCat
<1>7. Path(LsmFinal, k(C), end, L, B)
  <2> DEFINE s1 == <<Label("final")>>
             s2 == Kernel({"cash"}, {"partials"})
             s3 == Kernel({"partials"}, {"out2"})
             s4 == <<Get("out2")>>
             s5 == <<Jump({"option", "done"}), Label("done")>>
  <2>1. Path(s1, k(C), k(C), L, B)
    <3>1. Easy(Label("final"), B, C, L, B)
          BY <1>1, EasyOf
    <3> QED BY <3>1, EasyFlows, PathOne
  <2>2. Path(s2, k(C), k(C \cup {"partials"}), L, B)
        BY KernelPath
  <2>3. Path(s3, k(C \cup {"partials"}), k(G), L, B)
    <3>1. (C \cup {"partials"}) \cup {"out2"} = G
          OBVIOUS
    <3> QED BY <3>1, KernelPath
  <2>4. Path(s4, k(G), end, L, B)
    <3> DEFINE st == Get("out2")
    <3>1. st.op = "get" /\ st.buf = "out2"
          BY DEF Get
    <3> HIDE DEF st
    <3>2. After(st, k(G), B) = end
          BY <3>1 DEF After, State, At
    <3>3. Flow(st, k(G), end, L, B)
          BY <3>1, <3>2 DEF Flow, Weaker, State, At
    <3> QED BY <3>3, PathOne DEF st
  <2>5. Path(s5, end, end, L, B)
    <3> DEFINE a == Jump({"option", "done"})
               b == Label("done")
    <3>1. /\ a.op = "jump" /\ a.to = {"option", "done"}
          /\ b.op = "label" /\ b.name = "done"
          BY DEF Jump, Label
    <3> HIDE DEF a, b
    <3>2. Weaker(k({}), end) /\ Weaker(end, end)
          BY DEF Weaker, State, At
    <3>3. After(b, end, B) = end
          BY <3>1 DEF After
    <3> HIDE DEF k, end
    <3>4. Flow(a, end, end, L, B) /\ Flow(b, end, end, L, B)
          BY <1>1, <3>1, <3>2, <3>3 DEF Flow
    <3>5. Listed(<<a, b>>) /\ ToSet(<<a, b>>) = {a, b}
          BY ListOf
    <3>6. Path(<<a, b>>, end, end, L, B)
          BY <3>4, <3>5, PathSame DEF Listed
    <3> QED BY <3>6 DEF a, b
  <2>6. LsmFinal = ((s1 \o s2) \o s3) \o <<Get("out2"), Jump({"option", "done"}), Label("done")>>
        BY DEF LsmFinal
  <2>7. s4 \o s5 = <<Get("out2"), Jump({"option", "done"}), Label("done")>>
        BY Prefixed
  <2> HIDE DEF s1, s2, s3, s4, s5, k, end
  <2>8. Path((s1 \o s2) \o s3, k(C), k(G), L, B)
        BY <2>1, <2>2, <2>3, PathCat
  <2>9. Path(s4 \o s5, k(G), end, L, B)
        BY <2>4, <2>5, PathCat
  <2>10. Path(((s1 \o s2) \o s3) \o (s4 \o s5), k(C), end, L, B)
        BY <2>8, <2>9, PathCat
  <2> QED BY <2>6, <2>7, <2>10
<1>8. /\ p.body = (((Each(Alloc, bufs) \o open) \o Kernel({}, {"S", "cash"})) \o LsmStep)
                  \o LsmFinal
      /\ p.outs = {"out2"} /\ p.resid = "none"
  <2>1. p = Bridge(<<>>, bufs,
               Each(Alloc, bufs) \o open \o Kernel({}, {"S", "cash"}) \o LsmStep \o LsmFinal,
               {"out2"})
        BY DEF lsm_american_batch
  <2> HIDE DEF p, bufs, open
  <2> QED BY <2>1 DEF Bridge
<1>9. end.got = {"out2"}
      BY DEF At
<1> HIDE DEF p, k, end, bufs, open
<1>10. Path((Each(Alloc, bufs) \o open) \o Kernel({}, {"S", "cash"}), Nothing(B), k(C), L, B)
      BY <1>3, <1>4, <1>5, PathCat
<1>11. Path(((Each(Alloc, bufs) \o open) \o Kernel({}, {"S", "cash"})) \o LsmStep,
            Nothing(B), k(C), L, B)
      BY <1>6, <1>10, PathCat
<1>12. Path(p.body, Nothing(B), end, L, B)
      BY <1>7, <1>8, <1>11, PathCat
<1>13. Sound(p)
      BY <1>8, <1>9, <1>12, PathSound DEF Delivered
<1> QED BY <1>13 DEF p

Matrix == {"row", "col", "val"}

\* A solver's steps, where it has all it needs.
LEMMA EasySolver ==
    ASSUME NEW B, NEW R, NEW W, NEW L, Matrix \subseteq R,
           NEW a \in R, NEW b \in B, b \in W \cup {"x"}
    PROVE  /\ Easy(spmv(a, b), B, R, L, W)
           /\ b \in R => Easy(axpy(a, b), B, R, L, W)
           /\ Easy(Copy(a, b), B, R, L, W)
           /\ Easy(Put(b), B, R, L, W)
<1>1. /\ {"row", "col", "val", a} \subseteq R /\ {b} \subseteq B /\ {b} \subseteq W \cup {"x"}
      /\ {a} \subseteq R /\ {} \subseteq R /\ (b \in R => {a, b} \subseteq R)
      BY DEF Matrix
<1>2. Easy(spmv(a, b), B, R, L, W)
      BY <1>1, EasyOf DEF spmv
<1>3. b \in R => Easy(axpy(a, b), B, R, L, W)
      BY <1>1, EasyOf DEF axpy
<1>4. Easy(Copy(a, b), B, R, L, W)
      BY <1>1, EasyOf DEF Copy
<1>5. Easy(Put(b), B, R, L, W)
      BY <1>1, EasyOf DEF Put
<1> QED BY <1>2, <1>3, <1>4, <1>5

\* A dot product of buffers with contents is easy once its scratch has some.
LEMMA EasyDot ==
    ASSUME NEW B, NEW R, NEW W, NEW L, NEW a \in R, NEW b \in R,
           {"partials", "scalar"} \subseteq R, {"partials", "scalar"} \subseteq B \cap W
    PROVE  Path(cg_device_dot(a, b), State(B, R, W), State(B, R, W), L, W)
<1>1. R \cup {"partials", "scalar"} = R
      OBVIOUS
<1> QED BY <1>1, DotPath

\* Labels at which the same holds.
LEMMA EasyLabels ==
    ASSUME NEW B, NEW R, NEW W, NEW L, NEW N, N \subseteq DOMAIN L,
           \A l \in N : L[l] = State(B, R, W)
    PROVE  /\ \A l \in N : Easy(Label(l), B, R, L, W)
           /\ \A ls \in SUBSET N : Easy(Jump(ls), B, R, L, W)
<1>1. R \in SUBSET R
      OBVIOUS
<1> QED BY <1>1, EasyOf

\* r = b - A x, by way of t, and a copy of it.
LEMMA ResidualPath ==
    ASSUME NEW B, NEW R, NEW W, NEW L, Matrix \cup {"x", "b"} \subseteq R,
           NEW t \in B \cap W, NEW r \in B \cap W
    PROVE  Path(<<spmv("x", t), Copy("b", r), axpy(t, r)>>, State(B, R, W),
                State(B, R \cup {t, r}, W), L, W)
<1> DEFINE k == State(B, R, W)
           m == State(B, R \cup {t}, W)
           n == State(B, R \cup {t} \cup {r}, W)
           o == State(B, R \cup {t} \cup {r} \cup {r}, W)
<1>1. Path(<<spmv("x", t)>>, k, m, L, W)
  <2>1. {"row", "col", "val", "x"} \subseteq R /\ {t} \subseteq B /\ {t} \subseteq W \cup {"x"}
        BY DEF Matrix
  <2> QED BY <2>1, WritePath DEF spmv
<1>2. Path(<<Copy("b", r)>>, m, n, L, W)
  <2>1. {"b"} \subseteq R \cup {t} /\ {r} \subseteq B /\ {r} \subseteq W \cup {"x"}
        OBVIOUS
  <2> QED BY <2>1, WritePath DEF Copy
<1>3. Path(<<axpy(t, r)>>, n, o, L, W)
  <2>1. {t, r} \subseteq R \cup {t} \cup {r} /\ {r} \subseteq B /\ {r} \subseteq W \cup {"x"}
        OBVIOUS
  <2> QED BY <2>1, WritePath DEF axpy
<1>4. R \cup {t} \cup {r} \cup {r} = R \cup {t, r}
      OBVIOUS
<1>5. o = State(B, R \cup {t, r}, W)
      BY <1>4
<1> HIDE DEF k, m, n, o
<1>6. Path(<<Copy("b", r)>> \o <<axpy(t, r)>>, m, o, L, W)
      BY <1>2, <1>3, PathCat
<1>7. Path(<<Copy("b", r), axpy(t, r)>>, m, o, L, W)
      BY <1>6, Prefixed
<1>8. Path(<<spmv("x", t)>> \o <<Copy("b", r), axpy(t, r)>>, k, o, L, W)
      BY <1>1, <1>7, PathCat
<1>9. Path(<<spmv("x", t), Copy("b", r), axpy(t, r)>>, k, o, L, W)
      BY <1>8, Prefixed
<1> QED BY <1>5, <1>9 DEF k

\* r = b - A x, by way of t, and a copy q of it.
LEMMA SetupPath ==
    ASSUME NEW B, NEW R, NEW W, NEW L, Matrix \cup {"x", "b"} \subseteq R,
           NEW t \in B \cap W, NEW r \in B \cap W, NEW q \in B \cap W
    PROVE  Path(<<spmv("x", t), Copy("b", r), axpy(t, r), Copy(r, q)>>, State(B, R, W),
                State(B, R \cup {t, r, q}, W), L, W)
<1> DEFINE k == State(B, R, W)
           m == State(B, R \cup {t}, W)
           n == State(B, R \cup {t} \cup {r}, W)
           o == State(B, R \cup {t} \cup {r} \cup {r}, W)
           p == State(B, R \cup {t} \cup {r} \cup {r} \cup {q}, W)
           a == spmv("x", t)
           b == Copy("b", r)
           c == axpy(t, r)
           d == Copy(r, q)
<1>1. Path(<<a>>, k, m, L, W)
  <2>1. {"row", "col", "val", "x"} \subseteq R /\ {t} \subseteq B /\ {t} \subseteq W \cup {"x"}
        BY DEF Matrix
  <2> QED BY <2>1, WritePath DEF spmv
<1>2. Path(<<b>>, m, n, L, W)
  <2>1. {"b"} \subseteq R \cup {t} /\ {r} \subseteq B /\ {r} \subseteq W \cup {"x"}
        OBVIOUS
  <2> QED BY <2>1, WritePath DEF Copy
<1>3. Path(<<c>>, n, o, L, W)
  <2>1. {t, r} \subseteq R \cup {t} \cup {r} /\ {r} \subseteq B /\ {r} \subseteq W \cup {"x"}
        OBVIOUS
  <2> QED BY <2>1, WritePath DEF axpy
<1>4. Path(<<d>>, o, p, L, W)
  <2>1. {r} \subseteq R \cup {t} \cup {r} \cup {r} /\ {q} \subseteq B /\ {q} \subseteq W \cup {"x"}
        OBVIOUS
  <2> QED BY <2>1, WritePath DEF Copy
<1>5. R \cup {t} \cup {r} \cup {r} \cup {q} = R \cup {t, r, q}
      OBVIOUS
<1>6. p = State(B, R \cup {t, r, q}, W)
      BY <1>5
<1> HIDE DEF k, m, n, o, p, a, b, c, d
<1>7. Path(<<c>> \o <<d>>, n, p, L, W)
      BY <1>3, <1>4, PathCat
<1>8. Path(<<c, d>>, n, p, L, W)
      BY <1>7, Prefixed
<1>9. Path(<<b>> \o <<c, d>>, m, p, L, W)
      BY <1>2, <1>8, PathCat
<1>10. Path(<<b, c, d>>, m, p, L, W)
      BY <1>9, Prefixed
<1>11. Path(<<a>> \o <<b, c, d>>, k, p, L, W)
      BY <1>1, <1>10, PathCat
<1>12. Path(<<a, b, c, d>>, k, p, L, W)
      BY <1>11, Prefixed
<1> QED BY <1>6, <1>12 DEF k, a, b, c, d

\* The five arrays of a sparse system.
LEMMA CsrIs == Listed(Csr) /\ ToSet(Csr) = Matrix \cup {"x", "b"}
<1>1. Listed(Csr) /\ ToSet(Csr) = {"row", "col", "val", "b", "x"}
      BY ListOf DEF Csr
<1> QED BY <1>1 DEF Matrix

\* CG: every pass of its loop finds its vectors, and x is downloaded last.
LEMMA ConjugateGradient == Sound(cg_csr)
<1> DEFINE U == Matrix \cup {"x", "b"}
           more == <<"r", "p", "ap", "partials", "scalar">>
           B == U \cup {"r", "p", "ap", "partials", "scalar"}
           bufs == Csr \o more
           gets == <<"x">>
           k == State(B, U, B)
           m == State(B, B, B)
           N == {"it", "go on", "more", "done"}
           L == [l \in N |-> m]
           setup == <<spmv("x", "ap"), Copy("b", "r"), axpy("ap", "r"), Copy("r", "p")>>
           bb == cg_device_dot("b", "b")
           rr == cg_device_dot("r", "r")
           pap == cg_device_dot("p", "ap")
           s1 == <<Jump({"it", "done"}), Label("it"), spmv("p", "ap")>>
           s2 == <<Jump({"go on", "done"}), Label("go on"), axpy("p", "x"), axpy("ap", "r")>>
           s3 == <<Jump({"more", "done"}), Label("more"), Launch({"r", "p"}, {"p"}),
                   Jump({"it", "done"}), Label("done")>>
<1>1. /\ Listed(<<>>) /\ Listed(more) /\ Listed(gets) /\ ToSet(gets) = {"x"}
      /\ ToSet(more) = {"r", "p", "ap", "partials", "scalar"}
      BY ListOf
<1>2. Listed(bufs) /\ ToSet(bufs) = B
  <2> HIDE DEF more
  <2> QED BY <1>1, CsrIs, ListedCat
<1>3. /\ {"partials", "scalar"} \subseteq B /\ {"partials", "scalar"} \subseteq B \cap B
      /\ "b" \in B /\ "r" \in B /\ "p" \in B /\ "ap" \in B /\ "x" \in B /\ Matrix \subseteq B
      /\ "r" \in B \cap B /\ "p" \in B \cap B /\ "ap" \in B \cap B
      /\ "r" \in B \cup {"x"} /\ "p" \in B \cup {"x"} /\ "ap" \in B \cup {"x"}
      /\ "x" \in B \cup {"x"} /\ U \subseteq B
      OBVIOUS
<1>4. /\ \A l \in N : Easy(Label(l), B, B, L, B)
      /\ \A ls \in SUBSET N : Easy(Jump(ls), B, B, L, B)
      BY EasyLabels
<1> HIDE DEF L
<1>5. Path(setup, k, State(B, U \cup {"ap", "r", "p"}, B), L, B)
  <2>1. Matrix \cup {"x", "b"} \subseteq U
        OBVIOUS
  <2> QED BY <1>3, <2>1, SetupPath
<1>6. Path(bb, State(B, U \cup {"ap", "r", "p"}, B), m, L, B)
  <2> DEFINE Q == U \cup {"ap", "r", "p"}
  <2>1. Q \cup {"partials", "scalar"} = B /\ "b" \in Q
        OBVIOUS
  <2> HIDE DEF Q, B
  <2>2. Path(bb, State(B, Q, B), m, L, B)
        BY <1>3, <2>1, DotPath
  <2> QED BY <2>2 DEF Q
<1>7. Path(rr, m, m, L, B) /\ Path(pap, m, m, L, B)
  <2> HIDE DEF B
  <2> QED BY <1>3, EasyDot
<1>8. Path(s1, m, m, L, B) /\ Path(s2, m, m, L, B) /\ Path(s3, m, m, L, B)
  <2>1. /\ Easy(spmv("p", "ap"), B, B, L, B) /\ Easy(axpy("p", "x"), B, B, L, B)
        /\ Easy(axpy("ap", "r"), B, B, L, B)
    <3> HIDE DEF B
    <3> QED BY <1>3, EasySolver
  <2>2. Easy(Launch({"r", "p"}, {"p"}), B, B, L, B)
    <3>1. {"r", "p"} \subseteq B /\ {"p"} \subseteq B /\ {"p"} \subseteq B \cup {"x"}
          OBVIOUS
    <3> QED BY <3>1, EasyOf
  <2>3. /\ Listed(s1) /\ ToSet(s1) = {Jump({"it", "done"}), Label("it"), spmv("p", "ap")}
        BY ListOf
  <2>5. /\ Listed(s2)
        /\ ToSet(s2) = {Jump({"go on", "done"}), Label("go on"), axpy("p", "x"), axpy("ap", "r")}
    <3> DEFINE a == Jump({"go on", "done"})
               b == Label("go on")
               c == axpy("p", "x")
               d == axpy("ap", "r")
    <3> HIDE DEF a, b, c, d
    <3>1. Listed(<<a, b, c, d>>) /\ ToSet(<<a, b, c, d>>) = {a, b, c, d}
          BY ListOf
    <3> QED BY <3>1 DEF a, b, c, d
  <2>6. /\ Listed(s3)
        /\ ToSet(s3) = {Jump({"more", "done"}), Label("more"), Launch({"r", "p"}, {"p"}),
                        Jump({"it", "done"}), Label("done")}
        BY ListOf
  <2>4. /\ Easy(Jump({"it", "done"}), B, B, L, B) /\ Easy(Jump({"go on", "done"}), B, B, L, B)
        /\ Easy(Jump({"more", "done"}), B, B, L, B) /\ Easy(Label("it"), B, B, L, B)
        /\ Easy(Label("go on"), B, B, L, B) /\ Easy(Label("more"), B, B, L, B)
        /\ Easy(Label("done"), B, B, L, B)
        BY <1>4
  <2> HIDE DEF B, s1, s2, s3
  <2> QED BY <2>1, <2>2, <2>3, <2>4, <2>5, <2>6, EasyRow
<1>9. /\ CgSetup = (setup \o bb) \o rr
      /\ CgLoop = (((s1 \o pap) \o s2) \o rr) \o s3
      BY DEF CgSetup, CgLoop
<1>10. cg_csr = Sized(Ladder(<<>>, bufs, Csr, CgSetup \o CgLoop, gets, {"x"}))
      BY DEF cg_csr
<1>11. ToSet(Csr) \subseteq ToSet(bufs) /\ ToSet(gets) \subseteq B /\ {"x"} \subseteq ToSet(gets)
      BY <1>1, <1>2, <1>3, CsrIs
<1> HIDE DEF setup, bb, rr, pap, s1, s2, s3, k, m, bufs, gets
<1>12. Path(CgSetup, k, m, L, B)
      BY <1>5, <1>6, <1>7, <1>9, PathCat
<1>13. Path(((s1 \o pap) \o s2) \o rr, m, m, L, B)
      BY <1>7, <1>8, PathCat
<1>14. Path(CgLoop, m, m, L, B)
      BY <1>8, <1>9, <1>13, PathCat
<1>15. Path(CgSetup \o CgLoop, k, m, L, B)
      BY <1>12, <1>14, PathCat
<1>16. Path(CgSetup \o CgLoop, State(ToSet(bufs), ToSet(Csr), B), State(ToSet(bufs), B, B), L, B)
      BY <1>2, <1>15, CsrIs DEF k, m
<1> HIDE DEF B, L
<1>17. Sound(Sized(Ladder(<<>>, bufs, Csr, CgSetup \o CgLoop, gets, {"x"})))
      BY <1>1, <1>2, <1>11, <1>16, CsrIs, MainLadder
<1> QED BY <1>10, <1>17

-----------------------------------------------------------------------------
(* The solvers that report a true residual.                                  *)

\* A step that reads what follows from x, and nothing that may be older.
LEMMA WriteFromX ==
    ASSUME NEW B, NEW R, NEW X, NEW O, NEW W, NEW L, NEW st, st.op \in {"do", "launch"},
           NEW r, st.reads = r, r \subseteq R, NEW w, st.writes = w, w \subseteq B,
           w \subseteq W, "x" \notin w, r \cap O = {}, r \cap (X \cup {"x"}) # {},
           NEW Q, Q = R \cup w, NEW Y, Y = X \cup w, NEW P, P = O \ w
    PROVE  Flow(st, At(B, R, {}, X, O), At(B, Q, {}, Y, P), L, W)
<1> DEFINE k == At(B, R, {}, X, O)
           m == At(B, Q, {}, Y, P)
           a == AfterWrite(st, k, W)
<1>1. ReadsX(st, k) /\ ~ReadsOld(st, k)
      BY DEF ReadsX, ReadsOld, At
<1>2. a.dev = B /\ a.ready = Q /\ a.got = {} \ w /\ a.ofX = Y /\ a.old = P
      BY <1>1 DEF AfterWrite, At
<1>3. After(st, k, W) = a
      BY DEF After
<1> HIDE DEF a
<1>4. Weaker(m, a)
      BY <1>2 DEF Weaker, At
<1>5. k.ready = R /\ k.dev = B
      BY DEF At
<1> HIDE DEF k, m
<1>6. Flow(st, k, m, L, W)
      BY <1>3, <1>4, <1>5 DEF Flow
<1> QED BY <1>6 DEF k, m

\* A step that reads neither.
LEMMA WriteBesideX ==
    ASSUME NEW B, NEW R, NEW X, NEW O, NEW W, NEW L, NEW st, st.op \in {"do", "launch"},
           NEW r, st.reads = r, r \subseteq R, NEW w, st.writes = w, w \subseteq B,
           w \subseteq W, "x" \notin w, r \cap O = {}, r \cap (X \cup {"x"}) = {},
           NEW Q, Q = R \cup w, NEW Y, Y = X \ w, NEW P, P = O \ w
    PROVE  Flow(st, At(B, R, {}, X, O), At(B, Q, {}, Y, P), L, W)
<1> DEFINE k == At(B, R, {}, X, O)
           m == At(B, Q, {}, Y, P)
           a == AfterWrite(st, k, W)
<1>1. ~ReadsX(st, k) /\ ~ReadsOld(st, k)
      BY DEF ReadsX, ReadsOld, At
<1>2. a.dev = B /\ a.ready = Q /\ a.got = {} \ w /\ a.ofX = Y /\ a.old = P
      BY <1>1 DEF AfterWrite, At
<1>3. After(st, k, W) = a
      BY DEF After
<1> HIDE DEF a
<1>4. Weaker(m, a)
      BY <1>2 DEF Weaker, At
<1>5. k.ready = R /\ k.dev = B
      BY DEF At
<1> HIDE DEF k, m
<1>6. Flow(st, k, m, L, W)
      BY <1>3, <1>4, <1>5 DEF Flow
<1> QED BY <1>6 DEF k, m

\* b - A x and its norm: the scalar at the end follows from x.
TrueResidual(t, s) ==
    <<spmv("x", t), Copy("b", s), axpy(t, s)>> \o cg_device_dot(s, s)

\* b - A x and its norm, recomputed: the scalar follows from the x of now.
LEMMA TrueResidualPath ==
    ASSUME NEW B, NEW R, NEW W, NEW L, Matrix \cup {"x", "b"} \subseteq R,
           W \cap (Matrix \cup {"x", "b"}) = {}, NEW t \in B \cap W, NEW s \in B \cap W,
           t # s, {"partials", "scalar"} \subseteq B \cap W, s \notin {"partials", "scalar"},
           NEW Q, Q = R \cup {t, s, "partials", "scalar"}
    PROVE  \E X, O : /\ Path(TrueResidual(t, s), State(B, R, W), At(B, Q, {}, X, O), L, W)
                     /\ "scalar" \in X
<1> DEFINE R1 == R \cup {t}
           X0 == {}
           O0 == W
           R2 == R \cup {t, s}
           R4 == R \cup {t, s, "partials"}
           X1 == {t}
           X3 == {t, s}
           X4 == {t, s, "partials"}
           X5 == {t, s, "partials", "scalar"}
           O1 == W \ {t}
           O2 == W \ {t, s}
           O4 == W \ {t, s, "partials"}
           O5 == W \ {t, s, "partials", "scalar"}
           k0 == At(B, R, {}, X0, O0)
           k1 == At(B, R1, {}, X1, O1)
           k2 == At(B, R2, {}, X1, O2)
           k3 == At(B, R2, {}, X3, O2)
           k4 == At(B, R4, {}, X4, O4)
           k5 == At(B, Q, {}, X5, O5)
           a == spmv("x", t)
           b == Copy("b", s)
           c == axpy(t, s)
           d == Launch({s, s}, {"partials"})
           e == Launch({"partials"}, {"scalar"})
           f == Get("scalar")
<1>0. /\ t \in B /\ t \in W /\ s \in B /\ s \in W /\ t # "x" /\ s # "x" /\ s # "b" /\ t # "b"
      /\ {t} \subseteq B /\ {t} \subseteq W /\ {s} \subseteq B /\ {s} \subseteq W
      /\ {"partials"} \subseteq B /\ {"partials"} \subseteq W
      /\ {"scalar"} \subseteq B /\ {"scalar"} \subseteq W
      OBVIOUS
<1>1. Flow(a, k0, k1, L, W)
  <2> DEFINE r == {"row", "col", "val", "x"}
  <2>1. a.op = "launch" /\ a.reads = r /\ a.writes = {t}
        BY DEF spmv, Launch
  <2>2. /\ r \subseteq R /\ r \cap O0 = {} /\ r \cap (X0 \cup {"x"}) # {} /\ "x" \notin {t}
        /\ R1 = R \cup {t} /\ X1 = X0 \cup {t} /\ O1 = O0 \ {t}
        BY <1>0 DEF Matrix
  <2> HIDE DEF a, r, R1, X0, X1, O0, O1
  <2> DEFINE w == a.writes
  <2>3. /\ a.op \in {"do", "launch"} /\ a.reads = r /\ r \subseteq R /\ a.writes = w
        /\ w \subseteq B /\ w \subseteq W /\ "x" \notin w
        /\ r \cap O0 = {} /\ r \cap (X0 \cup {"x"}) # {}
        /\ R1 = R \cup w /\ X1 = X0 \cup w /\ O1 = O0 \ w
        BY <1>0, <2>1, <2>2
  <2> HIDE DEF w
  <2>4. Flow(a, At(B, R, {}, X0, O0), At(B, R1, {}, X1, O1), L, W)
        BY <2>3, WriteFromX
  <2> QED BY <2>4
<1>2. Flow(b, k1, k2, L, W)
  <2> DEFINE r == {"b"}
  <2>1. b.op = "do" /\ b.reads = r /\ b.writes = {s}
        BY DEF Copy, Do
  <2>2. /\ r \subseteq R1 /\ r \cap O1 = {} /\ r \cap (X1 \cup {"x"}) = {} /\ "x" \notin {s}
        /\ R2 = R1 \cup {s} /\ X1 = X1 \ {s} /\ O2 = O1 \ {s}
        BY <1>0
  <2> HIDE DEF b, r, R1, X1, O1, R2, O2
  <2> QED BY <1>0, <2>1, <2>2, WriteBesideX
<1>3. Flow(c, k2, k3, L, W)
  <2> DEFINE r == {t, s}
  <2>1. c.op = "launch" /\ c.reads = r /\ c.writes = {s}
        BY DEF axpy, Launch
  <2>2. /\ r \subseteq R2 /\ r \cap O2 = {} /\ r \cap (X1 \cup {"x"}) # {} /\ "x" \notin {s}
        /\ R2 = R2 \cup {s} /\ X3 = X1 \cup {s} /\ O2 = O2 \ {s}
        BY <1>0
  <2> HIDE DEF c, r, R2, X1, X3, O2
  <2> QED BY <1>0, <2>1, <2>2, WriteFromX
<1>4. Flow(d, k3, k4, L, W)
  <2> DEFINE r == {s, s}
  <2>1. d.op = "launch" /\ d.reads = r /\ d.writes = {"partials"}
        BY DEF Launch
  <2>2. /\ r \subseteq R2 /\ r \cap O2 = {} /\ r \cap (X3 \cup {"x"}) # {}
        /\ "x" \notin {"partials"}
        /\ R4 = R2 \cup {"partials"} /\ X4 = X3 \cup {"partials"} /\ O4 = O2 \ {"partials"}
        BY <1>0
  <2> HIDE DEF d, r, R2, R4, X3, X4, O2, O4
  <2> QED BY <1>0, <2>1, <2>2, WriteFromX
<1>5. Flow(e, k4, k5, L, W)
  <2> DEFINE r == {"partials"}
  <2>1. e.op = "launch" /\ e.reads = r /\ e.writes = {"scalar"}
        BY DEF Launch
  <2>2. /\ r \subseteq R4 /\ r \cap O4 = {} /\ r \cap (X4 \cup {"x"}) # {}
        /\ "x" \notin {"scalar"}
        /\ Q = R4 \cup {"scalar"} /\ X5 = X4 \cup {"scalar"} /\ O5 = O4 \ {"scalar"}
        BY <1>0
  <2> HIDE DEF e, r, R4, X4, X5, O4, O5
  <2> QED BY <1>0, <2>1, <2>2, WriteFromX
<1>6. Flow(Sync, k5, k5, L, W)
  <2>1. Sync.op = "do" /\ Sync.reads = {} /\ Sync.writes = {}
        BY DEF Sync, Do
  <2> HIDE DEF X5, O5
  <2>2. /\ {} \subseteq Q /\ {} \subseteq B /\ {} \subseteq W /\ "x" \notin {}
        /\ {} \cap O5 = {} /\ {} \cap (X5 \cup {"x"}) = {}
        /\ Q = Q \cup {} /\ X5 = X5 \ {} /\ O5 = O5 \ {}
        OBVIOUS
  <2> QED BY <2>1, <2>2, WriteBesideX
<1>7. Flow(f, k5, k5, L, W)
  <2>1. f.op = "get" /\ f.buf = "scalar"
        BY DEF Get
  <2>2. "scalar" \in Q
        OBVIOUS
  <2> HIDE DEF f, X5, O5
  <2>3. After(f, k5, W) = At(B, Q, {} \cup {"scalar"}, X5, O5)
        BY <2>1 DEF After, At
  <2> DEFINE m == After(f, k5, W)
  <2>4. /\ m.dev = B /\ m.ready = Q /\ m.ofX = X5 /\ m.old = O5
        /\ k5.dev = B /\ k5.ready = Q /\ k5.got = {} /\ k5.ofX = X5 /\ k5.old = O5
        BY <2>3 DEF At
  <2> HIDE DEF k5, m
  <2>5. Weaker(k5, m)
        BY <2>4 DEF Weaker
  <2>6. "scalar" \in k5.ready
        BY <2>2, <2>4
  <2> QED BY <2>1, <2>5, <2>6 DEF Flow, m
<1>8. "scalar" \in X5
      OBVIOUS
<1>9. TrueResidual(t, s) = <<a, b, c>> \o <<d, e, Sync, f>>
      BY DEF TrueResidual, cg_device_dot
<1>10. k0 = State(B, R, W)
      BY DEF State
<1> HIDE DEF k0, k1, k2, k3, k4, a, b, c, d, e, f, X5, O5
<1>11. Path(<<a, b, c>>, k0, k3, L, W)
  <2>1. Path(<<a>>, k0, k1, L, W) /\ Path(<<b>>, k1, k2, L, W) /\ Path(<<c>>, k2, k3, L, W)
        BY <1>1, <1>2, <1>3, PathOne
  <2>2. Path(<<b>> \o <<c>>, k1, k3, L, W)
        BY <2>1, PathCat
  <2>3. Path(<<b, c>>, k1, k3, L, W)
        BY <2>2, Prefixed
  <2>4. Path(<<a>> \o <<b, c>>, k0, k3, L, W)
        BY <2>1, <2>3, PathCat
  <2> QED BY <2>4, Prefixed
<1>12. Path(<<d, e, Sync, f>>, k3, k5, L, W)
  <2> DEFINE g == Sync
  <2> HIDE DEF k5, g
  <2>1. /\ Path(<<d>>, k3, k4, L, W) /\ Path(<<e>>, k4, k5, L, W)
        /\ Path(<<g>>, k5, k5, L, W) /\ Path(<<f>>, k5, k5, L, W)
        BY <1>4, <1>5, <1>6, <1>7, PathOne DEF g
  <2>2. Path(<<g>> \o <<f>>, k5, k5, L, W)
        BY <2>1, PathCat
  <2>3. Path(<<g, f>>, k5, k5, L, W)
        BY <2>2, Prefixed
  <2>4. Path(<<e>> \o <<g, f>>, k4, k5, L, W)
        BY <2>1, <2>3, PathCat
  <2>5. Path(<<e, g, f>>, k4, k5, L, W)
        BY <2>4, Prefixed
  <2>6. Path(<<d>> \o <<e, g, f>>, k3, k5, L, W)
        BY <2>1, <2>5, PathCat
  <2>7. <<d>> \o <<e, g, f>> = <<d, e, g, f>>
        BY Prefixed
  <2>8. Path(<<d, e, g, f>>, k3, k5, L, W)
        BY <2>6, <2>7, Zenon
  <2> QED BY <2>8 DEF g
<1>13. Path(TrueResidual(t, s), State(B, R, W), At(B, Q, {}, X5, O5), L, W)
      BY <1>9, <1>10, <1>11, <1>12, PathCat
<1> QED BY <1>8, <1>13

\* A solver that ends with the norm of its true residual.
LEMMA ResidualLadder ==
    ASSUME NEW bufs, Listed(bufs), NEW ups, Listed(ups), ToSet(ups) \subseteq ToSet(bufs),
           NEW main, NEW L, NEW W, NEW Q, "x" \in Q,
           \E X, O : /\ Path(main, State(ToSet(bufs), ToSet(ups), W),
                             At(ToSet(bufs), Q, {}, X, O), L, W)
                     /\ "scalar" \in X,
           NEW p, p.body = Sized(Ladder(<<>>, bufs, ups, main, <<"x">>, {"x"})).body,
           p.outs = {"x"}, p.resid = "scalar"
    PROVE  Sound(p)
<1>1. PICK X : \E O : /\ Path(main, State(ToSet(bufs), ToSet(ups), W),
                             At(ToSet(bufs), Q, {}, X, O), L, W)
                      /\ "scalar" \in X
      OBVIOUS
<1>2. PICK O : /\ Path(main, State(ToSet(bufs), ToSet(ups), W),
                       At(ToSet(bufs), Q, {}, X, O), L, W)
               /\ "scalar" \in X
      BY <1>1
<1> DEFINE gets == <<"x">>
           q == Ladder(<<>>, bufs, ups, main, gets, {"x"})
           k == At(ToSet(bufs), Q, ToSet(gets), X, O)
           S == ToSet(bufs) \cup ToSet(ups) \cup {"x"}
<1>3. Listed(gets) /\ ToSet(gets) = {"x"} /\ Listed(<<>>)
      BY ListOf
<1>4. <<>> \in Seq(S) /\ bufs \in Seq(S) /\ ups \in Seq(S) /\ gets \in Seq(S)
      BY <1>3 DEF Listed
<1>5. ToSet(gets) \subseteq Q
      BY <1>3
<1>6. Path(main, At(ToSet(bufs), ToSet(ups), {}, {}, W), At(ToSet(bufs), Q, {}, X, O), L, W)
      BY <1>2 DEF State
<1>7. k.got = {"x"} /\ k.ofX = X
      BY <1>3 DEF At
<1> HIDE DEF gets, S
<1>8. Path(q.body, Nothing(W), k, L, W)
      BY <1>4, <1>5, <1>6, LadderFlows
<1>9. p.body = <<Query>> \o q.body
      BY DEF Sized, Ladder, Bridge, gets
<1> HIDE DEF q, k
<1>10. Path(<<Query>>, Nothing(W), Nothing(W), L, W)
      BY QueryPath, QueryOps
<1>13. Path(<<Query>> \o q.body, Nothing(W), k, L, W)
      BY <1>8, <1>10, PathCat
<1>11. Path(p.body, Nothing(W), k, L, W)
      BY <1>9, <1>13
<1>12. Delivered(p, k.got, k.ofX)
      BY <1>2, <1>7 DEF Delivered
<1> QED BY <1>11, <1>12, PathSound

\* A solver that ends with its true residual, from its state at the end of its
\* iterations.
LEMMA SolverSound ==
    ASSUME NEW more, Listed(more), NEW ups, Listed(ups), NEW W, W = ToSet(more),
           W \cap (Matrix \cup {"x", "b"}) = {}, {"partials", "scalar"} \subseteq W,
           NEW t \in W, NEW s \in W, t # s, s \notin {"partials", "scalar"},
           NEW B, B = Matrix \cup {"x", "b"} \cup W, ToSet(ups) \subseteq B,
           NEW main, NEW L, NEW R, Matrix \cup {"x", "b"} \subseteq R,
           Path(main, State(B, ToSet(ups), W), State(B, R, W), L, W),
           NEW p, p.outs = {"x"}, p.resid = "scalar",
           p.body = Sized(Ladder(<<>>, Csr \o more, ups, main \o TrueResidual(t, s),
                                 <<"x">>, {"x"})).body
    PROVE  Sound(p)
<1> DEFINE bufs == Csr \o more
           all == main \o TrueResidual(t, s)
           Q == R \cup {t, s, "partials", "scalar"}
<1>1. Listed(bufs) /\ ToSet(bufs) = B
      BY CsrIs, ListedCat
<1>2. \E X, O : /\ Path(TrueResidual(t, s), State(B, R, W), At(B, Q, {}, X, O), L, W)
                /\ "scalar" \in X
  <2>1. t \in B \cap W /\ s \in B \cap W /\ {"partials", "scalar"} \subseteq B \cap W
        OBVIOUS
  <2> QED BY <2>1, TrueResidualPath
<1>3. "x" \in Q
      OBVIOUS
<1> HIDE DEF Q, bufs
<1>4. PICK X : \E O : /\ Path(TrueResidual(t, s), State(B, R, W), At(B, Q, {}, X, O), L, W)
                      /\ "scalar" \in X
      BY <1>2
<1>5. PICK O : /\ Path(TrueResidual(t, s), State(B, R, W), At(B, Q, {}, X, O), L, W)
               /\ "scalar" \in X
      BY <1>4
<1>6. Path(all, State(B, ToSet(ups), W), At(B, Q, {}, X, O), L, W)
      BY <1>5, PathCat
<1>7. \E Y, P : /\ Path(all, State(ToSet(bufs), ToSet(ups), W),
                        At(ToSet(bufs), Q, {}, Y, P), L, W)
                /\ "scalar" \in Y
      BY <1>1, <1>5, <1>6
<1>8. p.body = Sized(Ladder(<<>>, bufs, ups, all, <<"x">>, {"x"})).body
      BY DEF bufs
<1>9. ToSet(ups) \subseteq ToSet(bufs)
      BY <1>1
<1> HIDE DEF all
<1> QED BY <1>1, <1>3, <1>7, <1>8, <1>9, ResidualLadder

\* GMRES: any restarts, columns and orthogonalisations, then the true residual.
LEMMA RestartedGmres == Sound(gmres_csr)
<1> DEFINE U == Matrix \cup {"x", "b"}
           W == {"r", "V", "partials", "scalar"}
           more == <<"r", "V", "partials", "scalar">>
           B == U \cup W
           C == U \cup {"partials", "scalar"}
           u == State(B, U, W)
           c == State(B, C, W)
           m == State(B, B, W)
           M == {"basis", "column", "ortho", "norm", "scale", "next", "update"}
           N == {"cycle", "done"}
           L == [l \in M \cup N |-> IF l \in N THEN c ELSE m]
           bb == cg_device_dot("b", "b")
           rr == cg_device_dot("r", "r")
           vv == cg_device_dot("V", "V")
           host == <<Host(GmresScratch)>>
           enter == <<Jump({"cycle", "done"})>>
           again == <<Label("cycle")>>
           resid == <<spmv("x", "V"), Copy("b", "r"), axpy("V", "r")>>
           s1 == <<Jump({"cycle", "done"}), Label("cycle"), spmv("x", "V"), Copy("b", "r"),
                   axpy("V", "r")>>
           s2 == <<Jump({"basis", "done"}), Label("basis"), Put("V"), Copy("r", "V"),
                   Launch({"V"}, {"V"}), Label("column"), spmv("V", "V"), Label("ortho")>>
           s3 == <<axpy("V", "V"), Jump({"ortho", "norm"}), Label("norm")>>
           s4 == <<Jump({"scale", "next"}), Label("scale"), Launch({"V"}, {"V"}), Label("next"),
                   Jump({"column", "update"}), Label("update"), axpy("V", "x"),
                   Jump({"update", "cycle", "done"}), Label("done")>>
<1>1. Listed(more) /\ ToSet(more) = W
      BY ListOf
<1>2. /\ DOMAIN L = M \cup N /\ \A l \in N : L[l] = c
      /\ \A l \in M : L[l] = m
      OBVIOUS
<1>3. /\ U \subseteq C /\ C \subseteq B /\ U \subseteq B /\ Matrix \subseteq B
      /\ C \in SUBSET B /\ B \in SUBSET B
      OBVIOUS
<1>4. /\ {"partials", "scalar"} \subseteq B \cap W /\ {"partials", "scalar"} \subseteq B
      /\ "r" \in B /\ "V" \in B /\ "x" \in B /\ "b" \in U
      /\ "r" \in B \cap W /\ "V" \in B \cap W /\ "r" \in W \cup {"x"} /\ "V" \in W \cup {"x"}
      /\ "x" \in W \cup {"x"} /\ {"V"} \subseteq B /\ {"V"} \subseteq W \cup {"x"}
      OBVIOUS
<1>5. U \cup {"partials", "scalar"} = C /\ C \cup {"V", "r"} = B
      OBVIOUS
<1> HIDE DEF L
<1>6. /\ \A l \in N : Easy(Label(l), B, C, L, W)
      /\ \A ls \in SUBSET N : Easy(Jump(ls), B, C, L, W)
  <2>1. N \subseteq DOMAIN L
        BY <1>2
  <2> HIDE DEF N, B, C, W
  <2> QED BY <1>2, <2>1, EasyLabels
<1>7. /\ \A l \in M : Easy(Label(l), B, B, L, W)
      /\ \A ls \in SUBSET (M \cup N) : Easy(Jump(ls), B, B, L, W)
  <2>1. \A l \in M : l \in DOMAIN L /\ L[l] = State(B, B, W)
        BY <1>2
  <2>2. \A l \in M \cup N : l \in DOMAIN L /\ \E Q \in SUBSET B : L[l] = State(B, Q, W)
        BY <1>2, <1>3
  <2> HIDE DEF M, N, B, C, W
  <2>3. \A l \in M : Easy(Label(l), B, B, L, W)
        BY <2>1, EasyOf
  <2>4. ASSUME NEW ls \in SUBSET (M \cup N) PROVE Easy(Jump(ls), B, B, L, W)
    <3>1. \A l \in ls : l \in DOMAIN L /\ \E Q \in SUBSET B : L[l] = State(B, Q, W)
          BY <2>2
    <3> QED BY <3>1, EasyOf
  <2> QED BY <2>3, <2>4
<1>8. Path(bb, u, c, L, W)
  <2> HIDE DEF U, B, C, W
  <2> QED BY <1>4, <1>5, DotPath
<1>9. Path(rr, m, m, L, W) /\ Path(vv, m, m, L, W)
  <2> HIDE DEF U, B, C, W
  <2> QED BY <1>4, EasyDot
<1>10. Path(host, c, c, L, W)
  <2>1. Host(GmresScratch).op = "host"
        BY DEF Host
  <2> QED BY <2>1, QueryPath
<1>11. Path(s1, c, m, L, W)
  <2>1. Easy(Jump({"cycle", "done"}), B, C, L, W) /\ Easy(Label("cycle"), B, C, L, W)
        BY <1>6
  <2>2. Path(resid, c, m, L, W)
    <3>1. Matrix \cup {"x", "b"} \subseteq C
          OBVIOUS
    <3> HIDE DEF B, C, W
    <3> QED BY <1>4, <1>5, <3>1, ResidualPath
  <2> HIDE DEF B, C, W
  <2>3. Path(enter, c, c, L, W) /\ Path(again, c, c, L, W)
        BY <2>1, EasyFlows, PathOne
  <2> HIDE DEF c, m
  <2>4. Path(again \o resid, c, m, L, W)
        BY <2>2, <2>3, PathCat
  <2>5. Path(enter \o (again \o resid), c, m, L, W)
        BY <2>3, <2>4, PathCat
  <2>6. enter \o (again \o resid) = s1
    <3> DEFINE a == Jump({"cycle", "done"})
               b == Label("cycle")
               d == spmv("x", "V")
               e == Copy("b", "r")
               f == axpy("V", "r")
    <3> HIDE DEF a, b, d, e, f
    <3>1. <<b>> \o <<d, e, f>> = <<b, d, e, f>>
          BY Prefixed
    <3>2. <<a>> \o <<b, d, e, f>> = <<a, b, d, e, f>>
          BY Prefixed
    <3> QED BY <3>1, <3>2 DEF a, b, d, e, f
  <2> QED BY <2>5, <2>6
<1>12. /\ Easy(spmv("V", "V"), B, B, L, W) /\ Easy(axpy("V", "V"), B, B, L, W)
       /\ Easy(axpy("V", "x"), B, B, L, W) /\ Easy(Copy("r", "V"), B, B, L, W)
       /\ Easy(Put("V"), B, B, L, W) /\ Easy(Launch({"V"}, {"V"}), B, B, L, W)
  <2> HIDE DEF B, W
  <2>1. Easy(Launch({"V"}, {"V"}), B, B, L, W)
        BY <1>4, EasyOf
  <2> QED BY <1>3, <1>4, <2>1, EasySolver
<1>13. /\ Easy(Jump({"basis", "done"}), B, B, L, W) /\ Easy(Label("basis"), B, B, L, W)
       /\ Easy(Label("column"), B, B, L, W) /\ Easy(Label("ortho"), B, B, L, W)
       /\ Easy(Jump({"ortho", "norm"}), B, B, L, W) /\ Easy(Label("norm"), B, B, L, W)
      BY <1>7
<1>14. /\ Easy(Jump({"scale", "next"}), B, B, L, W) /\ Easy(Label("scale"), B, B, L, W)
       /\ Easy(Label("next"), B, B, L, W) /\ Easy(Jump({"column", "update"}), B, B, L, W)
       /\ Easy(Label("update"), B, B, L, W)
       /\ Easy(Jump({"update", "cycle", "done"}), B, B, L, W)
      BY <1>7
<1>15. Path(s2, m, m, L, W)
  <2> DEFINE a == Jump({"basis", "done"})
             b == Label("basis")
             d == Put("V")
             e == Copy("r", "V")
             f == Launch({"V"}, {"V"})
             g == Label("column")
             h == spmv("V", "V")
             i == Label("ortho")
             s == <<a, b, d, e, f, g, h, i>>
  <2>1. /\ Easy(a, B, B, L, W) /\ Easy(b, B, B, L, W) /\ Easy(d, B, B, L, W)
        /\ Easy(e, B, B, L, W) /\ Easy(f, B, B, L, W) /\ Easy(g, B, B, L, W)
        /\ Easy(h, B, B, L, W) /\ Easy(i, B, B, L, W)
        BY <1>12, <1>13
  <2> HIDE DEF a, b, d, e, f, g, h, i, B, W
  <2>2. Listed(s) /\ ToSet(s) = {a, b, d, e, f, g, h, i}
        BY ListOf
  <2> HIDE DEF s
  <2>3. Path(s, m, m, L, W)
        BY <2>1, <2>2, EasyRow
  <2> QED BY <2>3 DEF s, a, b, d, e, f, g, h, i
<1>16. Path(s3, m, m, L, W)
  <2>1. Listed(s3) /\ ToSet(s3) = {axpy("V", "V"), Jump({"ortho", "norm"}), Label("norm")}
        BY ListOf
  <2> HIDE DEF s3, B, W
  <2> QED BY <1>12, <1>13, <2>1, EasyRow
<1>17. Path(s4, m, c, L, W)
  <2> DEFINE n == 8
             a == Jump({"scale", "next"})
             b == Label("scale")
             d == Launch({"V"}, {"V"})
             e == Label("next")
             f == Jump({"column", "update"})
             g == Label("update")
             h == axpy("V", "x")
             i == Jump({"update", "cycle", "done"})
             j == Label("done")
             S == {a, b, d, e, f, g, h, i, j}
             s == <<a, b, d, e, f, g, h, i, j>>
  <2>1. /\ Easy(a, B, B, L, W) /\ Easy(b, B, B, L, W) /\ Easy(d, B, B, L, W)
        /\ Easy(e, B, B, L, W) /\ Easy(f, B, B, L, W) /\ Easy(g, B, B, L, W)
        /\ Easy(h, B, B, L, W) /\ Easy(i, B, B, L, W)
        BY <1>12, <1>14
  <2>2. Easy(j, B, C, L, W)
        BY <1>6
  <2>3. i.op = "jump"
        BY DEF Jump
  <2> HIDE DEF a, b, d, e, f, g, h, i, j, B, C, W
  <2>4. /\ s[1] = a /\ s[2] = b /\ s[3] = d /\ s[4] = e /\ s[5] = f /\ s[6] = g /\ s[7] = h
        /\ s[8] = i /\ s[9] = j /\ Len(s) = 9
        OBVIOUS
  <2>5. s \in Seq(S)
        OBVIOUS
  <2> HIDE DEF s, S
  <2>6. \A k \in 1 .. 8 : Easy(s[k], B, B, L, W)
    <3>1. \A k \in 1 .. 8 : k \in {1, 2, 3, 4, 5, 6, 7, 8}
          OBVIOUS
    <3> QED BY <2>1, <2>4, <3>1
  <2>7. /\ n \in Nat \ {0} /\ Len(s) = n + 1 /\ \A k \in 1 .. n : Easy(s[k], B, B, L, W)
        /\ s[n].op = "jump" /\ Easy(s[n + 1], B, C, L, W)
        BY <2>2, <2>3, <2>4, <2>6
  <2> HIDE DEF n
  <2>8. Path(s, m, c, L, W)
        BY <2>5, <2>7, EasyThenLabel
  <2> QED BY <2>8 DEF s, a, b, d, e, f, g, h, i, j
<1>18. GmresCycle = (((((s1 \o rr) \o s2) \o vv) \o s3) \o vv) \o s4
      BY DEF GmresCycle
<1>19. /\ GmresTrueResidual = TrueResidual("V", "r")
       /\ gmres_csr.outs = {"x"} /\ gmres_csr.resid = "scalar"
       /\ gmres_csr.body =
              Sized(Ladder(<<>>, Csr \o more, Csr,
                           ((bb \o host) \o GmresCycle) \o GmresTrueResidual,
                           <<"x">>, {"x"})).body
  <2>1. GmresTrueResidual = TrueResidual("V", "r")
        BY DEF GmresTrueResidual, TrueResidual
  <2> HIDE DEF bb, host, more
  <2>2. gmres_csr = [Sized(Ladder(<<>>, Csr \o more, Csr,
                           ((bb \o host) \o GmresCycle) \o GmresTrueResidual,
                           <<"x">>, {"x"})) EXCEPT !.resid = "scalar", !.hosts = GmresScratch]
        BY DEF gmres_csr, bb, host, more
  <2> QED BY <2>1, <2>2 DEF Sized, Ladder, Bridge
<1> HIDE DEF bb, rr, vv, host, s1, s2, s3, s4, u, c, m, more
<1>20. Path((((s1 \o rr) \o s2) \o vv), c, m, L, W)
      BY <1>9, <1>11, <1>15, PathCat
<1>21. Path(((((s1 \o rr) \o s2) \o vv) \o s3) \o vv, c, m, L, W)
      BY <1>9, <1>16, <1>20, PathCat
<1>22. Path(GmresCycle, c, c, L, W)
      BY <1>17, <1>18, <1>21, PathCat
<1>23. Path((bb \o host) \o GmresCycle, u, c, L, W)
      BY <1>8, <1>10, <1>22, PathCat
<1> DEFINE main == (bb \o host) \o GmresCycle
<1>24. /\ W \cap (Matrix \cup {"x", "b"}) = {} /\ {"partials", "scalar"} \subseteq W
       /\ "V" \in W /\ "r" \in W /\ "V" # "r" /\ "r" \notin {"partials", "scalar"}
       /\ B = Matrix \cup {"x", "b"} \cup W /\ Matrix \cup {"x", "b"} \subseteq C
      BY DEF Matrix
<1>25. Path(main, State(B, ToSet(Csr), W), State(B, C, W), L, W)
      BY <1>23, CsrIs DEF u, c
<1>26. Listed(Csr) /\ ToSet(Csr) \subseteq B
      BY <1>3, CsrIs
<1>27. gmres_csr.body = Sized(Ladder(<<>>, Csr \o more, Csr, main \o TrueResidual("V", "r"),
                                    <<"x">>, {"x"})).body
      BY <1>19
<1> HIDE DEF main, B, C, W, L
<1> QED BY <1>1, <1>19, <1>24, <1>25, <1>26, <1>27, SolverSound

\* BiCGSTAB: any iterations, full or half or broken down, then the true residual.
LEMMA Bicgstab == Sound(bicgstab_csr)
<1> DEFINE U == Matrix \cup {"x", "b"}
           W == {"r", "rhat", "p", "v", "s", "t", "partials", "scalar"}
           more == <<"r", "rhat", "p", "v", "s", "t", "partials", "scalar">>
           zeroed == <<"p", "v">>
           ups == zeroed \o Csr
           B == U \cup W
           P == U \cup {"p", "v"}
           P3 == P \cup {"t", "r", "rhat"}
           C == U \cup {"r", "rhat", "p", "v", "t", "partials", "scalar"}
           u == State(B, P, W)
           u3 == State(B, P3, W)
           c == State(B, C, W)
           m == State(B, B, W)
           M == {"half", "full", "omega"}
           N == {"it", "rho", "alpha", "done"}
           L == [l \in M \cup N |-> IF l \in N THEN c ELSE m]
           dot(a, b) == cg_device_dot(a, b)
           setup == <<spmv("x", "t"), Copy("b", "r"), axpy("t", "r"), Copy("r", "rhat")>>
           s1 == <<Jump({"it", "done"}), Label("it")>>
           s2 == <<Jump({"rho", "done"}), Label("rho"), Launch({"r", "v", "p"}, {"p"}),
                   spmv("p", "v")>>
           s3 == <<Jump({"alpha", "done"}), Label("alpha"), Copy("r", "s"), axpy("v", "s")>>
           s4 == <<Jump({"half", "full"}), Label("half"), axpy("p", "x"), Jump({"done"}),
                   Label("full"), spmv("s", "t")>>
           s5 == <<Jump({"omega", "done"}), Label("omega")>>
           s6 == <<axpy("p", "x"), axpy("s", "x"), Copy("s", "r"), axpy("t", "r")>>
           s7 == <<Jump({"it", "done"}), Label("done")>>
           d1 == cg_device_dot("b", "b")
           d2 == cg_device_dot("r", "r")
           d3 == cg_device_dot("rhat", "r")
           d4 == cg_device_dot("rhat", "v")
           d5 == cg_device_dot("s", "s")
           d6 == cg_device_dot("t", "t")
           d7 == cg_device_dot("t", "s")
<1>1. /\ Listed(more) /\ ToSet(more) = W
      /\ Listed(zeroed) /\ ToSet(zeroed) = {"p", "v"}
      BY ListOf
<1>2. /\ DOMAIN L = M \cup N /\ \A l \in N : L[l] = c
      /\ \A l \in M : L[l] = m
      OBVIOUS
<1>3. /\ C \subseteq B /\ Matrix \subseteq B /\ Matrix \subseteq C
      /\ C \in SUBSET B /\ B \in SUBSET B /\ C \in SUBSET C
      OBVIOUS
<1>4. /\ {"partials", "scalar"} \subseteq B \cap W /\ {"partials", "scalar"} \subseteq B
      /\ {"partials", "scalar"} \subseteq C
      /\ "t" \in B \cap W /\ "r" \in B \cap W /\ "rhat" \in B \cap W
      /\ "r" \in B /\ "p" \in B /\ "v" \in B /\ "s" \in B /\ "t" \in B /\ "x" \in B
      /\ "r" \in C /\ "rhat" \in C /\ "p" \in C /\ "v" \in C /\ "b" \in P3
      /\ "r" \in W \cup {"x"} /\ "p" \in W \cup {"x"} /\ "v" \in W \cup {"x"}
      /\ "s" \in W \cup {"x"} /\ "t" \in W \cup {"x"} /\ "x" \in W \cup {"x"}
      OBVIOUS
<1>5. P3 \cup {"partials", "scalar"} = C /\ C \cup {"s"} \cup {"s"} = B
      OBVIOUS
<1> HIDE DEF L
<1>6. /\ \A l \in N : Easy(Label(l), B, C, L, W)
      /\ \A ls \in SUBSET N : Easy(Jump(ls), B, C, L, W)
  <2>1. N \subseteq DOMAIN L
        BY <1>2
  <2> HIDE DEF N, B, C, W
  <2> QED BY <1>2, <2>1, EasyLabels
<1>7. /\ \A l \in M : Easy(Label(l), B, B, L, W)
      /\ \A ls \in SUBSET (M \cup N) : Easy(Jump(ls), B, B, L, W)
  <2>1. \A l \in M : l \in DOMAIN L /\ L[l] = State(B, B, W)
        BY <1>2
  <2>2. \A l \in M \cup N : l \in DOMAIN L /\ \E Q \in SUBSET B : L[l] = State(B, Q, W)
        BY <1>2, <1>3
  <2> HIDE DEF M, N, B, C, W
  <2>3. \A l \in M : Easy(Label(l), B, B, L, W)
        BY <2>1, EasyOf
  <2>4. ASSUME NEW ls \in SUBSET (M \cup N) PROVE Easy(Jump(ls), B, B, L, W)
    <3>1. \A l \in ls : l \in DOMAIN L /\ \E Q \in SUBSET B : L[l] = State(B, Q, W)
          BY <2>2
    <3> QED BY <3>1, EasyOf
  <2> QED BY <2>3, <2>4
<1>8. Path(setup, u, u3, L, W)
  <2>1. Matrix \cup {"x", "b"} \subseteq P
        OBVIOUS
  <2> HIDE DEF B, P, W
  <2> QED BY <1>4, <2>1, SetupPath
<1>9. Path(d1, u3, c, L, W)
  <2> HIDE DEF B, P3, C, W
  <2> QED BY <1>4, <1>5, DotPath
<1>10. Path(d2, c, c, L, W) /\ Path(d3, c, c, L, W) /\ Path(d4, c, c, L, W)
  <2> HIDE DEF B, C, W
  <2> QED BY <1>4, EasyDot
<1>11. Path(d2, m, m, L, W) /\ Path(d5, m, m, L, W) /\ Path(d6, m, m, L, W)
       /\ Path(d7, m, m, L, W)
  <2> HIDE DEF B, W
  <2> QED BY <1>4, EasyDot
<1>12. /\ Easy(Jump({"it", "done"}), B, C, L, W) /\ Easy(Label("it"), B, C, L, W)
       /\ Easy(Jump({"rho", "done"}), B, C, L, W) /\ Easy(Label("rho"), B, C, L, W)
       /\ Easy(Jump({"alpha", "done"}), B, C, L, W) /\ Easy(Label("alpha"), B, C, L, W)
       /\ Easy(Label("done"), B, C, L, W)
      BY <1>6
<1>13. /\ Easy(Jump({"half", "full"}), B, B, L, W) /\ Easy(Label("half"), B, B, L, W)
       /\ Easy(Jump({"done"}), B, B, L, W) /\ Easy(Label("full"), B, B, L, W)
       /\ Easy(Jump({"omega", "done"}), B, B, L, W) /\ Easy(Label("omega"), B, B, L, W)
       /\ Easy(Jump({"it", "done"}), B, B, L, W)
      BY <1>7
<1>14. Easy(spmv("p", "v"), B, C, L, W) /\ Easy(Launch({"r", "v", "p"}, {"p"}), B, C, L, W)
  <2>1. {"r", "v", "p"} \subseteq C /\ {"p"} \subseteq B /\ {"p"} \subseteq W \cup {"x"}
        OBVIOUS
  <2> HIDE DEF B, C, W
  <2>2. Easy(Launch({"r", "v", "p"}, {"p"}), B, C, L, W)
        BY <2>1, EasyOf
  <2> QED BY <1>3, <1>4, <2>2, EasySolver
<1>15. /\ Easy(axpy("p", "x"), B, B, L, W) /\ Easy(spmv("s", "t"), B, B, L, W)
       /\ Easy(axpy("s", "x"), B, B, L, W) /\ Easy(Copy("s", "r"), B, B, L, W)
       /\ Easy(axpy("t", "r"), B, B, L, W)
  <2> HIDE DEF B, W
  <2> QED BY <1>3, <1>4, EasySolver
<1>16. Path(s1, c, c, L, W)
  <2>1. Listed(s1) /\ ToSet(s1) = {Jump({"it", "done"}), Label("it")}
        BY ListOf
  <2> HIDE DEF s1, B, C, W
  <2> QED BY <1>12, <2>1, EasyRow
<1>17. Path(s2, c, c, L, W)
  <2> DEFINE e1 == Jump({"rho", "done"})
             e2 == Label("rho")
             e3 == Launch({"r", "v", "p"}, {"p"})
             e4 == spmv("p", "v")
             s == <<e1, e2, e3, e4>>
  <2>1. /\ Easy(e1, B, C, L, W) /\ Easy(e2, B, C, L, W) /\ Easy(e3, B, C, L, W)
        /\ Easy(e4, B, C, L, W)
        BY <1>12, <1>14
  <2> HIDE DEF e1, e2, e3, e4, B, C, W
  <2>2. Listed(s) /\ ToSet(s) = {e1, e2, e3, e4}
        BY ListOf
  <2> HIDE DEF s
  <2>3. Path(s, c, c, L, W)
        BY <2>1, <2>2, EasyRow
  <2> QED BY <2>3 DEF s, e1, e2, e3, e4
<1>18. Path(s3, c, m, L, W)
  <2> DEFINE e1 == Jump({"alpha", "done"})
             e2 == Label("alpha")
             e3 == Copy("r", "s")
             e4 == axpy("v", "s")
             m1 == State(B, C \cup {"s"}, W)
  <2>1. Path(<<e1>>, c, c, L, W) /\ Path(<<e2>>, c, c, L, W)
    <3> HIDE DEF e1, e2, B, C, W
    <3>1. Easy(e1, B, C, L, W) /\ Easy(e2, B, C, L, W)
          BY <1>12 DEF e1, e2
    <3> QED BY <3>1, EasyFlows, PathOne
  <2>2. Path(<<e3>>, c, m1, L, W)
    <3>1. {"r"} \subseteq C /\ {"s"} \subseteq B /\ {"s"} \subseteq W \cup {"x"}
          OBVIOUS
    <3> HIDE DEF B, C, W
    <3> QED BY <3>1, WritePath DEF Copy
  <2>3. Path(<<e4>>, m1, m, L, W)
    <3>1. {"v", "s"} \subseteq C \cup {"s"} /\ {"s"} \subseteq B /\ {"s"} \subseteq W \cup {"x"}
          OBVIOUS
    <3> HIDE DEF B, C, W
    <3> QED BY <1>5, <3>1, WritePath DEF axpy
  <2>4. s3 = <<e1, e2, e3, e4>>
        OBVIOUS
  <2> HIDE DEF e1, e2, e3, e4, c, m, m1, s3
  <2>5. Path(<<e3>> \o <<e4>>, c, m, L, W)
        BY <2>2, <2>3, PathCat
  <2>6. Path(<<e3, e4>>, c, m, L, W)
        BY <2>5, Prefixed
  <2>7. Path(<<e2>> \o <<e3, e4>>, c, m, L, W)
        BY <2>1, <2>6, PathCat
  <2>8. Path(<<e2, e3, e4>>, c, m, L, W)
        BY <2>7, Prefixed
  <2>9. Path(<<e1>> \o <<e2, e3, e4>>, c, m, L, W)
        BY <2>1, <2>8, PathCat
  <2>10. Path(<<e1, e2, e3, e4>>, c, m, L, W)
        BY <2>9, Prefixed
  <2> QED BY <2>4, <2>10
<1>19. Path(s4, m, m, L, W)
  <2> DEFINE e1 == Jump({"half", "full"})
             e2 == Label("half")
             e3 == axpy("p", "x")
             e4 == Jump({"done"})
             e5 == Label("full")
             e6 == spmv("s", "t")
             s == <<e1, e2, e3, e4, e5, e6>>
  <2>1. /\ Easy(e1, B, B, L, W) /\ Easy(e2, B, B, L, W) /\ Easy(e3, B, B, L, W)
        /\ Easy(e4, B, B, L, W) /\ Easy(e5, B, B, L, W) /\ Easy(e6, B, B, L, W)
        BY <1>13, <1>15
  <2> HIDE DEF e1, e2, e3, e4, e5, e6, B, W
  <2>2. Listed(s) /\ ToSet(s) = {e1, e2, e3, e4, e5, e6}
        BY ListOf
  <2> HIDE DEF s
  <2>3. Path(s, m, m, L, W)
        BY <2>1, <2>2, EasyRow
  <2> QED BY <2>3 DEF s, e1, e2, e3, e4, e5, e6
<1>20. Path(s5, m, m, L, W)
  <2>1. Listed(s5) /\ ToSet(s5) = {Jump({"omega", "done"}), Label("omega")}
        BY ListOf
  <2> HIDE DEF s5, B, W
  <2> QED BY <1>13, <2>1, EasyRow
<1>21. Path(s6, m, m, L, W)
  <2> DEFINE e1 == axpy("p", "x")
             e2 == axpy("s", "x")
             e3 == Copy("s", "r")
             e4 == axpy("t", "r")
             s == <<e1, e2, e3, e4>>
  <2>1. /\ Easy(e1, B, B, L, W) /\ Easy(e2, B, B, L, W) /\ Easy(e3, B, B, L, W)
        /\ Easy(e4, B, B, L, W)
        BY <1>15
  <2> HIDE DEF e1, e2, e3, e4, B, W
  <2>2. Listed(s) /\ ToSet(s) = {e1, e2, e3, e4}
        BY ListOf
  <2> HIDE DEF s
  <2>3. Path(s, m, m, L, W)
        BY <2>1, <2>2, EasyRow
  <2> QED BY <2>3 DEF s, e1, e2, e3, e4
<1>22. Path(s7, m, c, L, W)
  <2> DEFINE n == 1
             a == Jump({"it", "done"})
             b == Label("done")
             s == <<a, b>>
  <2>1. a.op = "jump"
        BY DEF Jump
  <2>2. Easy(a, B, B, L, W) /\ Easy(b, B, C, L, W)
        BY <1>12, <1>13
  <2> HIDE DEF a, b, B, C, W
  <2>3. s \in Seq({a, b}) /\ s[1] = a /\ s[2] = b /\ Len(s) = 2
        OBVIOUS
  <2> HIDE DEF s
  <2>4. /\ n \in Nat \ {0} /\ Len(s) = n + 1 /\ \A k \in 1 .. n : Easy(s[k], B, B, L, W)
        /\ s[n].op = "jump" /\ Easy(s[n + 1], B, C, L, W)
        BY <2>1, <2>2, <2>3
  <2> HIDE DEF n
  <2>5. Path(s, m, c, L, W)
        BY <2>3, <2>4, EasyThenLabel
  <2> QED BY <2>5 DEF s, a, b
<1>23. /\ BicgSetup = (setup \o d1) \o d2
       /\ BicgFirstHalf = ((((s1 \o d3) \o s2) \o d4) \o s3) \o d5
       /\ BicgSecondHalf = (((((s4 \o d6) \o s5) \o d7) \o s6) \o d2) \o s7
      BY DEF BicgSetup, BicgFirstHalf, BicgSecondHalf
<1>24. BicgTrueResidual = TrueResidual("t", "s")
      BY DEF BicgTrueResidual, TrueResidual
<1> DEFINE main == (BicgSetup \o BicgFirstHalf) \o BicgSecondHalf
<1>25. /\ bicgstab_csr.outs = {"x"} /\ bicgstab_csr.resid = "scalar"
       /\ bicgstab_csr.body =
              Sized(Ladder(<<>>, Csr \o more, ups, main \o BicgTrueResidual,
                           <<"x">>, {"x"})).body
  <2> HIDE DEF main, ups, more
  <2>1. bicgstab_csr = [Sized(Ladder(<<>>, Csr \o more, ups, main \o BicgTrueResidual,
                                     <<"x">>, {"x"})) EXCEPT !.resid = "scalar"]
        BY DEF bicgstab_csr, main, ups, more
  <2> QED BY <2>1 DEF Sized, Ladder, Bridge
<1> HIDE DEF setup, s1, s2, s3, s4, s5, s6, s7, d1, d2, d3, d4, d5, d6, d7, u, u3, c, m, more
<1>26. Path(BicgSetup, u, c, L, W)
      BY <1>8, <1>9, <1>10, <1>23, PathCat
<1>27. Path((s1 \o d3) \o s2, c, c, L, W)
      BY <1>10, <1>16, <1>17, PathCat
<1>28. Path((((s1 \o d3) \o s2) \o d4) \o s3, c, m, L, W)
      BY <1>10, <1>18, <1>27, PathCat
<1>29. Path(BicgFirstHalf, c, m, L, W)
      BY <1>11, <1>23, <1>28, PathCat
<1>30. Path((s4 \o d6) \o s5, m, m, L, W)
      BY <1>11, <1>19, <1>20, PathCat
<1>31. Path((((s4 \o d6) \o s5) \o d7) \o s6, m, m, L, W)
      BY <1>11, <1>21, <1>30, PathCat
<1>32. Path(((((s4 \o d6) \o s5) \o d7) \o s6) \o d2, m, m, L, W)
      BY <1>11, <1>31, PathCat
<1>33. Path(BicgSecondHalf, m, c, L, W)
      BY <1>22, <1>23, <1>32, PathCat
<1>34. Path(main, u, c, L, W)
  <2>1. Path(BicgSetup \o BicgFirstHalf, u, m, L, W)
        BY <1>26, <1>29, PathCat
  <2> QED BY <1>33, <2>1, PathCat
<1>35. Listed(ups) /\ ToSet(ups) = P
  <2> HIDE DEF zeroed
  <2>1. Listed(ups) /\ ToSet(ups) = {"p", "v"} \cup (Matrix \cup {"x", "b"})
        BY <1>1, CsrIs, ListedCat
  <2> QED BY <2>1
<1>36. /\ W \cap (Matrix \cup {"x", "b"}) = {} /\ {"partials", "scalar"} \subseteq W
       /\ "t" \in W /\ "s" \in W /\ "t" # "s" /\ "s" \notin {"partials", "scalar"}
       /\ B = Matrix \cup {"x", "b"} \cup W /\ Matrix \cup {"x", "b"} \subseteq C
       /\ P \subseteq B
      BY DEF Matrix
<1>37. Path(main, State(B, ToSet(ups), W), State(B, C, W), L, W)
      BY <1>34, <1>35 DEF u, c
<1>38. ToSet(ups) \subseteq B
      BY <1>35, <1>36
<1>39. bicgstab_csr.body = Sized(Ladder(<<>>, Csr \o more, ups, main \o TrueResidual("t", "s"),
                                       <<"x">>, {"x"})).body
      BY <1>24, <1>25
<1> HIDE DEF main, ups, B, C, P, W, L
<1> QED BY <1>1, <1>25, <1>35, <1>36, <1>37, <1>38, <1>39, SolverSound

-----------------------------------------------------------------------------
(* What follows for the 31 bridges.                                          *)

\* Each bridge has a certificate.
LEMMA BridgesSound == \A p \in Bridges : Sound(p)
BY OneKernelBridges, MoreKernelBridges, BatchedBridges, TwoKernelBridges, SimulationBridges,
   SearchBridge, GraphBridge, SimulatedBridge, ConjugateGradient, RestartedGmres, Bicgstab
   DEF Bridges

\* Calls of bridges keep to their certificates.
LEMMA FlowAlways == ASSUME Programs \subseteq Bridges PROVE Spec => [](IInv /\ FlowInv)
<1>1. \A p \in Programs : Sound(p)
      BY BridgesSound
<1> QED BY <1>1, FlowHeld

\* No kernel and no copy of any bridge reads device memory that is not
\* allocated or that nothing has been written to, in any pass of its loops,
\* however many threads call bridges and whichever of their steps fail.
THEOREM ReadsAreReadyAlways ==
    ASSUME Programs \subseteq Bridges
    PROVE  Spec => []ReadsAreReady
<1>1. IInv /\ FlowInv => ReadsAreReady
  <2> SUFFICES ASSUME IInv, FlowInv, NEW t \in Threads, call[t].phase = "run",
                      call[t].pc <= Len(call[t].prog.body)
               PROVE  /\ Step(t).op \in {"do", "launch"} =>
                             /\ Step(t).reads \subseteq call[t].ready \cap call[t].dev
                             /\ Step(t).writes \subseteq call[t].dev
                      /\ Step(t).op = "get" => Step(t).buf \in call[t].ready \cap call[t].dev
      BY Zenon DEF ReadsAreReady
  <2> DEFINE c == call[t]
             n == Len(c.prog.body)
  <2>1. CallOK(c)
        BY DEF IInv, CallsOK
  <2>2. c.pc \in Nat \ {0} /\ n \in Nat
        BY <2>1 DEF CallOK, Tidy
  <2>3. PICK K, L, W : Cert(c.prog, K, L, W) /\ Sat(c, K[c.pc], W)
        BY Zenon DEF FlowInv, Fits
  <2>4. c.pc \in 1 .. n
        BY <2>2
  <2>5. Flow(Step(t), K[c.pc], K[c.pc + 1], L, W)
        BY <2>3, <2>4, Zenon DEF Cert, Flows, Step
  <2> QED BY <2>3, <2>5 DEF Flow, Sat
<1> QED BY <1>1, FlowAlways, PTL

\* A call of any bridge that reports success has downloaded every result after
\* the last write to it.
THEOREM OkDeliversAlways ==
    ASSUME Programs \subseteq Bridges
    PROVE  Spec => []OkDelivers
<1>1. FlowInv => OkDelivers
      BY DEF FlowInv, Fits, Delivered, OkDelivers, Returned
<1> QED BY <1>1, FlowAlways, PTL

\* The residual that a solver reports on success follows from the x it returns,
\* whichever of its exits it took.
THEOREM ResidIsOfXAlways ==
    ASSUME Programs \subseteq Bridges
    PROVE  Spec => []ResidIsOfX
<1>1. FlowInv => ResidIsOfX
      BY DEF FlowInv, Fits, Delivered, ResidIsOfX, Returned
<1> QED BY <1>1, FlowAlways, PTL

=============================================================================
