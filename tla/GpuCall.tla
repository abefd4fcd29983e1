------------------------------- MODULE GpuCall -------------------------------
(***************************************************************************)
(* Threads of one process call the CUDA bridges of GpuPrograms.  Every     *)
(* runtime call may fail.  What the calls share is what CUDA keeps outside *)
(* of them: the host ranges that are page-locked, per process, and the     *)
(* last error, per thread, which cudaGetLastError returns and resets and   *)
(* which every failing call sets, also one whose failure the bridge        *)
(* ignores.                                                                *)
(***************************************************************************)
EXTENDS GpuPrograms, FiniteSets

CONSTANTS
    Workloads, \* what the threads do: thread -> sequence of bridges to call
    Shared     \* host arrays all threads pass, by name; others are their own

\* The bridges the workloads call.
Programs ==
    UNION {UNION {{w[t][i] : i \in DOMAIN w[t]} : t \in DOMAIN w} : w \in Workloads}

\* Every step's acquisition is named in one of the bridge's release lists.
Tidy(p) ==
    /\ Len(p.body) \in Nat /\ DOMAIN p.body = 1 .. Len(p.body)
    /\ Len(p.unpins) \in Nat /\ DOMAIN p.unpins = 1 .. Len(p.unpins)
    /\ \A i \in DOMAIN p.body :
          /\ p.body[i].op = "pin" =>
                 \E j \in DOMAIN p.unpins : p.unpins[j] = p.body[i].buf
          /\ p.body[i].op = "alloc" => p.body[i].buf \in p.frees
          /\ p.body[i].op = "host" => p.body[i].bufs \subseteq p.hosts

WorkloadsTidy ==
    /\ \A w \in Workloads : w \in [DOMAIN w -> Seq(Programs)]
    /\ \A p \in Programs : Tidy(p)

ASSUME GpuAssumption == WorkloadsTidy

VARIABLES
    todo,      \* thread -> the bridges it has yet to call
    call,      \* thread -> the call in progress, or the last one
    lastError, \* thread -> where its CUDA error comes from, "none" without one
    locked     \* the page-locked host ranges, each with the thread that did it

vars == <<todo, call, lastError, locked>>

Threads == DOMAIN todo

HostRange(t, h) == IF h \in Shared THEN <<h, 0>> ELSE <<h, t>>
LockedRanges == {l[1] : l \in locked}

\* A call of bridge p that holds and has computed nothing.
Fresh(phase, p) ==
    [phase |-> phase, prog |-> p, pc |-> 1, why |-> "none", dev |-> {}, host |-> {},
     pins |-> {}, ready |-> {}, got |-> {}, ofX |-> {}, ofOld |-> {}]
Idle == Fresh("idle", fft_batch)

Init ==
    \E w \in Workloads :
        /\ todo = w
        /\ call = [t \in DOMAIN w |-> Idle]
        /\ lastError = [t \in DOMAIN w |-> "none"]
        /\ locked = {}

-----------------------------------------------------------------------------
Step(t) == call[t].prog.body[call[t].pc]
Running(t, op) ==
    /\ call[t].phase = "run"
    /\ call[t].pc <= Len(call[t].prog.body)
    /\ Step(t).op = op

Advance(c) == [c EXCEPT !.pc = @ + 1]

\* The ladder falls through to the frees; why says where the error came from.
FailWith(c, why) == [c EXCEPT !.phase = "free", !.why = why]

\* What a step that writes ws from rs leaves: ready contents, downloads that are
\* out of date, and which buffers follow from the x of now, or of before.
Written(c, rs, ws) ==
    LET hasX == "x" \in ws
        old == rs \cap c.ofOld # {}
        cur == rs \cap (c.ofX \cup {"x"}) # {}
        ofX == IF cur /\ ~old THEN c.ofX \cup ws ELSE c.ofX \ ws
        ofOld == IF old THEN c.ofOld \cup ws ELSE c.ofOld \ ws
    IN  [c EXCEPT !.ready = @ \cup ws, !.got = @ \ ws,
                  !.ofX = IF hasX THEN {} ELSE ofX,
                  !.ofOld = IF hasX THEN (ofOld \cup ofX) \ {"x"} ELSE ofOld]

Begin(t) ==
    /\ call[t].phase \in {"idle", "done"}
    /\ todo[t] # <<>>
    /\ todo' = [todo EXCEPT ![t] = Tail(@)]
    /\ call' = [call EXCEPT ![t] = Fresh("run", Head(todo[t]))]
    /\ lastError' = [lastError EXCEPT ![t] = IF @ = "none" THEN "none" ELSE "before"]
    /\ UNCHANGED locked

\* The arguments are rejected, or there is nothing to compute.
Decline(t) ==
    /\ call[t].phase \in {"idle", "done"}
    /\ todo[t] # <<>>
    /\ todo' = [todo EXCEPT ![t] = Tail(@)]
    /\ UNCHANGED <<call, lastError, locked>>

\* The range is locked already, or the system refuses: pageable transfers.
PinFails(t) ==
    /\ Running(t, "pin")
    /\ lastError' = [lastError EXCEPT ![t] = "none"]
    /\ call' = [call EXCEPT ![t] = Advance(@)]
    /\ UNCHANGED <<todo, locked>>

\* An array below the threshold is not worth the registration.
PinSkipped(t) ==
    /\ Running(t, "pin")
    /\ call' = [call EXCEPT ![t] = Advance(@)]
    /\ UNCHANGED <<todo, lastError, locked>>

Pinned(t) ==
    LET h == Step(t).buf IN
    /\ Running(t, "pin")
    /\ HostRange(t, h) \notin LockedRanges
    /\ locked' = locked \cup {<<HostRange(t, h), t>>}
    /\ call' = [call EXCEPT ![t] = [Advance(call[t]) EXCEPT !.pins = @ \cup {h}]]
    /\ UNCHANGED <<todo, lastError>>

-----------------------------------------------------------------------------
(* Steps whose failure ends the ladder.                                      *)

Effect(c, s) ==
    CASE s.op = "alloc" -> [c EXCEPT !.dev = @ \cup {s.buf}, !.ready = @ \ {s.buf}]
      [] s.op = "do" -> Written(c, s.reads, s.writes)
      [] s.op = "get" -> [c EXCEPT !.got = @ \cup {s.buf}]

Works(t) ==
    /\ \E op \in {"alloc", "do", "get"} : Running(t, op)
    /\ call' = [call EXCEPT ![t] = Advance(Effect(@, Step(t)))]
    /\ UNCHANGED <<todo, lastError, locked>>

Fails(t) ==
    /\ \E op \in {"alloc", "do", "get"} : Running(t, op)
    /\ call' = [call EXCEPT ![t] = FailWith(@, "own")]
    /\ lastError' = [lastError EXCEPT ![t] = "own"]
    /\ UNCHANGED <<todo, locked>>

\* Host mallocs: some subset of them succeeds.
HostMalloc(t) ==
    /\ Running(t, "host")
    /\ \E got \in SUBSET Step(t).bufs :
           LET c == [call[t] EXCEPT !.host = got]
           IN  call' = [call EXCEPT ![t] = IF got = Step(t).bufs THEN Advance(c)
                                           ELSE FailWith(c, "own")]
    /\ UNCHANGED <<todo, lastError, locked>>

\* A kernel launch is checked by cudaGetLastError, which also answers for
\* whatever failed before on this thread, and resets it.
LaunchWorks(t) ==
    /\ Running(t, "launch")
    /\ lastError[t] = "none"
    /\ call' = [call EXCEPT ![t] = Advance(Written(@, Step(t).reads, Step(t).writes))]
    /\ UNCHANGED <<todo, lastError, locked>>

LaunchFails(t) ==
    /\ Running(t, "launch")
    /\ call' = [call EXCEPT ![t] = FailWith(@, IF lastError[t] = "none" THEN "own"
                                              ELSE lastError[t])]
    /\ lastError' = [lastError EXCEPT ![t] = "none"]
    /\ UNCHANGED <<todo, locked>>

\* The attribute query has a fallback; choose_blocks also clears its error.
QueryStep(t) ==
    /\ Running(t, "query")
    /\ call' = [call EXCEPT ![t] = Advance(@)]
    /\ \E ok \in BOOLEAN : lastError' = [lastError EXCEPT ![t] = IF ok THEN @ ELSE "none"]
    /\ UNCHANGED <<todo, locked>>

BareQueryStep(t) ==
    /\ Running(t, "bare_query")
    /\ call' = [call EXCEPT ![t] = Advance(@)]
    /\ \E ok \in BOOLEAN : lastError' = [lastError EXCEPT ![t] = IF ok THEN @ ELSE "query"]
    /\ UNCHANGED <<todo, locked>>

\* Loops and branches on what the host computed: any way may be taken.
JumpStep(t) ==
    /\ Running(t, "jump")
    /\ \E i \in DOMAIN call[t].prog.body :
           /\ call[t].prog.body[i].op = "label"
           /\ call[t].prog.body[i].name \in Step(t).to
           /\ call' = [call EXCEPT ![t].pc = i]
    /\ UNCHANGED <<todo, lastError, locked>>

LabelStep(t) ==
    /\ Running(t, "label")
    /\ call' = [call EXCEPT ![t] = Advance(@)]
    /\ UNCHANGED <<todo, lastError, locked>>

-----------------------------------------------------------------------------
(* The end of every bridge, whether it worked or failed.                     *)

EndOfBody(t) ==
    /\ call[t].phase = "run"
    /\ call[t].pc > Len(call[t].prog.body)
    /\ call' = [call EXCEPT ![t].phase = "free"]
    /\ UNCHANGED <<todo, lastError, locked>>

\* Mutant of FreeAll: a call that failed returns before the frees.
FreeAllOnSuccess(t) ==
    /\ call[t].phase = "free"
    /\ LET c == [call[t] EXCEPT !.phase = "unpin", !.pc = 1]
       IN  call' = [call EXCEPT ![t] = IF c.why # "none" THEN c
                                       ELSE [c EXCEPT !.dev = {}, !.host = {}]]
    /\ UNCHANGED <<todo, lastError, locked>>

\* The ladder of frees: what is not null.
FreeAll(t) ==
    /\ call[t].phase = "free"
    /\ call' = [call EXCEPT ![t].phase = "unpin", ![t].pc = 1,
                            ![t].dev = @ \ call[t].prog.frees,
                            ![t].host = @ \ call[t].prog.hosts]
    /\ UNCHANGED <<todo, lastError, locked>>

\* Mutant of Unregister: the registered flag is not looked at.
UnregisterAnyway(t, h) ==
    /\ locked' = {l \in locked : l[1] # HostRange(t, h)}
    /\ lastError' = [lastError EXCEPT ![t] = "none"]

\* host_unregister: only what this call registered; swallows the error, and
\* with it any other.
Unregister(t, h) ==
    IF h \in call[t].pins
    THEN /\ locked' = locked \ {<<HostRange(t, h), t>>}
         /\ lastError' = [lastError EXCEPT ![t] = "none"]
    ELSE UNCHANGED <<locked, lastError>>

Unpin(t) ==
    /\ call[t].phase = "unpin"
    /\ call[t].pc <= Len(call[t].prog.unpins)
    /\ LET h == call[t].prog.unpins[call[t].pc]
       IN  /\ Unregister(t, h)
           /\ call' = [call EXCEPT ![t].pins = @ \ {h}, ![t].pc = @ + 1]
    /\ UNCHANGED todo

\* The results stay in call until the thread's next call.
Return(t) ==
    /\ call[t].phase = "unpin"
    /\ call[t].pc > Len(call[t].prog.unpins)
    /\ call' = [call EXCEPT ![t].phase = "done"]
    /\ UNCHANGED <<todo, lastError, locked>>

CallStep(t) ==
    \/ Begin(t) \/ Decline(t)
    \/ PinFails(t) \/ PinSkipped(t) \/ Pinned(t)
    \/ Works(t) \/ Fails(t) \/ HostMalloc(t)
    \/ LaunchWorks(t) \/ LaunchFails(t)
    \/ QueryStep(t) \/ BareQueryStep(t) \/ JumpStep(t) \/ LabelStep(t)
    \/ EndOfBody(t) \/ FreeAll(t) \/ Unpin(t) \/ Return(t)

\* Every thread has made its calls.
AllDone ==
    /\ \A t \in Threads : todo[t] = <<>> /\ call[t].phase \in {"idle", "done"}
    /\ UNCHANGED vars

Next == AllDone \/ \E t \in Threads : CallStep(t)

Spec == Init /\ [][Next]_vars

-----------------------------------------------------------------------------
(* Properties *)

Returned(t) == call[t].phase = "done"

\* Whatever failed, a call that has returned has left no device memory, stream,
\* graph, host scratch or page-locked range behind.
ReturnsClean ==
    \A t \in Threads :
        Returned(t) => /\ call[t].dev = {} /\ call[t].host = {}
                       /\ \A l \in locked : l[2] # t

\* While a call runs, every range it registered stays locked, by it: a call of
\* another thread on the same array neither takes nor drops its registration.
PinsAreKept ==
    \A t \in Threads : \A h \in call[t].pins : <<HostRange(t, h), t>> \in locked

\* No kernel and no copy reads device memory that is not allocated or that
\* nothing has been written to: not after any failure, in any pass of a loop.
ReadsAreReady ==
    \A t \in Threads :
        (call[t].phase = "run" /\ call[t].pc <= Len(call[t].prog.body)) =>
            LET s == Step(t)
            IN  /\ s.op \in {"do", "launch"} =>
                       /\ s.reads \subseteq call[t].ready \cap call[t].dev
                       /\ s.writes \subseteq call[t].dev
                /\ s.op = "get" => s.buf \in call[t].ready \cap call[t].dev

\* A call that reports success has downloaded every result after the last
\* write to it.
OkDelivers ==
    \A t \in Threads :
        (Returned(t) /\ call[t].why = "none") =>
            call[t].prog.outs \subseteq call[t].got

\* The residual a solver reports on success follows from the x it returns, not
\* from an iterate before it.
ResidIsOfX ==
    \A t \in Threads :
        (Returned(t) /\ call[t].why = "none"
                     /\ call[t].prog.resid # "none") =>
            call[t].prog.resid \in call[t].ofX

\* gpu_bridge.h: each call returns "0 on success, or a non-zero CUDA error code
\* on failure": a code reports a failure of the call's own work.
RcIsOwn == \A t \in Threads : call[t].why \in {"none", "own"}

=============================================================================
