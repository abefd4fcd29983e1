---------------------------- MODULE BlockKernels ----------------------------
(***************************************************************************)
(* The CUDA kernels whose threads meet at __syncthreads(), as one block of *)
(* n threads runs them; n is 256 in the code and a power of two here.  A   *)
(* statement is taken by each thread when it likes, a barrier by all of    *)
(* them at once.  A cell is a word or an element of an array; of an array  *)
(* whose elements the threads share out, the elements of one thread are    *)
(* one cell.  Numbers are kept where control depends on them (status and   *)
(* costs) or where a sum must hold every term once (sums are bags).        *)
(***************************************************************************)
EXTENDS Integers, Sequences, FiniteSetsExt, Bags

CONSTANTS
    Kernels,  \* the kernels to run: [n, powers, body, want]
    MaxIter,  \* max_iter of the solvers
    MaxInner, \* kMaxInner, 40 in the code
    Huge,     \* the damping above 1e18, as a number of times it was raised
    Systems,  \* systems, or problems, one block works through
    SegPaths  \* kMcSegPaths and kLsmSegPaths, 4096 in the code

ASSUME BlockAssumption == Systems \in Nat /\ SegPaths \in Nat \ {0}

Ids(n) == 0 .. n - 1
Word(c) == {<<c, 0>>}

Infinite == 3  \* a cost that is not finite
Numbers == 0 .. Infinite + Huge + MaxIter * MaxInner

-----------------------------------------------------------------------------
(* Statements.  own and all name the arrays a thread reads its own cell and  *)
(* every cell of, w those it writes its own cell of.                         *)

Bar == <<[op |-> "bar"]>>
Label(l) == <<[op |-> "label", name |-> l]>>
Goto(l) == <<[op |-> "goto", to |-> l]>>
Do(own, all, w) == <<[op |-> "do", own |-> own, all |-> all, w |-> w]>>
\* Thread t sets each to in d[t] to a bag, or to the sum at left plus the sum
\* at right turned by twist; thread 0, ending a sum, settles what it decides.
Store(c, bag) == [to |-> c, from |-> {}, bag |-> bag]
Add(c, left, right, twist) ==
    [to |-> c, from |-> {left, right}, left |-> left, right |-> right, twist |-> twist]
Sum(own, d, vals) == <<[op |-> "sum", own |-> own, d |-> d, vals |-> vals]>>
\* Thread t reads the finished sums in cells[t].
Result(cells) == <<[op |-> "result", cells |-> cells]>>
\* Thread 0 reads words and arrays and stores one of vals in word c.
Publish(c, vals, words, all) ==
    <<[op |-> "publish", cell |-> c, vals |-> vals, words |-> words, all |-> all]>>
Read(c) == <<[op |-> "read", cell |-> c]>>
Compare(c, d) == <<[op |-> "compare", left |-> c, right |-> d]>>
Branch(on, l) == <<[op |-> "branch", on |-> on, to |-> l]>>
\* for (counter = 0; counter < max; ++counter)
Start(c) == <<[op |-> "start", counter |-> c]>>
While(c, max, l) == <<[op |-> "while", counter |-> c, max |-> max, to |-> l]>>
Again(c, l) == <<[op |-> "again", counter |-> c, to |-> l]>>
\* Thread 0 writes out_iters and out_converged, unless it read a value in off.
Report(off, words) == <<[op |-> "report", off |-> off, words |-> words]>>
\* Thread 0 multiplies the damping; accepts the cost it tried.
Raise == <<[op |-> "raise"]>>
Accept == <<[op |-> "accept"]>>

For(counter, max, label, exit, body) ==
    Start(counter) \o Label(label) \o While(counter, max, exit) \o body \o Again(counter, label)

-----------------------------------------------------------------------------
(* Sums over a block.                                                        *)

\* sdata[tid] += sdata[tid + s] for tid < s.
Fold(arrs, n, s, vals) ==
    Sum({}, [t \in Ids(n) |->
                IF t < s THEN {Add(<<a, t>>, <<a, t>>, <<a, t + s>>, 0) : a \in arrs} ELSE {}],
        IF s = 1 THEN vals ELSE {})

\* for (s = n / 2; s > 0; s >>= 1)
Folds(arrs, n, vals) ==
    LET from[s \in 0 .. n] ==
            IF s = 0 THEN <<>> ELSE Fold(arrs, n, s, vals) \o Bar \o from[s \div 2] IN
    from[n \div 2]

\* Each thread stores the sum of its own terms, then the tree folds them.
Tree(own, arrs, n, partial, vals) ==
    Sum(own, [t \in Ids(n) |-> {Store(<<a, t>>, partial[t]) : a \in arrs}], {}) \o Bar
    \o Folds(arrs, n, vals)

Totals(arrs, items) == [c \in arrs \X {0} |-> SetToBag(items \X {0})]

\* A kernel that sums terms; thread 0 stores the totals.
TreeSum(arrs, n, partial, items) ==
    [n |-> n, powers |-> 1, want |-> Totals(arrs, items),
     body |-> Tree({}, arrs, n, partial, {0})
              \o Result([t \in Ids(n) |-> IF t = 0 THEN arrs \X {0} ELSE {}])]

\* What thread t adds up when a block strides over count terms.
Strided(n, count, f) ==
    [t \in Ids(n) |->
        LET before[i \in 0 .. count] ==
                IF i = 0 THEN EmptyBag
                ELSE IF (i - 1) % n = t THEN before[i - 1] (+) f[i - 1]
                ELSE before[i - 1] IN
        before[count]]

\* What thread t of block b adds up when a grid of blocks strides over them.
GridStrided(b, blocks, n, count) ==
    [t \in Ids(n) |-> SetToBag({i \in Ids(count) : i % (blocks * n) = b * n + t} \X {0})]

BlockTerms(b, blocks, n, count) == UNION {BagToSet(GridStrided(b, blocks, n, count)[t]) : t \in Ids(n)}

GridSum(b, blocks, n, count) ==
    TreeSum({"sdata"}, n, GridStrided(b, blocks, n, count),
            {i[1] : i \in BlockTerms(b, blocks, n, count)})

qmc_poly_integrate_kernel(b, blocks, n, count) == GridSum(b, blocks, n, count)
dot_partials_kernel(b, blocks, n, count) == GridSum(b, blocks, n, count)
l2_star_discrepancy_kernel(b, blocks, n, count) == GridSum(b, blocks, n, count)

\* The block sums of one of those, folded by a single block.
reduce_partials_kernel(blocks, n, count) ==
    TreeSum({"sdata"}, n,
            Strided(n, blocks, [b \in Ids(blocks) |-> SetToBag(BlockTerms(b, blocks, n, count))]),
            Ids(count))

-----------------------------------------------------------------------------
(* Monte Carlo: paths are summed in segments of SegPaths, then the segments  *)
(* of an option by a block.                                                  *)

Nseg(paths) == (paths + SegPaths - 1) \div SegPaths

\* Mutant of Segment: the last segment of an option is full.
SegmentUnclipped(seg, paths) == seg * SegPaths .. (seg + 1) * SegPaths - 1

Segment(seg, paths) == seg * SegPaths .. Min({(seg + 1) * SegPaths, paths}) - 1

\* psum[opt * nseg + seg] holds the paths of the segment.
mc_segment_kernel(opts, paths) ==
    [idx \in Ids(opts * Nseg(paths)) |->
        LET opt == idx \div Nseg(paths)
            seg == idx - opt * Nseg(paths) IN
        SetToBag({<<<<opt, p>>, 0>> : p \in Segment(seg, paths)})]

asian_segment_kernel(opts, paths) == mc_segment_kernel(opts, paths)
mc_barrier_segment_kernel(opts, paths) == mc_segment_kernel(opts, paths)
lsm_accumulate_segment_kernel(paths) == mc_segment_kernel(1, paths)
lsm_finalize_segment_kernel(paths) == mc_segment_kernel(1, paths)

SegmentSum(arrs, opt, n, paths, psum) ==
    TreeSum(arrs, n, Strided(n, Nseg(paths), [i \in Ids(Nseg(paths)) |-> psum[opt * Nseg(paths) + i]]),
            {opt} \X Ids(paths))

mc_reduce_kernel(opt, n, opts, paths) ==
    SegmentSum({"s_sum", "s_sumsq"}, opt, n, paths, mc_segment_kernel(opts, paths))
asian_reduce_kernel(opt, n, opts, paths) ==
    SegmentSum({"s_sum", "s_sumsq"}, opt, n, paths, asian_segment_kernel(opts, paths))
mc_barrier_reduce_kernel(opt, n, opts, paths) ==
    SegmentSum({"s_sum", "s_sumsq"}, opt, n, paths, mc_barrier_segment_kernel(opts, paths))
\* Two of the eight sums.
lsm_reduce_accumulate_kernel(n, paths) ==
    SegmentSum({"m0", "b0"}, 0, n, paths, lsm_accumulate_segment_kernel(paths))
lsm_finalize_reduce_kernel(n, paths) ==
    SegmentSum({"s_sum", "s_sumsq"}, 0, n, paths, lsm_finalize_segment_kernel(paths))

-----------------------------------------------------------------------------
(* The transform.  A sum is of samples times powers of w = e^(-2 pi i / len) *)
(* with len the number of samples: the twist of a term is its power.         *)

\* The low bit of x becomes the high one, and so on; n is the number of samples.
fft_bit_reverse(n) ==
    LET reverse[m \in 1 .. n] ==
            [x \in Ids(m) |->
                IF m = 1 THEN 0 ELSE (x % 2) * (m \div 2) + reverse[m \div 2][x \div 2]] IN
    reverse[n]

fft_stage(len, samples, n) ==
    LET half == len \div 2
        Top(b) == (b \div half) * len + (b % half)
        Twist(b) == (b % half) * (samples \div len)
        Butterfly(b) ==
            LET u == <<"s", Top(b)>>
                v == <<"s", Top(b) + half>> IN
            {Add(u, u, v, Twist(b)), Add(v, u, v, Twist(b) + samples \div 2)} IN
    Sum({}, [t \in Ids(n) |-> UNION {Butterfly(b) : b \in {b \in Ids(samples \div 2) : b % n = t}}],
        {})

\* for (len = 2; len <= samples; len <<= 1)
fft_stages(samples, n) ==
    LET from[len \in 1 .. 2 * samples] ==
            IF len > samples THEN <<>> ELSE fft_stage(len, samples, n) \o Bar \o from[2 * len] IN
    from[2]

\* The factor of sample j in element k of the transform.
Transform(samples) ==
    [c \in {"s"} \X Ids(samples) |->
        SetToBag({<<j, (c[2] * j) % samples>> : j \in Ids(samples)})]

fft_batch_kernel(samples, n) ==
    LET Mine(t) == {k \in Ids(samples) : k % n = t} IN
    [n |-> n, powers |-> samples, want |-> Transform(samples),
     body |-> Sum({}, [t \in Ids(n) |->
                         {Store(<<"s", fft_bit_reverse(samples)[k]>>, SetToBag({<<k, 0>>})) :
                             k \in Mine(t)}], {}) \o Bar
              \o fft_stages(samples, n)
              \o Result([t \in Ids(n) |-> {"s"} \X Mine(t)])]

-----------------------------------------------------------------------------
(* The dot product of the solvers; each thread has one term.                 *)

DotTerms(n) == [t \in Ids(n) |-> SetToBag({<<t, 0>>})]

\* Mutant of block_dot: no barrier after the result is read.
block_dot_bare(arrs, n, vals) ==
    Tree(arrs, {"sdata"}, n, DotTerms(n), vals)
    \o Result([t \in Ids(n) |-> Word("sdata")]) \o Read("sdata")

\* What is decided on the result is one of vals.
block_dot(arrs, n, vals) ==
    Tree(arrs, {"sdata"}, n, DotTerms(n), vals)
    \o Result([t \in Ids(n) |-> Word("sdata")]) \o Read("sdata") \o Bar

ASystemEach(n, body) ==
    [n |-> n, powers |-> 1, want |-> Totals({"sdata"}, Ids(n)),
     body |-> For("sys", Systems, "system", "end", body) \o Label("end")]

\* Batched conjugate gradients, a system at a time.  A dot product decides 1:
\* below the threshold, or positive curvature.
CgIteration(n) ==
    Do({}, {"p"}, {"ap"}) \o Bar
    \o block_dot({"p", "ap"}, n, {0, 1}) \o Branch({0}, "true_residual")
    \o Do({"x", "r", "p", "ap"}, {}, {"x", "r"}) \o Bar
    \o block_dot({"r"}, n, {0, 1}) \o Branch({1}, "true_residual")
    \o Do({"r", "p"}, {}, {"p"}) \o Bar

CgResidual(n) ==
    Label("true_residual") \o Do({}, {"x"}, {"ap"}) \o Bar
    \o Do({"b", "ap"}, {}, {"ap"}) \o Bar
    \o block_dot({"ap"}, n, {0, 1}) \o Report({}, {}) \o Bar

batched_cg_kernel(n) ==
    ASystemEach(n,
        Do({"b"}, {}, {"x", "r", "p"}) \o Bar
        \o block_dot({"b"}, n, {0}) \o block_dot({"r"}, n, {0, 1}) \o Branch({1}, "true_residual")
        \o For("it", MaxIter, "iteration", "true_residual", CgIteration(n))
        \o CgResidual(n))

-----------------------------------------------------------------------------
(* Batched Levenberg-Marquardt, a problem at a time.  sh_ctrl[0] to [3] are  *)
(* lambda, fnorm2, status and fn_try2; a cost is a number, Infinite is not   *)
(* finite.                                                                   *)

\* Thread 0 decides, every thread reads it and waits before it may change.
PublishAndLatch(vals, words, all) ==
    Publish("status", vals, words, all) \o Bar \o Read("status") \o Bar

LmResiduals(theta, r) == Do({}, {theta}, {r}) \o Bar

LmStart(n) ==
    Do({"theta_out"}, {}, {"sh_theta"}) \o Publish("lambda", {0}, {}, {}) \o Bar
    \o LmResiduals("sh_theta", "r")
    \o block_dot({"r"}, n, {0}) \o Publish("fnorm2", {1}, {}, {}) \o Bar

\* A = J^T J and g = J^T r; every pair of columns is one block_dot.
LmNormalEquations(n) ==
    Do({"r"}, {"sh_theta"}, {"J"}) \o Bar
    \o block_dot({"J", "r"}, n, {0}) \o Publish("sh_g", {0}, {}, {})
    \o block_dot({"J"}, n, {0}) \o Publish("sh_A", {0}, {}, {}) \o Bar

\* 0: A or g is not finite.
LmGuard == PublishAndLatch({0, 1}, {"sh_g", "sh_A"}, {}) \o Branch({0}, "give_up")

\* 2: converged, and reported.
LmConverged ==
    Publish("status", {0, 2}, {"sh_g", "fnorm2"}, {}) \o Report({0}, {}) \o Bar
    \o Read("status") \o Bar \o Branch({2}, "write_exit")

RaiseAndRetry ==
    Raise \o Bar \o Read("lambda") \o Branch({v \in Numbers : v >= Huge}, "give_up")
    \o Again("inner", "damping")

\* The damped system is solved by thread 0.
LmSolve ==
    Publish("sh_delta", {0}, {"lambda", "sh_A", "sh_g"}, {})
    \o Publish("status", {0, 1}, {"sh_delta"}, {}) \o Bar
    \o Read("status") \o Branch({1}, "try") \o RaiseAndRetry

\* Parameters that are not finite are damped without the check on lambda.
LmTry ==
    Label("try") \o Do({"sh_theta"}, {"sh_delta"}, {"sh_theta_try"}) \o Bar
    \o Publish("status", {0, 1}, {}, {"sh_theta_try"}) \o Bar
    \o Read("status") \o Branch({1}, "evaluate") \o Raise \o Bar \o Again("inner", "damping")

LmEvaluate(n) ==
    Label("evaluate") \o LmResiduals("sh_theta_try", "rt")
    \o block_dot({"rt"}, n, {0}) \o Publish("fn_try2", {0, 1, Infinite}, {}, {}) \o Bar
    \o Read("fn_try2") \o Branch({0, 1}, "compare") \o RaiseAndRetry

\* Mutant of LmCompare: a slow thread may compare with the accepted cost.
LmCompareBare ==
    Label("compare") \o Compare("fn_try2", "fnorm2") \o Branch({1}, "accept") \o RaiseAndRetry

LmCompare ==
    Label("compare") \o Compare("fn_try2", "fnorm2") \o Bar
    \o Branch({1}, "accept") \o RaiseAndRetry

LmAccept ==
    Label("accept") \o Do({"rt"}, {}, {"r"}) \o Do({"sh_theta_try"}, {}, {"sh_theta"})
    \o Accept \o Bar

\* Mutant of LmDamping: the last try leaves without a report.
LmDampingSilent(n) ==
    Start("inner") \o Label("damping") \o While("inner", MaxInner, "write_exit")
    \o LmSolve \o LmTry \o LmEvaluate(n) \o LmCompare \o LmAccept

LmDamping(n) ==
    Start("inner") \o Label("damping") \o While("inner", MaxInner, "give_up")
    \o LmSolve \o LmTry \o LmEvaluate(n) \o LmCompare \o LmAccept

LmExit(n) ==
    Label("exhausted") \o Report({}, {"fnorm2"}) \o Goto("write_exit")
    \o Label("give_up") \o Report({}, {})
    \o Label("write_exit") \o LmResiduals("sh_theta", "r") \o block_dot({"r"}, n, {0})
    \o Do({"sh_theta"}, {}, {"theta_out"}) \o Bar

batched_lm_kernel(n) ==
    ASystemEach(n,
        LmStart(n)
        \o For("it", MaxIter, "iteration", "exhausted",
               LmNormalEquations(n) \o LmGuard \o LmConverged \o LmDamping(n))
        \o LmExit(n))

-----------------------------------------------------------------------------
VARIABLES
    kernel,  \* the kernel that runs
    pc,      \* where each thread is
    reg,     \* what each thread read, or decided, last
    count,   \* the loop counters of each thread
    val,     \* the words control depends on
    sum,     \* the sums stored so far
    log,     \* the accesses since the last barrier: [by, cell, write]
    reports  \* how often each system's out_iters and out_converged were written

vars == <<kernel, pc, reg, count, val, sum, log, reports>>

Threads == Ids(kernel.n)
Body == kernel.body
Ended(t) == pc[t] > Len(Body)
Op(t) == IF Ended(t) THEN "end" ELSE Body[pc[t]].op

Words == {"lambda", "fnorm2", "status", "fn_try2", "sh_delta", "sh_g", "sh_A", "sdata"}

Init ==
    /\ kernel \in Kernels
    /\ pc = [t \in Threads |-> 1]
    /\ reg = [t \in Threads |-> 0]
    /\ count = [t \in Threads |-> [c \in {"sys", "it", "inner"} |-> 0]]
    /\ val = [c \in Words |-> 0]
    /\ sum = EmptyBag
    /\ log = {}
    /\ reports = [s \in Ids(Systems) |-> 0]

StepTo(t, l) == pc' = [pc EXCEPT ![t] = l]
Advance(t) == StepTo(t, pc[t] + 1)
LabelAt(l) == CHOOSE i \in DOMAIN Body : Body[i].op = "label" /\ Body[i].name = l
Set(t, v) == reg' = [reg EXCEPT ![t] = v]

Touch(t, reads, writes) ==
    log' = log \cup [by : {t}, cell : reads, write : {FALSE}]
               \cup [by : {t}, cell : writes, write : {TRUE}]

Mine(t, arrs) == arrs \X {t}
Whole(arrs) == arrs \X Threads

\* Every power goes up by tw; powers of w repeat.
Twisted(b, tw, size) ==
    [x \in {<<y[1], (y[2] + tw) % size>> : y \in DOMAIN b} |-> b[<<x[1], (x[2] - tw) % size>>]]

SumIn(c) == IF c \in DOMAIN sum THEN sum[c] ELSE EmptyBag
Value(e) ==
    IF e.from = {} THEN e.bag
    ELSE SumIn(e.left) (+) Twisted(SumIn(e.right), e.twist, kernel.powers)

-----------------------------------------------------------------------------
(* One thread takes its next statement.                                      *)

Jumps(t) ==
    /\ LET s == Body[pc[t]] IN
       \/ s.op = "label" /\ Advance(t) /\ UNCHANGED count
       \/ s.op = "goto" /\ StepTo(t, LabelAt(s.to)) /\ UNCHANGED count
       \/ /\ s.op = "branch"
          /\ IF reg[t] \in s.on THEN StepTo(t, LabelAt(s.to)) ELSE Advance(t)
          /\ UNCHANGED count
       \/ /\ s.op = "start"
          /\ Advance(t)
          /\ count' = [count EXCEPT ![t][s.counter] = 0]
       \/ /\ s.op = "while"
          /\ IF count[t][s.counter] < s.max THEN Advance(t) ELSE StepTo(t, LabelAt(s.to))
          /\ UNCHANGED count
       \/ /\ s.op = "again"
          /\ StepTo(t, LabelAt(s.to))
          /\ count' = [count EXCEPT ![t][s.counter] = @ + 1]
    /\ UNCHANGED <<kernel, reg, val, sum, log, reports>>

Does(t) ==
    /\ Op(t) = "do"
    /\ LET s == Body[pc[t]] IN Touch(t, Mine(t, s.own) \cup Whole(s.all), Mine(t, s.w))
    /\ Advance(t)
    /\ UNCHANGED <<kernel, reg, count, val, sum, reports>>

Sums(t) ==
    /\ Op(t) = "sum"
    /\ LET s == Body[pc[t]]
           To(c) == CHOOSE e \in s.d[t] : e.to = c
           tos == {e.to : e \in s.d[t]} IN
       /\ Touch(t, Mine(t, s.own) \cup UNION {e.from : e \in s.d[t]}, tos)
       /\ sum' = [c \in tos \cup DOMAIN sum |-> IF c \in tos THEN Value(To(c)) ELSE sum[c]]
       /\ IF t = 0 /\ s.vals # {} THEN \E v \in s.vals : val' = [val EXCEPT !["sdata"] = v]
          ELSE UNCHANGED val
    /\ Advance(t)
    /\ UNCHANGED <<kernel, reg, count, reports>>

Results(t) ==
    /\ Op(t) = "result"
    /\ Touch(t, Body[pc[t]].cells[t], {})
    /\ Advance(t)
    /\ UNCHANGED <<kernel, reg, count, val, sum, reports>>

Publishes(t) ==
    /\ Op(t) = "publish"
    /\ LET s == Body[pc[t]] IN
       IF t = 0
       THEN /\ \E v \in s.vals : val' = [val EXCEPT ![s.cell] = v] /\ Set(t, v)
            /\ Touch(t, (s.words \X {0}) \cup Whole(s.all), Word(s.cell))
       ELSE UNCHANGED <<val, reg, log>>
    /\ Advance(t)
    /\ UNCHANGED <<kernel, count, sum, reports>>

Reads(t) ==
    /\ LET s == Body[pc[t]] IN
       \/ s.op = "read" /\ Set(t, val[s.cell]) /\ Touch(t, Word(s.cell), {})
       \/ /\ s.op = "compare"
          /\ Set(t, IF val[s.left] < val[s.right] THEN 1 ELSE 0)
          /\ Touch(t, Word(s.left) \cup Word(s.right), {})
    /\ Advance(t)
    /\ UNCHANGED <<kernel, count, val, sum, reports>>

Reports(t) ==
    /\ Op(t) = "report"
    /\ LET s == Body[pc[t]] IN
       IF t = 0 /\ reg[t] \notin s.off
       THEN /\ reports' = [reports EXCEPT ![count[t].sys] = @ + 1]
            /\ Touch(t, s.words \X {0}, {})
       ELSE UNCHANGED <<reports, log>>
    /\ Advance(t)
    /\ UNCHANGED <<kernel, reg, count, val, sum>>

\* sh_ctrl[0] *= 4 by thread 0.
Raises(t) ==
    /\ Op(t) = "raise"
    /\ IF t = 0
       THEN val' = [val EXCEPT !["lambda"] = @ + 1] /\ Touch(t, Word("lambda"), Word("lambda"))
       ELSE UNCHANGED <<val, log>>
    /\ Advance(t)
    /\ UNCHANGED <<kernel, reg, count, sum, reports>>

\* The cost that was tried becomes the cost; the damping falls, to a floor.
Accepts(t) ==
    /\ Op(t) = "accept"
    /\ IF t = 0
       THEN /\ val' = [val EXCEPT !["fnorm2"] = val["fn_try2"], !["lambda"] = Max({@ - 1, 0})]
            /\ Touch(t, Word("fn_try2") \cup Word("lambda"), Word("fnorm2") \cup Word("lambda"))
       ELSE UNCHANGED <<val, log>>
    /\ Advance(t)
    /\ UNCHANGED <<kernel, reg, count, sum, reports>>

Step(t) ==
    /\ ~Ended(t)
    /\ \/ Jumps(t)
       \/ Does(t)
       \/ Sums(t)
       \/ Results(t)
       \/ Publishes(t)
       \/ Reads(t)
       \/ Reports(t)
       \/ Raises(t)
       \/ Accepts(t)

\* __syncthreads(): all threads of the block have come.
Barrier ==
    /\ \A t \in Threads : Op(t) = "bar"
    /\ pc' = [t \in Threads |-> pc[t] + 1]
    /\ log' = {}
    /\ UNCHANGED <<kernel, reg, count, val, sum, reports>>

AllEnded ==
    /\ \A t \in Threads : Ended(t)
    /\ UNCHANGED vars

Next ==
    \/ \E t \in Threads : Step(t)
    \/ Barrier
    \/ AllEnded

Spec == Init /\ [][Next]_vars

-----------------------------------------------------------------------------
(* Properties.                                                               *)

\* Between two barriers no thread touches a cell another thread writes: the
\* result of a kernel does not depend on the order its warps are scheduled in,
\* and no slow thread reads a reduction buffer or a flag that has been reused.
NoRace ==
    \A a, b \in log : a.cell = b.cell /\ a.write => a.by = b.by

\* Threads that wait at a barrier wait at the same one, and none has left the
\* kernel meanwhile: the branches on values in shared memory are taken by all
\* threads alike.
NoDesync ==
    \A t, u \in Threads :
        Op(t) = "bar" => ~Ended(u) /\ (Op(u) = "bar" => pc[t] = pc[u])

\* A sum that is read is finished: it holds every term exactly once, and in
\* the transform each sample times the power of w that its definition gives.
ReductionsAreComplete ==
    \A t \in Threads :
        Op(t) = "result" =>
            \A c \in Body[pc[t]].cells[t] : SumIn(c) = kernel.want[c]

\* Each system's out_iters and out_converged are written once, on every way
\* out of the iteration.
ReportedOnce ==
    \A s \in Ids(Systems) :
        /\ reports[s] <= 1
        /\ s < count[0].sys => reports[s] = 1

=============================================================================
