----------------------------- MODULE GpuPrograms -----------------------------
(***************************************************************************)
(* The host bridges of the CUDA kernels (src/src/gpu/gpu_*.cu): what each  *)
(* does to the CUDA runtime, in order.  All are "else if" ladders: the     *)
(* first call that fails gives the return code and skips to the frees.  A  *)
(* bridge is written as the sequence of its steps; module GpuCall runs it. *)
(* Buffer names are the code's, without dev_.  A copy the code skips       *)
(* because its array is empty counts as done: there is nothing to read.    *)
(***************************************************************************)
EXTENDS Integers, Sequences, SequencesExt

Each(step(_), bufs) == [i \in DOMAIN bufs |-> step(bufs[i])]

(* The steps. *)
Pin(h) == [op |-> "pin", buf |-> h]             \* host_register
Alloc(b) == [op |-> "alloc", buf |-> b]         \* cudaMalloc, or another create
Host(bs) == [op |-> "host", bufs |-> bs]        \* a group of host mallocs
Do(reads, writes) == [op |-> "do", reads |-> reads, writes |-> writes]
Put(b) == Do({}, {b})                           \* a copy to the device, a memset
Copy(from, to) == Do({from}, {to})              \* device to device
Sync == Do({}, {})
Get(b) == [op |-> "get", buf |-> b]             \* a copy to the host
Launch(reads, writes) == [op |-> "launch", reads |-> reads, writes |-> writes]
Query == [op |-> "query"]                       \* choose_blocks
BareQuery == [op |-> "bare_query"]              \* the same, errors left behind
Label(l) == [op |-> "label", name |-> l]
Jump(ls) == [op |-> "jump", to |-> ls]          \* on a value the host computed

Kernel(reads, writes) == <<Launch(reads, writes), Sync>>

\* Two kernels, no barrier between: cg_device_dot.
cg_device_dot(a, b) ==
    <<Launch({a, b}, {"partials"}), Launch({"partials"}, {"scalar"}), Sync, Get("scalar")>>

axpy(x, y) == Launch({x, y}, {y})
spmv(x, y) == Launch({"row", "col", "val", x}, {y})

-----------------------------------------------------------------------------
(* A bridge: its steps, the device memory it frees and the host memory it   *)
(* frees at the end, the ranges it unregisters, in order, the buffers whose *)
(* contents gpu_bridge.h promises, and, for a solver that promises a true  *)
(* residual, the buffer the residual is read from.                          *)

Bridge(pins, bufs, body, outs) ==
    [body |-> body, frees |-> ToSet(bufs), hosts |-> {}, unpins |-> Reverse(pins),
     outs |-> outs, resid |-> "none"]

\* Pin, allocate, upload, compute, download.
Ladder(pins, bufs, ups, main, gets, outs) ==
    Bridge(pins, bufs,
           Each(Pin, pins) \o Each(Alloc, bufs) \o Each(Put, ups) \o main \o Each(Get, gets),
           outs)

\* The grid is sized before anything is pinned.
Sized(b) == [b EXCEPT !.body = <<Query>> \o @]

-----------------------------------------------------------------------------
(* gpu_kernels.cu *)

poly_eval ==
    Ladder(<<"coeffs", "x", "out">>, <<"coeffs", "x", "out">>, <<"coeffs", "x">>,
           <<Query>> \o Kernel({"coeffs", "x"}, {"out"}), <<"out">>, {"out"})

edit_distance_batch ==
    Ladder(<<"a", "b", "out">>, <<"a", "aoff", "b", "boff", "out">>,
           <<"a", "aoff", "b", "boff">>,
           <<Query>> \o Kernel({"a", "aoff", "b", "boff"}, {"out"}), <<"out">>, {"out"})

\* Mutant of bfs_level: the flag is reset once, before the first level.
bfs_level_no_reset ==
    <<Label("level")>> \o Kernel({"row", "col", "dist", "changed"}, {"dist", "changed"})
    \o <<Get("changed"), Jump({"level", "done"}), Label("done")>>

\* One level: reset the flag, run the kernel, read the flag.
bfs_level ==
    <<Label("level"), Put("changed")>>
    \o Kernel({"row", "col", "dist", "changed"}, {"dist", "changed"})
    \o <<Get("changed"), Jump({"level", "done"}), Label("done")>>

\* dist is set to -1 everywhere, then to 0 at the source.
bfs ==
    Ladder(<<"row", "col", "dist">>, <<"row", "col", "dist", "changed">>,
           <<"row", "col", "dist", "dist">>, <<Query>> \o bfs_level, <<"dist">>, {"dist"})

nqueens_count ==
    Ladder(<<>>, <<"pc", "pd1", "pd2", "count">>, <<"pc", "pd1", "pd2", "count">>,
           <<Query>> \o Kernel({"pc", "pd1", "pd2", "count"}, {"count"}),
           <<"count">>, {"count"})

qmc_poly_integrate ==
    Sized(Ladder(<<"coeffs", "x">>, <<"coeffs", "x", "partials", "sum">>, <<"coeffs", "x">>,
                 Kernel({"coeffs", "x"}, {"partials"}) \o Kernel({"partials"}, {"sum"}),
                 <<"sum">>, {"sum"}))

haar_dwt_batch ==
    Ladder(<<"in", "out">>, <<"in", "out">>, <<"in">>,
           <<Query>> \o Kernel({"in"}, {"out"}), <<"out">>, {"out"})

batched_matmul ==
    Ladder(<<"a", "b", "c">>, <<"a", "b", "c">>, <<"a", "b">>,
           <<Query>> \o Kernel({"a", "b"}, {"c"}), <<"c">>, {"c"})

fft_batch ==
    Ladder(<<"in", "out">>, <<"in", "out">>, <<"in">>,
           Kernel({"in"}, {"out"}), <<"out">>, {"out"})

black_scholes_batch ==
    Ladder(<<>>, <<"opts", "out">>, <<"opts">>,
           <<Query>> \o Kernel({"opts"}, {"out"}), <<"out">>, {"out"})

\* The kernel is recorded into a graph, which is launched any number of times.
black_scholes_graphed ==
    [Sized(Ladder(<<>>, <<"opts", "out">>, <<"opts">>,
                  <<Alloc("stream"), Sync, Alloc("graph"), Alloc("exec"), Label("again"),
                    Do({"opts"}, {"out"}), Jump({"again", "done"}), Label("done"), Sync>>,
                  <<"out">>, {"out"}))
     EXCEPT !.frees = @ \cup {"exec", "graph", "stream"}]

-----------------------------------------------------------------------------
(* The sparse solvers: x is overwritten as they go. *)

Csr == <<"row", "col", "val", "b", "x">>

\* Setup of CG: r = b - A x, p = r, b.b and r.r.
CgSetup ==
    <<spmv("x", "ap"), Copy("b", "r"), axpy("ap", "r"), Copy("r", "p")>>
    \o cg_device_dot("b", "b") \o cg_device_dot("r", "r")

\* One pass ends the loop on a breakdown, on convergence, or at max_iters.
CgLoop ==
    <<Jump({"it", "done"}), Label("it"), spmv("p", "ap")>> \o cg_device_dot("p", "ap")
    \o <<Jump({"go on", "done"}), Label("go on"), axpy("p", "x"), axpy("ap", "r")>>
    \o cg_device_dot("r", "r")
    \o <<Jump({"more", "done"}), Label("more"), Launch({"r", "p"}, {"p"}),
         Jump({"it", "done"}), Label("done")>>

cg_csr ==
    Sized(Ladder(<<>>, Csr \o <<"r", "p", "ap", "partials", "scalar">>, Csr,
                 CgSetup \o CgLoop, <<"x">>, {"x"}))

BicgSetup ==
    <<spmv("x", "t"), Copy("b", "r"), axpy("t", "r"), Copy("r", "rhat")>>
    \o cg_device_dot("b", "b") \o cg_device_dot("r", "r")

\* Up to the half step s.
BicgFirstHalf ==
    <<Jump({"it", "done"}), Label("it")>> \o cg_device_dot("rhat", "r")
    \o <<Jump({"rho", "done"}), Label("rho"),
         Launch({"r", "v", "p"}, {"p"}), spmv("p", "v")>>
    \o cg_device_dot("rhat", "v")
    \o <<Jump({"alpha", "done"}), Label("alpha"), Copy("r", "s"), axpy("v", "s")>>
    \o cg_device_dot("s", "s")

BicgSecondHalf ==
    <<Jump({"half", "full"}), Label("half"), axpy("p", "x"), Jump({"done"}),
      Label("full"), spmv("s", "t")>>
    \o cg_device_dot("t", "t") \o <<Jump({"omega", "done"}), Label("omega")>>
    \o cg_device_dot("t", "s")
    \o <<axpy("p", "x"), axpy("s", "x"), Copy("s", "r"), axpy("t", "r")>>
    \o cg_device_dot("r", "r") \o <<Jump({"it", "done"}), Label("done")>>

\* Mutant of BicgTrueResidual: report the recurrence's own residual.
BicgRecurrenceResidual == cg_device_dot("r", "r")

\* Recomputed from the x that is returned.
BicgTrueResidual ==
    <<spmv("x", "t"), Copy("b", "s"), axpy("t", "s")>> \o cg_device_dot("s", "s")

bicgstab_csr ==
    [Sized(Ladder(<<>>, Csr \o <<"r", "rhat", "p", "v", "s", "t", "partials", "scalar">>,
                  <<"p", "v">> \o Csr,
                  BicgSetup \o BicgFirstHalf \o BicgSecondHalf \o BicgTrueResidual,
                  <<"x">>, {"x"}))
     EXCEPT !.resid = "scalar"]

GmresScratch == {"h_cs", "h_sn", "h_g", "h_H", "h_y"}

\* One restart cycle: the Arnoldi columns and the update of x from them.
GmresCycle ==
    <<Jump({"cycle", "done"}), Label("cycle"), spmv("x", "V"), Copy("b", "r"), axpy("V", "r")>>
    \o cg_device_dot("r", "r")
    \o <<Jump({"basis", "done"}), Label("basis"), Put("V"), Copy("r", "V"),
         Launch({"V"}, {"V"}), Label("column"), spmv("V", "V"), Label("ortho")>>
    \o cg_device_dot("V", "V") \o <<axpy("V", "V"), Jump({"ortho", "norm"}), Label("norm")>>
    \o cg_device_dot("V", "V")
    \o <<Jump({"scale", "next"}), Label("scale"), Launch({"V"}, {"V"}), Label("next"),
         Jump({"column", "update"}), Label("update"), axpy("V", "x"),
         Jump({"update", "cycle", "done"}), Label("done")>>

GmresTrueResidual ==
    <<spmv("x", "V"), Copy("b", "r"), axpy("V", "r")>> \o cg_device_dot("r", "r")

gmres_csr ==
    [Sized(Ladder(<<>>, Csr \o <<"r", "V", "partials", "scalar">>, Csr,
                  cg_device_dot("b", "b") \o <<Host(GmresScratch)>>
                  \o GmresCycle \o GmresTrueResidual, <<"x">>, {"x"}))
     EXCEPT !.resid = "scalar", !.hosts = GmresScratch]

BatchedIn == <<"row", "col", "val", "x_off", "nz_off", "b", "x">>
BatchedOut == <<"x", "out_iters", "out_converged", "out_resid">>

\* One block per system; the attribute query has a fallback but leaves its error.
batched_cg_csr ==
    Ladder(<<>>, BatchedIn \o <<"scratch_r", "scratch_p", "scratch_ap">> \o Tail(BatchedOut),
           <<"scratch_p", "scratch_ap">> \o BatchedIn,
           <<BareQuery>> \o Kernel(ToSet(BatchedIn),
                                   ToSet(BatchedOut) \cup {"scratch_r", "scratch_p", "scratch_ap"}),
           BatchedOut, {"x", "out_iters", "out_converged", "out_resid"})

-----------------------------------------------------------------------------
(* gpu_lmfit_kernels.cu *)

LmIn == <<"model", "t", "y", "pt_off", "theta", "th_off", "jac_off">>
LmScratch == <<"scratch_r", "scratch_rt", "scratch_J">>
LmOut == <<"theta", "out_iters", "out_converged", "out_resid">>

batched_lm_curvefit ==
    Ladder(<<>>, LmIn \o LmScratch \o Tail(LmOut), LmScratch \o LmIn,
           <<BareQuery>> \o Kernel(ToSet(LmIn) \cup ToSet(LmScratch),
                                   ToSet(LmScratch) \cup ToSet(LmOut)),
           LmOut, {"theta", "out_iters", "out_converged", "out_resid"})

-----------------------------------------------------------------------------
(* gpu_lsm_kernels.cu *)

\* One step back in time: the moments, and the update when they can be solved.
LsmStep ==
    <<Jump({"back", "final"}), Label("back")>>
    \o Kernel({"S", "cash"}, {"cash", "partials"}) \o Kernel({"partials"}, {"out8"})
    \o <<Get("out8"), Jump({"solved", "back", "final"}), Label("solved")>>
    \o Kernel({"S", "cash"}, {"cash"}) \o <<Jump({"back", "final"})>>

LsmFinal ==
    <<Label("final")>> \o Kernel({"cash"}, {"partials"}) \o Kernel({"partials"}, {"out2"})
    \o <<Get("out2"), Jump({"option", "done"}), Label("done")>>

lsm_american_batch ==
    LET bufs == <<"S", "cash", "partials", "out8", "out2">>
    IN  Bridge(<<>>, bufs,
               Each(Alloc, bufs) \o <<Query, Query, Label("option")>> \o Kernel({}, {"S", "cash"})
               \o LsmStep \o LsmFinal, {"out2"})

-----------------------------------------------------------------------------
(* gpu_pricing_kernels.cu, gpu_asian_kernels.cu, gpu_barrier_kernels.cu *)

McHost == {"pre_host", "sums_host", "sumsqs_host"}
McBufs == <<"pre", "psum", "psumsq", "sums", "sumsqs">>

\* Segment partials, then one reduction per option.
McKernels ==
    <<Query>> \o Kernel({"pre"}, {"psum", "psumsq"})
    \o Kernel({"psum", "psumsq"}, {"sums", "sumsqs"})

MonteCarlo ==
    [Ladder(<<>>, McBufs, <<"pre">>, McKernels, <<"sums", "sumsqs">>, {"sums", "sumsqs"})
     EXCEPT !.body = <<Host(McHost)>> \o @, !.hosts = McHost]

mc_european_batch == MonteCarlo
mc_asian_batch == MonteCarlo
mc_barrier_batch == MonteCarlo

bs_greeks_batch ==
    Ladder(<<>>, <<"opts", "out">>, <<"opts">>,
           <<Query>> \o Kernel({"opts"}, {"out"}), <<"out">>, {"out"})

bs_extended_greeks_batch == bs_greeks_batch

-----------------------------------------------------------------------------
(* gpu_qmc_kernels.cu *)

l2_star_discrepancy ==
    Sized(Ladder(<<"points">>, <<"points", "partials", "sum">>, <<"points">>,
                 Kernel({"points"}, {"partials"}) \o Kernel({"partials"}, {"sum"}),
                 <<"sum">>, {"sum"}))

sobol_batch ==
    Ladder(<<"out">>, <<"dir", "out">>, <<"dir">>,
           <<Query>> \o Kernel({"dir"}, {"out"}), <<"out">>, {"out"})

halton_batch ==
    Ladder(<<"out">>, <<"primes", "out">>, <<"primes">>,
           <<Query>> \o Kernel({"primes"}, {"out"}), <<"out">>, {"out"})

-----------------------------------------------------------------------------
(* gpu_control_kernels.cu, gpu_wavelet_kernels.cu, gpu_sweep_kernels.cu *)

\* Mutant of bode_sweep: the second array is not copied back.
bode_sweep_half ==
    Ladder(<<>>, <<"num", "den", "omegas", "out_mag", "out_phase">>, <<"num", "den", "omegas">>,
           <<Query>> \o Kernel({"num", "den", "omegas"}, {"out_mag", "out_phase"}),
           <<"out_mag">>, {"out_mag", "out_phase"})

bode_sweep ==
    Ladder(<<>>, <<"num", "den", "omegas", "out_mag", "out_phase">>, <<"num", "den", "omegas">>,
           <<Query>> \o Kernel({"num", "den", "omegas"}, {"out_mag", "out_phase"}),
           <<"out_mag", "out_phase">>, {"out_mag", "out_phase"})

nyquist_sweep ==
    Ladder(<<>>, <<"num", "den", "omegas", "out_re", "out_im">>, <<"num", "den", "omegas">>,
           <<Query>> \o Kernel({"num", "den", "omegas"}, {"out_re", "out_im"}),
           <<"out_re", "out_im">>, {"out_re", "out_im"})

dwt_batch ==
    Ladder(<<"in", "out", "lo", "hi">>, <<"in", "out", "lo", "hi">>, <<"in", "lo", "hi">>,
           <<Query>> \o Kernel({"in", "lo", "hi"}, {"out"}), <<"out">>, {"out"})

swt_batch ==
    Ladder(<<"in", "out", "lo", "hi">>, <<"in", "out", "lo", "hi">>, <<"in", "lo", "hi">>,
           <<Query>> \o Kernel({"in", "lo", "hi"}, {"out"}), <<"out">>, {"out"})

strategy_grid ==
    Ladder(<<>>, <<"legs", "grid", "out">>, <<"legs", "grid">>,
           <<Query>> \o Kernel({"legs", "grid"}, {"out"}), <<"out">>, {"out"})

futures_grid ==
    Ladder(<<>>, <<"legs", "grid", "out">>, <<"legs", "grid">>,
           <<Query>> \o Kernel({"legs", "grid"}, {"out"}), <<"out">>, {"out"})

-----------------------------------------------------------------------------
(* gpu_logic_kernels.cu *)

index_probe_batch ==
    Ladder(<<>>, <<"ck", "gk", "out">>, <<"ck", "gk">>,
           Kernel({"ck", "gk"}, {"out"}), <<"out">>, {"out"})

-----------------------------------------------------------------------------
(* gpu_bridge.h: everything a caller can ask of the GPU. *)

Bridges ==
    {poly_eval, edit_distance_batch, bfs, nqueens_count, qmc_poly_integrate,
     haar_dwt_batch, batched_matmul, fft_batch, black_scholes_batch,
     black_scholes_graphed, cg_csr, bicgstab_csr, gmres_csr, batched_cg_csr,
     batched_lm_curvefit, lsm_american_batch, mc_european_batch, mc_asian_batch,
     mc_barrier_batch, bs_greeks_batch, bs_extended_greeks_batch,
     l2_star_discrepancy, sobol_batch, halton_batch, bode_sweep, nyquist_sweep,
     dwt_batch, swt_batch, strategy_grid, futures_grid, index_probe_batch}

=============================================================================
