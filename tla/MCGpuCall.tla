----------------------------- MODULE MCGpuCall -----------------------------
(* Every bridge called once by one thread, and two threads with two calls    *)
(* each on arrays some of which they share.                                  *)
EXTENDS GpuCall, TLC

Alone == {1 :> <<b>> : b \in Bridges}

\* Two threads, one array in common; the second calls twice.
Together ==
    {1 :> <<haar_dwt_batch>> @@ 2 :> <<qmc_poly_integrate, halton_batch>>,
     1 :> <<sobol_batch, poly_eval>> @@ 2 :> <<sobol_batch>>}

MCWorkloads == Alone \cup Together
MCShared == {"in", "out"}

TwoCalls == {1 :> <<poly_eval, poly_eval>>}

=============================================================================
