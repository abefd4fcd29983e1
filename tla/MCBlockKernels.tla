--------------------------- MODULE MCBlockKernels ---------------------------
(* The solvers with two threads; the sums with two and four threads and a    *)
(* number of terms below, at and above the number of threads; the transform  *)
(* of one to eight samples with fewer, as many and more threads than pairs.  *)
EXTENDS BlockKernels

MCKernels ==
    {batched_cg_kernel(2), batched_cg_kernel(4), batched_lm_kernel(2),
      qmc_poly_integrate_kernel(1, 2, 2, 5), dot_partials_kernel(0, 2, 4, 11),
      l2_star_discrepancy_kernel(0, 1, 2, 3), reduce_partials_kernel(3, 2, 7),
      reduce_partials_kernel(5, 4, 21),
      mc_reduce_kernel(1, 4, 2, 9), asian_reduce_kernel(0, 2, 2, 5),
      mc_barrier_reduce_kernel(1, 2, 2, 4), lsm_reduce_accumulate_kernel(2, 5),
      lsm_finalize_reduce_kernel(4, 11),
      fft_batch_kernel(1, 2), fft_batch_kernel(2, 2), fft_batch_kernel(4, 4),
      fft_batch_kernel(8, 2)}

=============================================================================
