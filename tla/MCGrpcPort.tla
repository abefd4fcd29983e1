----------------------------- MODULE MCGrpcPort -----------------------------
(* Token halves that tell the leases of a task apart. *)
EXTENDS GrpcPort

MCLocal(g) == g

=============================================================================
