--------------------------- MODULE MCInProcessMemo ---------------------------
(* Three threads on two shards with room for two entries: keys 1 and 2 share  *)
(* a fingerprint, 3 shares only their bucket, 4 and 5 live in the other shard.*)
EXTENDS InProcessMemo, TLC

CONSTANTS t1, t2, t3

MCHi(k) == CASE k \in {1, 2} -> 0 [] k = 3 -> 2 [] OTHER -> 1
MCLo(k) == IF k <= 3 THEN 0 ELSE k
MCOversize(v) == v = "big"
Perms == Permutations({t1, t2, t3})

=============================================================================
