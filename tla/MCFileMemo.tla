----------------------------- MODULE MCFileMemo -----------------------------
(* Keys 1 and 2 share a fingerprint.  A value is short (no cell of its own), *)
(* long (two cells), or a copy of a log (a filler, then a whole record).     *)
EXTENDS FileMemo

MCFp(k) == IF k <= 2 THEN 0 ELSE 1

MCBytes(v) ==
    CASE v = "short" -> <<>>
      [] v = "other" -> <<>>
      [] v = "long"  -> <<<<"x">>, <<"y">>>>
      [] v = "copy"  -> <<<<"x">>, Header(3, "other"), Checksum(3, "other")>>

=============================================================================
