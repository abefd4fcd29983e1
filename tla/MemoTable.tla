------------------------------ MODULE MemoTable ------------------------------
(***************************************************************************)
(* What DistributedMemo promises: a table that maps a task's bytes to the  *)
(* first value stored for them, for ever.  A lookup answers with exactly   *)
(* that value or not at all; a publish may be refused.                     *)
(***************************************************************************)
CONSTANTS Keys, Values

VARIABLES
    table,   \* key -> value, on the keys stored
    answer   \* what the latest lookup returned: {} or {<<key, value>>}

vars == <<table, answer>>

Init == table = [k \in {} |-> {}] /\ answer = {}

Stores(k, v) ==
    /\ k \notin DOMAIN table
    /\ table' = [j \in DOMAIN table \cup {k} |-> IF j = k THEN v ELSE table[j]]
    /\ UNCHANGED answer

Looks(k) ==
    /\ answer' = IF k \in DOMAIN table THEN {<<k, table[k]>>} ELSE {}
    /\ UNCHANGED table

Next == \E k \in Keys : Looks(k) \/ \E v \in Values : Stores(k, v)

Spec == Init /\ [][Next]_vars

=============================================================================
