------------------------------ MODULE CostOrder ------------------------------
(***************************************************************************)
(* nimblecas.taskdag_sched: the order in which a cost-aware executor hands *)
(* out the tasks of one level.  A cost is a double: here an integer, or    *)
(* NaN (an estimate that is not finite), for which every comparison of the *)
(* code is false.                                                          *)
(***************************************************************************)
EXTENDS Integers

CONSTANTS
    NaN,        \* a value that is not finite
    MaxMean,    \* the clamp of sanitize (1e9 seconds in the code)
    MaxCost,    \* the largest finite cost: more overflows to infinity
    NoOp        \* op_id of a task that names no operation

Number == Int \cup {NaN}
CostHint == [mean : Number, dev : Number]

ASSUME CostAssumption == NaN \notin Int /\ MaxMean \in Nat /\ MaxCost \in Nat

Finite(x) == x # NaN
Gt(x, y) == Finite(x) /\ Finite(y) /\ x > y

Clamp(x, hi) == IF x > hi THEN hi ELSE x
Unknown == [mean |-> 0, dev |-> 0]

\* A mean that is not finite and positive is unknown; a deviation (the square
\* root of the variance) that is not finite and non-negative is zero.
sanitize(hint) ==
    IF ~Finite(hint.mean) \/ ~Gt(hint.mean, 0)
    THEN Unknown
    ELSE [mean |-> Clamp(hint.mean, MaxMean),
          dev  |-> IF Finite(hint.dev) /\ hint.dev >= 0
                   THEN Clamp(hint.dev, MaxMean) ELSE 0]

\* The task's own hint, else the table's entry for its operation, else 0;
\* plus lambda deviations, unless that overflows.  table = <<>> stands for a null table.
effective_cost(hint, op, table, lambda) ==
    LET own == sanitize(hint)
        sel == IF ~Gt(own.mean, 0) /\ op # NoOp /\ op \in DOMAIN table
               THEN sanitize(table[op]) ELSE own
        lam == IF Finite(lambda) /\ lambda >= 0 THEN lambda ELSE 0
        cost == IF Gt(sel.mean, 0) THEN sel.mean + lam * sel.dev ELSE 0
    IN  IF cost > MaxCost THEN 0 ELSE cost

\* Mutant of Before: a tie is an order both ways.
BeforeOrEqual(ca, a, cb, b) == IF ca # cb THEN Gt(ca, cb) ELSE TRUE

\* The comparator of level_order: higher cost first, then issuance order.
Before(ca, a, cb, b) == IF ca # cb THEN Gt(ca, cb) ELSE a < b

=============================================================================
