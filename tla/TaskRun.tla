------------------------------- MODULE TaskRun -------------------------------
(***************************************************************************)
(* What every executor promises (TaskExecutor::run and TaskRunResult): a   *)
(* task is settled once, after its dependencies, with the outcome that     *)
(* run_or_poison gives on theirs; a run returns when every task is         *)
(* settled, or aborts and returns no outputs at all.                       *)
(***************************************************************************)
EXTENDS TaskSemantics

VARIABLES
    out,     \* settled task -> [output, origin]
    status   \* "running" | "returned" | "aborted"

vars == <<g, out, status>>

Outcome(t) ==
    LET o == run_or_poison(t, [d \in DOMAIN out |-> out[d].output],
                              [d \in DOMAIN out |-> out[d].origin])
    IN  [output |-> o.output, origin |-> o.origin]

\* A graph without tasks may have returned at once.
Init ==
    /\ g \in Graphs
    /\ out = [t \in {} |-> {}]
    /\ status \in {"running"} \cup (IF g.n = 0 THEN {"returned"} ELSE {})

\* One or several tasks whose dependencies are all settled become settled.
Settle(S) ==
    /\ status = "running"
    /\ S # {} /\ S \cap DOMAIN out = {}
    /\ \A t \in S : DepsOf(t) \subseteq DOMAIN out
    /\ out' = [t \in DOMAIN out \cup S |-> IF t \in S THEN Outcome(t) ELSE out[t]]
    /\ UNCHANGED <<g, status>>

Return ==
    /\ status = "running" /\ DOMAIN out = TaskIds
    /\ status' = "returned"
    /\ UNCHANGED <<g, out>>

Abort ==
    /\ status = "running"
    /\ status' = "aborted"
    /\ UNCHANGED <<g, out>>

Next == (\E S \in SUBSET TaskIds : Settle(S)) \/ Return \/ Abort

Spec == Init /\ [][Next]_vars

=============================================================================
