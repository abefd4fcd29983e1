----------------------------- MODULE MCTaskGraph -----------------------------
(* TaskGraph on a small instance: two well-formed op ids, one that lacks the *)
(* domain separator, dependency lists that reach one past the last task.     *)
EXTENDS TaskGraph

GoodOp == <<"a", ".", "a", "/", "v", "0">>
TwoMarksOp == <<"a", ".", "/", "v", "/", "v", "0">>
NoDotOp == <<"a", "/", "v", "0">>
NoVersionOp == <<"a", ".", "a", "/", "v">>
BareDotOp == <<".", "/", "v", "0">>

MCChars == {"a", ".", "/", "v", "0", "nonascii", "nul"}
MCCallerOpIds == {GoodOp, TwoMarksOp, NoDotOp, NoVersionOp}
MCLiterals == {<<>>, <<"lit">>}
MCDepLists == {<<>>} \cup {<<i>> : i \in 0 .. 2} \cup {<<i, j>> : i, j \in 0 .. 2}

\* Every id of at most this length over the classes that matter to the parser.
GrammarOpIds == UNION {[1 .. n -> {"a", ".", "/", "v", "0"}] : n \in 0 .. 4}
                \cup {GoodOp, TwoMarksOp, BareDotOp}

=============================================================================
