----------------------------- MODULE MCWavefront -----------------------------
(* The executors on every three-task graph whose tasks have at most two      *)
(* dependencies, with every choice of succeeding and failing bodies, and on  *)
(* a five-task graph with two failures at different distances.               *)
EXTENDS Wavefront, TLC

\* Values are terms, so that argument order and every input are visible.
MCInvoke(body, args) ==
    CASE body = "fail_a" -> Error("a")
      [] body = "fail_b" -> Error("b")
      [] OTHER -> [ok |-> TRUE, val |-> <<body, args>>]

DepthOf(n, deps) ==
    LET depth[t \in 0 .. n - 1] ==
            LET above == {depth[deps[t][i]] + 1 : i \in DOMAIN deps[t]}
            IN  IF above = {} THEN 0
                ELSE CHOOSE m \in above : \A k \in above : k <= m
    IN  depth

Graph(n, deps, body, hint) ==
    LET depth == DepthOf(n, deps)
        seen == {depth[t] : t \in 0 .. n - 1}
    IN  [n |-> n, deps |-> deps, depth |-> depth,
         numLevels |-> Cardinality(seen),
         body |-> body, hint |-> hint,
         op |-> [t \in 0 .. n - 1 |-> IF t % 2 = 0 THEN "op" ELSE NoOp],
         literals |-> [t \in 0 .. n - 1 |-> IF t = 0 THEN <<<<"lit">>>> ELSE <<>>]]

Lists(t) == {<<>>} \cup {<<i>> : i \in 0 .. t - 1}
                   \cup {<<i, j>> : i, j \in 0 .. t - 1}

Hint(m, s) == [mean |-> m, dev |-> s]
Hints3 == {0 :> Hint(1, 0) @@ 1 :> Hint(2, NaN) @@ 2 :> Hint(NaN, 1)}

SmallGraphs ==
    {Graph(3, 0 :> <<>> @@ 1 :> l1 @@ 2 :> l2, body, hint) :
        l1 \in Lists(1), l2 \in Lists(2), hint \in Hints3,
        body \in [0 .. 2 -> {"f", "fail_a", "fail_b"}]}

\* 0 and 1 are sources; 2 and 3 sit between them and the sink 4.
DeepGraphs ==
    {Graph(5, 0 :> <<>> @@ 1 :> <<>> @@ 2 :> <<1>> @@ 3 :> <<0, 1>> @@ 4 :> <<3, 2>>,
           0 :> b0 @@ 1 :> b1 @@ 2 :> b2 @@ 3 :> "f" @@ 4 :> "f",
           [t \in 0 .. 4 |-> Hint(IF t = 3 THEN 7 ELSE t, 1)]) :
        b0 \in {"f", "fail_a"}, b1 \in {"f", "fail_b"}, b2 \in {"f", "fail_a"}}

EmptyGraph == Graph(0, <<>>, <<>>, <<>>)

MCGraphs == SmallGraphs \cup DeepGraphs \cup {EmptyGraph}
MCCostTables == {<<>>, "op" :> Hint(5, 1)}
MCLambdas == {9, NaN}

=============================================================================
