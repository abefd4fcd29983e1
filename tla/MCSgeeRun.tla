------------------------------ MODULE MCSgeeRun ------------------------------
(* Two pumps, one of another registry, and small graphs: twins that succeed   *)
(* or fail, retried, with a task on top or recovered; two different tasks     *)
(* with every content of the memo; runs that end at once.                     *)
EXTENDS SgeeRun, TLC

CONSTANTS w1, w2

\* Op 20 succeeds, op 21 fails.
MCRegistry == 20 :> "f" @@ 21 :> "fail"

MCInvoke(body, args) ==
    IF body = "fail" THEN Error("e")
    ELSE [ok |-> TRUE, val |-> IF args = <<>> THEN 30
                               ELSE 40 + args[1] + (IF Len(args) > 1 THEN 2 * args[2] ELSE 0)]

Graph(n, numLevels, deps, depth, op, tag) ==
    [n |-> n, numLevels |-> numLevels, deps |-> deps, depth |-> depth, op |-> op,
     body |-> [t \in DOMAIN op |-> IF op[t] \in DOMAIN MCRegistry
                                   THEN MCRegistry[op[t]] ELSE "f"],
     literals |-> [t \in DOMAIN op |-> <<>>], tag |-> tag]

Ids(n) == 0 .. n - 1
Flat(n) == [t \in Ids(n) |-> <<>>]

\* Twins 0 and 1 at level 0, and 2 on top of both.
Twins(op) ==
    Graph(3, 2, 0 :> <<>> @@ 1 :> <<>> @@ 2 :> <<1, 0>>, 0 :> 0 @@ 1 :> 0 @@ 2 :> 1,
          0 :> op @@ 1 :> op @@ 2 :> 20, Flat(3))

\* Twins and no more.
Pair(op) == Graph(2, 1, Flat(2), [t \in Ids(2) |-> 0], [t \in Ids(2) |-> op], Flat(2))

\* Two different tasks, the second tagged.
Tagged ==
    Graph(2, 1, Flat(2), [t \in Ids(2) |-> 0], 0 :> 20 @@ 1 :> 21, 0 :> <<>> @@ 1 :> <<99>>)

Unnamed == Graph(1, 1, Flat(1), [t \in Ids(1) |-> 0], [t \in Ids(1) |-> NoOp], Flat(1))
NoTasks == Graph(0, 0, <<>>, <<>>, <<>>, <<>>)

RecoveredGraphs == {Pair(20), Twins(21)}
TwinGraphs == {Twins(20)} \cup RecoveredGraphs
MCGraphs == TwinGraphs \cup {Tagged, Unnamed, NoTasks}

\* Every pair of keys collides.
MCContentKey(key) == 0

KeyF == <<1, 7, 20>>
MCMemos(gr) ==
    IF gr = Tagged
    THEN {NoneYet, KeyF :> [status |-> "ok", val |-> 30], KeyF :> [status |-> "garbage"]}
    ELSE {NoneYet}
MCRecoveries(gr) == IF gr \in RecoveredGraphs THEN 1 ELSE 0
MCAttempts(gr) == IF gr \in TwinGraphs THEN 2 ELSE 1
MCDedups(gr) == IF gr = Tagged THEN BOOLEAN ELSE {TRUE}

OneForeign(w) == IF w = w1 THEN 8 ELSE 7
AnyTask(w) == <<>>

=============================================================================
