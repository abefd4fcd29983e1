------------------------------- MODULE MCBroker -------------------------------
(* The broker with two tasks, one of them tagged "t", workers that accept     *)
(* everything or only the tag, and limits of one attempt or the default.      *)
EXTENDS Broker

MCPayloads == {<<"x">>, <<"x", "t">>}
MCFilters == {<<>>, <<"t">>}
MCAttemptLimits == {0, 1}
MCTimeouts == {0, 1}

=============================================================================
