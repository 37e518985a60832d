-------------------------- MODULE MCWorkflowStore --------------------------
(***************************************************************************)
(* WorkflowStore for TLC: two tenants with a case of the same name, one of *)
(* which two workers share, and a client that sends the state of one case  *)
(* to the path of the other.                                               *)
(***************************************************************************)
EXTENDS WorkflowStore

CONSTANTS t1, t2, case, w1, w2, w3

MCCases == {<<t1, case>>, <<t2, case>>}

MCOneCase == {<<t1, case>>}

MCShared == [w \in {w1, w2, w3} |-> IF w = w3 THEN <<t2, case>> ELSE <<t1, case>>]

MCAlone == [w \in {w1} |-> <<t1, case>>]

MCFailures == [w \in {w1, w2, w3} |-> CASE w = w1 -> 2 [] w = w2 -> 0 [] w = w3 -> 1]

MCOneFailure == [w \in {w1} |-> 1]

MCMisaddressed ==
    {[path |-> <<t1, case>>, state |-> State(<<t2, case>>, 1), worker |-> None, attempt |-> 0]}

MCNone == {}
=============================================================================
