---------------------------- MODULE MCAutomation ----------------------------
(* Graphs over three nodes for model checking Automation. *)
EXTENDS Automation, TLC

CONSTANTS n1, n2, n3, x1, w1, w2, q1, k1, k2, j1, j2, j3

MCNodes == {n1, n2, n3}

Graph(nodes, kind2, kind3, e1, e2, o2) ==
    [nodes |-> nodes,
     kind |-> [n \in MCNodes |-> CASE n = n1 -> "trigger" [] n = n2 -> kind2
                                [] n = n3 -> kind3],
     next |-> [n \in MCNodes |-> CASE n = n1 -> e1 [] n = n2 -> e2 [] n = n3 -> <<>>],
     other |-> [n \in MCNodes |-> IF n = n2 THEN o2 ELSE <<>>]]

\* A long delay before a message; the same delay beside an action; a delay that
\* leads nowhere; a branch to a short delay; a loop and a graph with an unknown
\* node, which must not be published.
Chain == Graph(MCNodes, "long", "send", <<n2>>, <<n3>>, <<>>)
Fork == Graph(MCNodes, "long", "action", <<n2, n3>>, <<>>, <<>>)
DeadEnd == Graph({n1, n2}, "long", "stop", <<n2>>, <<>>, <<>>)
Branch == Graph(MCNodes, "condition", "short", <<n2>>, <<n3>>, <<>>)
Loop == Graph({n1, n2}, "action", "stop", <<n2>>, <<n1>>, <<>>)
Stray == Graph(MCNodes, "alien", "stop", <<n2>>, <<>>, <<>>)
MCSafe == {Chain, Fork, Loop}
MCMore == {DeadEnd, Branch, Stray, Loop}
Symmetry == Permutations({w1, w2}) \cup Permutations({k1, k2})
=============================================================================
