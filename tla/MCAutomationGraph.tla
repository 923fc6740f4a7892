------------------------- MODULE MCAutomationGraph -------------------------
(***************************************************************************)
(* Instances of AutomationGraph for TLC: six shapes of four nodes, with    *)
(* every kind of node in several of its places.                            *)
(***************************************************************************)
EXTENDS AutomationGraph

E(s, p, t) == [source |-> s, port |-> p, target |-> t]

\* A choice of branches that join again.
Diamond == {E(1, "a", 2), E(1, "b", 3), E(2, "a", 4), E(3, "a", 4)}
\* A branch that is skipped over two nodes before it joins.
LongSkip == {E(1, "a", 2), E(2, "a", 3), E(3, "a", 4), E(1, "b", 4)}
\* Two entries, a join of both, and two edges between the same nodes.
TwoEntries == {E(1, "a", 3), E(2, "a", 3), E(2, "b", 4), E(3, "a", 4), E(3, "b", 4)}
\* A shortcut to a node that another path reaches later.
Shortcut == {E(1, "a", 2), E(1, "a", 4), E(1, "b", 3), E(2, "a", 3), E(3, "a", 4)}
\* Flows that validation rejects: no entry, and a cycle behind an entry.
Ring == {E(1, "a", 2), E(2, "a", 3), E(3, "a", 4), E(4, "a", 1)}
Tail2 == {E(1, "a", 2), E(2, "b", 3), E(3, "a", 2), E(3, "b", 4)}

FourKinds ==
    {k \in [Nodes -> Kinds] :
       /\ k[1] \in {"builtin", "code"} /\ k[2] \in {"ai", "action"}
       /\ k[3] \in {"agent", "builtin"} /\ k[4] \in {"task", "code"}}

FourNodeFlows == [edges : {Diamond, LongSkip, TwoEntries, Shortcut, Ring, Tail2}, kind : FourKinds]

\* On every relation between three nodes, peeling agrees with the absence of
\* a set of nodes in which each has one before it (_validate_nodes_and_edges).
ASSUME PeelingFindsCycles ==
    \A edges \in SUBSET {E(s, "a", t) : s \in 1..3, t \in 1..3} :
        ValidateEdges(edges) <=>
            ~\E S \in SUBSET Nodes \ {{}} :
                \A n \in S : \E e \in edges : e.target = n /\ e.source \in S
=============================================================================
