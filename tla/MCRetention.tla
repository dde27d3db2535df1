---------------------------- MODULE MCRetention ----------------------------
(* Two changes over a shared tree; one of them is refused by the policy.    *)
EXTENDS Retention, TLC

\* 1 a tree, 2 another, 3 and 4 changes.
MCLinks == 1 :> {} @@ 2 :> {} @@ 3 :> {1} @@ 4 :> {1, 2}

MCPins == {[id |-> 2, notAfter |-> 1]}

\* Agents are interchangeable, and so are edges.
Symmetry == Permutations(Procs) \cup Permutations(Edges)
=============================================================================
