-------------------------- MODULE MCRuntimeTopology --------------------------
(* RuntimeTopology and the search of CycleSearch on a small instance for TLC. *)
EXTENDS CycleSearch

PointersUnused == \A p \in Pointers : target[p] = NoNode /\ p \notin pointerReleased

FewEdges ==
    \A e, f \in Nodes \X Names :
        children[e[1]][e[2]] # NoNode /\ children[f[1]][f[2]] # NoNode => e = f

\* Bound: pointers are used while there is at most one edge, and the search, which
\* does not look at pointers, runs while none has been used.
WithinBounds == PointersUnused \/ (FewEdges /\ phase = "idle")
==============================================================================
