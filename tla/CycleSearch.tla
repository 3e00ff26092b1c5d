----------------------------- MODULE CycleSearch -----------------------------
(***************************************************************************)
(* The search of RuntimeTopology::wouldCreateCycle, loop iteration by loop *)
(* iteration, on the tables RuntimeTopology reaches.  Connect runs it      *)
(* before it writes anything, so the tables stand still while it runs.     *)
(*                                                                         *)
(* The vector of objects still to look at is a set here: the order only    *)
(* decides which object is looked at next, and a second copy of an object  *)
(* is skipped because the first one has been visited.                      *)
(***************************************************************************)
EXTENDS RuntimeTopology

VARIABLES
    phase,      \* "idle", "searching", or the answer "yes" or "no"
    parent,     \* the arguments of the call
    child,
    visited,
    pending

search == <<phase, parent, child, visited, pending>>
allVars == <<vars, search>>

SearchTypeOK ==
    /\ phase \in {"idle", "searching", "yes", "no"}
    /\ parent \in Nodes \cup {NoNode}
    /\ child \in Nodes \cup {NoNode}
    /\ visited \in SUBSET Nodes
    /\ pending \in SUBSET Nodes

SearchInit ==
    /\ Init
    /\ phase = "idle"
    /\ parent = NoNode
    /\ child = NoNode
    /\ visited = {}
    /\ pending = {}

\* An object is a cycle with itself; otherwise the search starts at the child.
Call(p, c) ==
    /\ phase = "idle"
    /\ Active(p)
    /\ Active(c)
    /\ parent' = p
    /\ child' = c
    /\ visited' = {}
    /\ pending' = IF p = c THEN {} ELSE {c}
    /\ phase' = IF p = c THEN "yes" ELSE "searching"
    /\ UNCHANGED vars

\* Mutant: a visited object stays in the vector when it is skipped.
SkipWithoutPop(n) ==
    /\ phase = "searching"
    /\ n \in pending \cap visited
    /\ UNCHANGED allVars

\* An object that has been visited is skipped.
Skip(n) ==
    /\ phase = "searching"
    /\ n \in pending \cap visited
    /\ pending' = pending \ {n}
    /\ UNCHANGED <<vars, phase, parent, child, visited>>

\* Mutant: the search looks at the children of the child and no deeper.
VisitShallow(n) ==
    /\ phase = "searching"
    /\ n \in pending \ visited
    /\ visited' = visited \cup {n}
    /\ IF n = parent
       THEN /\ phase' = "yes"
            /\ pending' = pending \ {n}
       ELSE /\ pending' = (pending \ {n}) \cup (IF n = child THEN ChildrenOf(n) ELSE {})
            /\ UNCHANGED phase
    /\ UNCHANGED <<vars, parent, child>>

Visit(n) ==
    /\ phase = "searching"
    /\ n \in pending \ visited
    /\ visited' = visited \cup {n}
    /\ IF n = parent
       THEN /\ phase' = "yes"
            /\ pending' = pending \ {n}
       ELSE /\ pending' = (pending \ {n}) \cup ChildrenOf(n)
            /\ UNCHANGED phase
    /\ UNCHANGED <<vars, parent, child>>

Exhaust ==
    /\ phase = "searching"
    /\ pending = {}
    /\ phase' = "no"
    /\ UNCHANGED <<vars, parent, child, visited, pending>>

Return ==
    /\ phase \in {"yes", "no"}
    /\ phase' = "idle"
    /\ parent' = NoNode
    /\ child' = NoNode
    /\ visited' = {}
    /\ pending' = {}
    /\ UNCHANGED vars

Loop == Exhaust \/ \E n \in Nodes : Skip(n) \/ Visit(n)

SearchNext ==
    \/ phase = "idle" /\ Next /\ UNCHANGED search
    \/ \E p \in Nodes, c \in Nodes : Call(p, c)
    \/ Loop
    \/ Return

\* The loop is sequential code: once entered it is run to its end.
SearchSpec == SearchInit /\ [][SearchNext]_allVars /\ WF_allVars(Loop)

-----------------------------------------------------------------------------
\* The loop answers yes exactly when the parent is the child or lies below it,
\* which is the condition under which the new edge would close a cycle.
AnswerIsReachability ==
    /\ phase = "yes" => WouldCreateCycle(parent, child)
    /\ phase = "no" => ~WouldCreateCycle(parent, child)

\* What the search knows while it runs: it has seen the child, it stays below
\* the child, and what it has visited has its children visited or pending.
SearchInvariant ==
    phase \in {"searching", "no"} =>
        /\ child \in visited \cup pending
        /\ parent \notin visited
        /\ \A R \in SUBSET Nodes :
              child \in R /\ ChildClosed(R) => visited \cup pending \subseteq R
        /\ \A n \in visited : ChildrenOf(n) \subseteq visited \cup pending
        /\ phase = "no" => pending = {}

\* The search ends, also where several paths lead to the same object.
SearchEnds == phase = "searching" ~> phase \in {"yes", "no"}
==============================================================================
