--------------------------- MODULE RuntimeTopology ---------------------------
(***************************************************************************)
(* The tables RuntimeTopology (src/src/RuntimeObject.cpp) keeps of the     *)
(* objects of a process: who is whose child under which name, the derived  *)
(* index of parents, and which RuntimeObjectPointer follows which object,  *)
(* together with the life cycle of the objects that the tables mention.    *)
(*                                                                         *)
(* Every operation runs on the loop thread and changes the tables in one   *)
(* piece: no event handler runs between its guards and its last write to   *)
(* the tables.  Handlers run after that and may call any operation, so the *)
(* sequence of table changes of a run is an interleaving of the actions    *)
(* below.  A release is two actions, because the handlers it calls run     *)
(* while the object is Releasing.  RuntimeKernel adds the handlers.        *)
(*                                                                         *)
(* A call that is refused returns false and changes nothing: it is no      *)
(* action.  Names are the names isSingleChildName accepts.                 *)
(***************************************************************************)
EXTENDS Naturals, FiniteSets

CONSTANTS
    Nodes,      \* addresses at which a RuntimeObject can live
    Pointers,   \* RuntimeObjectPointer instances
    Names,      \* child names
    NoNode      \* nullptr

ASSUME NoNodeAssumption == NoNode \notin Nodes
ASSUME HandleAssumption == Nodes \cap Pointers = {}

VARIABLES
    state,            \* life cycle of the object at each address
    children,         \* childrenByParent_
    incoming,         \* parentsByChild_
    target,           \* RuntimeObjectPointer::target_
    boundPointers,    \* pointersByTarget_
    pointerReleased   \* RuntimeObjectPointer::released_

tables == <<children, incoming>>
bindings == <<target, boundPointers, pointerReleased>>
vars == <<state, tables, bindings>>

\* Absent: no object has been made at the address, or it has been deleted.
States == {"Absent", "Active", "Releasing", "Released"}

TypeOK ==
    /\ state \in [Nodes -> States]
    /\ children \in [Nodes -> [Names -> Nodes \cup {NoNode}]]
    /\ incoming \in [Nodes -> SUBSET (Nodes \X Names)]
    /\ target \in [Pointers -> Nodes \cup {NoNode}]
    /\ boundPointers \in [Nodes -> SUBSET Pointers]
    /\ pointerReleased \in SUBSET Pointers

Active(n) == state[n] = "Active"

-----------------------------------------------------------------------------
(* Helpers of the tables. *)

\* rebuildIncoming: the parents of every child, recomputed from the children.
RebuildIncoming(kids) ==
    [c \in Nodes |-> {e \in Nodes \X Names : kids[e[1]][e[2]] = c}]

\* getChildItem: nullptr when the parent has no child of that name.
ChildItem(parent, name) == children[parent][name]

ChildrenOf(n) == {children[n][name] : name \in Names} \ {NoNode}

\* R holds the children of its members.
ChildClosed(R) == \A n \in R : ChildrenOf(n) \subseteq R

\* Mutant: only an edge from an object to itself is taken for a cycle.
WouldCreateSelfLoop(parent, child) == parent = child

\* The parent is the child or one of its descendants: it lies in every
\* ChildClosed set around the child.  CycleSearch shows that the search loop
\* of the code computes this.
WouldCreateCycle(parent, child) ==
    \A R \in SUBSET Nodes : child \in R /\ ChildClosed(R) => parent \in R

\* resolveRuntimeObject: a pointer stands for its Active target or for nullptr.
Resolve(handle) ==
    IF handle \notin Pointers THEN handle
    ELSE IF target[handle] # NoNode /\ Active(target[handle]) THEN target[handle]
    ELSE NoNode

-----------------------------------------------------------------------------
Init ==
    /\ state = [n \in Nodes |-> "Absent"]
    /\ children = [n \in Nodes |-> [name \in Names |-> NoNode]]
    /\ incoming = RebuildIncoming(children)
    /\ target = [p \in Pointers |-> NoNode]
    /\ boundPointers = [n \in Nodes |-> {}]
    /\ pointerReleased = {}

\* createRuntimeObject
Create(n) ==
    /\ state[n] = "Absent"
    /\ state' = [state EXCEPT ![n] = "Active"]
    /\ UNCHANGED <<tables, bindings>>

Connect(parent, name, handle, overwrite) ==
    LET child == Resolve(handle)
        previous == ChildItem(parent, name)
    IN  /\ Active(parent)
        /\ child # NoNode
        /\ Active(child)
        /\ previous # NoNode => overwrite
        /\ previous # child
        /\ ~WouldCreateCycle(parent, child)
        /\ children' = [children EXCEPT ![parent][name] = child]
        /\ incoming' = RebuildIncoming(children')
        /\ UNCHANGED <<state, bindings>>

\* Mutant: the index is not rebuilt after a disconnect.
DisconnectKeepsIndex(parent, name) ==
    /\ Active(parent)
    /\ ChildItem(parent, name) # NoNode
    /\ children' = [children EXCEPT ![parent][name] = NoNode]
    /\ UNCHANGED <<state, incoming, bindings>>

Disconnect(parent, name) ==
    /\ Active(parent)
    /\ ChildItem(parent, name) # NoNode
    /\ children' = [children EXCEPT ![parent][name] = NoNode]
    /\ incoming' = RebuildIncoming(children')
    /\ UNCHANGED <<state, bindings>>

\* unbindPointers: every pointer to n forgets it.
UnbindPointers(n) ==
    /\ target' = [p \in Pointers |-> IF p \in boundPointers[n] THEN NoNode ELSE target[p]]
    /\ boundPointers' = [boundPointers EXCEPT ![n] = {}]
    /\ UNCHANGED pointerReleased

\* Mutant: n loses its children and stays a child of its parents.
DetachChildrenOnly(n) ==
    /\ children' = [children EXCEPT ![n] = [name \in Names |-> NoNode]]
    /\ incoming' = RebuildIncoming(children')

\* Mutant: the parents of n lose all their children.
DetachWholeParents(n) ==
    /\ children' =
         [p \in Nodes |-> [name \in Names |->
            IF p = n \/ \E e \in incoming[n] : e[1] = p THEN NoNode ELSE children[p][name]]]
    /\ incoming' = RebuildIncoming(children')

\* detachTopology: n loses its children, and its parents, found in the index,
\* lose it.
DetachTopology(n) ==
    /\ children' =
         [p \in Nodes |-> [name \in Names |->
            IF p = n \/ <<p, name>> \in incoming[n] THEN NoNode ELSE children[p][name]]]
    /\ incoming' = RebuildIncoming(children')

\* releaseInternal up to its first event, and after its last one.
BeginRelease(n) ==
    /\ Active(n)
    /\ state' = [state EXCEPT ![n] = "Releasing"]
    /\ UnbindPointers(n)
    /\ DetachTopology(n)

EndRelease(n) ==
    /\ state[n] = "Releasing"
    /\ state' = [state EXCEPT ![n] = "Released"]
    /\ UNCHANGED <<tables, bindings>>

\* The destructor of a released object; that of an Active one releases first.
Destroy(n) ==
    /\ state[n] = "Released"
    /\ state' = [state EXCEPT ![n] = "Absent"]
    /\ UNCHANGED <<tables, bindings>>

\* Mutant: a pointer bound anew stays in the index of its old target.
BindKeepsOld(p, object) ==
    /\ p \notin pointerReleased
    /\ Active(object)
    /\ target[p] # object
    /\ target' = [target EXCEPT ![p] = object]
    /\ boundPointers' = [boundPointers EXCEPT ![object] = @ \cup {p}]
    /\ UNCHANGED <<state, tables, pointerReleased>>

\* unbindPointer for the old target, if any, and bindPointer for the new one.
Bind(p, object) ==
    /\ p \notin pointerReleased
    /\ Active(object)
    /\ target[p] # object
    /\ target' = [target EXCEPT ![p] = object]
    /\ boundPointers' =
         [n \in Nodes |-> IF n = object THEN boundPointers[n] \cup {p}
                          ELSE IF n = target[p] THEN boundPointers[n] \ {p}
                          ELSE boundPointers[n]]
    /\ UNCHANGED <<state, tables, pointerReleased>>

\* Unbind, and Bind(nullptr), which a released pointer accepts too.
UnbindTarget(p) ==
    /\ target' = [target EXCEPT ![p] = NoNode]
    /\ boundPointers' =
         [n \in Nodes |-> IF n = target[p] THEN boundPointers[n] \ {p} ELSE boundPointers[n]]

Unbind(p) ==
    /\ target[p] # NoNode
    /\ UnbindTarget(p)
    /\ UNCHANGED <<state, tables, pointerReleased>>

\* RuntimeObjectPointer::Release
ReleasePointer(p) ==
    /\ p \notin pointerReleased
    /\ UnbindTarget(p)
    /\ pointerReleased' = pointerReleased \cup {p}
    /\ UNCHANGED <<state, tables>>

NodeNext ==
    \E n \in Nodes : Create(n) \/ BeginRelease(n) \/ EndRelease(n) \/ Destroy(n)

EdgeNext ==
    \E parent \in Nodes, name \in Names :
        \/ Disconnect(parent, name)
        \/ \E handle \in Nodes \cup Pointers, overwrite \in BOOLEAN :
               Connect(parent, name, handle, overwrite)

PointerNext ==
    \E p \in Pointers :
        \/ Unbind(p)
        \/ ReleasePointer(p)
        \/ \E n \in Nodes : Bind(p, n)

Next == NodeNext \/ EdgeNext \/ PointerNext

Spec == Init /\ [][Next]_vars

-----------------------------------------------------------------------------
(* Safety. *)

\* The parent index lists exactly the edges of the child table: a release finds
\* its parents in the index, so a stale index would leave edges to a dead object.
IncomingAgrees ==
    \A c \in Nodes, p \in Nodes, name \in Names :
        <<p, name>> \in incoming[c] <=> children[p][name] = c

\* Both ends of every edge are Active objects, whatever order of releases and
\* connects led there: no edge is left to an object that is being or has been
\* released, and none can be added to one while its release events run.
EdgesJoinActive ==
    \A p \in Nodes, name \in Names :
        children[p][name] # NoNode => Active(p) /\ Active(children[p][name])

\* The child relation is a directed acyclic graph: every non-empty set of
\* objects has a member with no child in the set.
Acyclic ==
    \A S \in SUBSET Nodes :
        S # {} => \E n \in S : ChildrenOf(n) \cap S = {}

\* A pointer and the index that a release clears agree on what the pointer
\* follows; it follows Active objects only, and nothing once released, so that
\* a call forwarded to target_ never reaches a dead object.
PointersFollowActive ==
    /\ \A p \in Pointers, n \in Nodes : target[p] = n <=> p \in boundPointers[n]
    /\ \A p \in Pointers : target[p] # NoNode => Active(target[p])
    /\ \A p \in pointerReleased : target[p] = NoNode

\* The edges of the graph, as (parent, name) keys, that a step changes.
ChangedEdges ==
    {e \in Nodes \X Names : children'[e[1]][e[2]] # children[e[1]][e[2]]}

Touches(n, e) == children[e[1]][e[2]] # NoNode /\ (e[1] = n \/ children[e[1]][e[2]] = n)

ChangesLocally ==
    \/ \A e, f \in ChangedEdges : e = f
    \/ \E n \in Nodes :
          /\ state[n] = "Active"
          /\ state'[n] = "Releasing"
          /\ ChangedEdges = {e \in Nodes \X Names : Touches(n, e)}

\* A step changes one edge, or it begins the release of one object and removes
\* precisely the edges at that object: siblings and other parents keep theirs.
EdgesChangeLocally == [][ChangesLocally]_vars
==============================================================================
