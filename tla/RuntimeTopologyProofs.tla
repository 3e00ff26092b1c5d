------------------------ MODULE RuntimeTopologyProofs ------------------------
(***************************************************************************)
(* The invariants of RuntimeTopology and of the search in it, for any set  *)
(* of objects, pointers and names.                                         *)
(***************************************************************************)
EXTENDS CycleSearch, TLAPS

\* The inductive invariant.  The index and the ends of the edges need each
\* other: a release finds its parents in the index, so only an exact index lets
\* it remove every edge to the object.
IInv ==
    /\ TypeOK
    /\ IncomingAgrees
    /\ EdgesJoinActive
    /\ Acyclic
    /\ PointersFollowActive

\* rebuildIncoming yields an exact index of whatever child table it is given.
LEMMA RebuildExact ==
    ASSUME NEW kids \in [Nodes -> [Names -> Nodes \cup {NoNode}]]
    PROVE  /\ RebuildIncoming(kids) \in [Nodes -> SUBSET (Nodes \X Names)]
           /\ \A c \in Nodes, p \in Nodes, name \in Names :
                 <<p, name>> \in RebuildIncoming(kids)[c] <=> kids[p][name] = c
BY DEF RebuildIncoming

\* So a step that ends by rebuilding the index leaves it exact.
LEMMA RebuildStep ==
    ASSUME children' \in [Nodes -> [Names -> Nodes \cup {NoNode}]],
           incoming' = RebuildIncoming(children')
    PROVE  incoming' \in [Nodes -> SUBSET (Nodes \X Names)] /\ IncomingAgrees'
<1> DEFINE kids == children'
<1>1. /\ RebuildIncoming(kids) \in [Nodes -> SUBSET (Nodes \X Names)]
      /\ \A c \in Nodes, p \in Nodes, name \in Names :
            <<p, name>> \in RebuildIncoming(kids)[c] <=> kids[p][name] = c
  <2> HIDE DEF kids
  <2>1. kids \in [Nodes -> [Names -> Nodes \cup {NoNode}]]
    BY DEF kids
  <2> QED
    BY <2>1, RebuildExact
<1> QED
  BY <1>1 DEF IncomingAgrees

\* The invariant holds when no object exists.
LEMMA InitIInv == Init => IInv
<1> SUFFICES ASSUME Init PROVE IInv
  OBVIOUS
<1>1. TypeOK
  BY DEF Init, TypeOK, States, RebuildIncoming
<1>2. IncomingAgrees
  <2>1. children \in [Nodes -> [Names -> Nodes \cup {NoNode}]]
    BY DEF Init
  <2>2. incoming = RebuildIncoming(children)
    BY DEF Init
  <2> QED
    <3>1. \A c \in Nodes, p \in Nodes, name \in Names :
             <<p, name>> \in RebuildIncoming(children)[c] <=> children[p][name] = c
      BY <2>1, RebuildExact
    <3> QED
      BY <2>2, <3>1, Zenon DEF IncomingAgrees
<1>3. EdgesJoinActive
  BY DEF Init, EdgesJoinActive
<1>4. Acyclic
  BY DEF Init, Acyclic, ChildrenOf
<1>5. PointersFollowActive
  BY NoNodeAssumption DEF Init, PointersFollowActive
<1> QED
  BY <1>1, <1>2, <1>3, <1>4, <1>5 DEF IInv

\* Removing edges from an acyclic table leaves it acyclic.
LEMMA FewerEdgesAcyclic ==
    ASSUME TypeOK, Acyclic,
           children' \in [Nodes -> [Names -> Nodes \cup {NoNode}]],
           \A p \in Nodes, name \in Names :
               children'[p][name] \in {children[p][name], NoNode}
    PROVE  Acyclic'
<1>1. \A n \in Nodes : ChildrenOf(n)' \subseteq ChildrenOf(n)
  BY DEF ChildrenOf, TypeOK
<1> QED
  BY <1>1 DEF Acyclic

\* An edge that WouldCreateCycle lets pass leaves the table acyclic: the search
\* has found a closed set R around the child without the parent, and in any set
\* S a member without children in S can be taken from S \cap R, or, when R
\* misses S, from S itself, because the new edge then leaves S.
LEMMA NewEdgeAcyclic ==
    ASSUME TypeOK, Acyclic,
           NEW owner \in Nodes, NEW kid \in Nodes, NEW name \in Names,
           ~WouldCreateCycle(owner, kid),
           children' = [children EXCEPT ![owner][name] = kid]
    PROVE  Acyclic'
<1>1. PICK R \in SUBSET Nodes : kid \in R /\ ChildClosed(R) /\ owner \notin R
  BY DEF WouldCreateCycle
<1>2. \A n \in Nodes : n # owner => ChildrenOf(n)' = ChildrenOf(n)
  BY DEF ChildrenOf, TypeOK
<1>3. ChildrenOf(owner)' \subseteq ChildrenOf(owner) \cup {kid}
  BY DEF ChildrenOf, TypeOK
<1> SUFFICES ASSUME NEW S \in SUBSET Nodes, S # {}
             PROVE  \E n \in S : ChildrenOf(n)' \cap S = {}
  BY DEF Acyclic
<1>4. CASE S \cap R # {}
  <2>1. PICK n \in S \cap R : ChildrenOf(n) \cap (S \cap R) = {}
    BY <1>4 DEF Acyclic
  <2>2. ChildrenOf(n) \subseteq R
    BY <1>1, <2>1 DEF ChildClosed
  <2>3. ChildrenOf(n)' = ChildrenOf(n)
    BY <1>1, <1>2, <2>1
  <2> QED
    BY <2>1, <2>2, <2>3
<1>5. CASE S \cap R = {}
  <2>1. PICK n \in S : ChildrenOf(n) \cap S = {}
    BY DEF Acyclic
  <2>2. kid \notin S
    BY <1>1, <1>5
  <2> QED
    BY <1>2, <1>3, <2>1, <2>2
<1> QED
  BY <1>4, <1>5

\* A step that leaves the tables and the life cycles alone keeps the edges right.
LEMMA EdgesUnchanged ==
    ASSUME IncomingAgrees, EdgesJoinActive, Acyclic, UNCHANGED <<state, tables>>
    PROVE  IncomingAgrees' /\ EdgesJoinActive' /\ Acyclic'
BY DEF IncomingAgrees, EdgesJoinActive, Acyclic, ChildrenOf, Active, tables

\* Steps of the life cycle other than a release leave Active what is Active.
LEMMA LifeCycleStep ==
    ASSUME IInv, NEW n \in Nodes, NEW s \in States, ~Active(n),
           state' = [state EXCEPT ![n] = s], UNCHANGED <<tables, bindings>>
    PROVE  IInv'
<1>1. TypeOK'
  BY DEF IInv, TypeOK, tables, bindings
<1>2. \A m \in Nodes : Active(m) => Active(m)'
  BY DEF Active, IInv, TypeOK
<1>3. IncomingAgrees' /\ Acyclic'
  BY DEF IInv, IncomingAgrees, Acyclic, ChildrenOf, tables
<1>4. EdgesJoinActive'
  BY <1>2 DEF IInv, EdgesJoinActive, tables, TypeOK
<1>5. PointersFollowActive'
  BY <1>2 DEF IInv, PointersFollowActive, bindings, TypeOK
<1> QED
  BY <1>1, <1>3, <1>4, <1>5 DEF IInv

LEMMA ConnectStep ==
    ASSUME IInv, NEW owner \in Nodes, NEW name \in Names,
           NEW handle \in Nodes \cup Pointers, NEW overwrite \in BOOLEAN,
           Connect(owner, name, handle, overwrite)
    PROVE  IInv'
<1> DEFINE kid == Resolve(handle)
<1>1. kid \in Nodes /\ Active(kid) /\ Active(owner) /\ ~WouldCreateCycle(owner, kid)
  BY DEF Connect, Resolve, IInv, TypeOK
<1>2. /\ children' = [children EXCEPT ![owner][name] = kid]
      /\ incoming' = RebuildIncoming(children')
      /\ UNCHANGED <<state, bindings>>
  BY DEF Connect
<1> HIDE DEF kid
<1>3. children' \in [Nodes -> [Names -> Nodes \cup {NoNode}]]
  BY <1>1, <1>2 DEF IInv, TypeOK
<1>4. TypeOK'
  BY <1>2, <1>3, RebuildStep DEF IInv, TypeOK, bindings
<1>5. IncomingAgrees'
  BY <1>2, <1>3, RebuildStep
<1>6. EdgesJoinActive'
  BY <1>1, <1>2 DEF IInv, EdgesJoinActive, Active, TypeOK
<1>7. Acyclic'
  BY <1>1, <1>2, NewEdgeAcyclic DEF IInv
<1>8. PointersFollowActive'
  BY <1>2 DEF IInv, PointersFollowActive, bindings, Active
<1> QED
  BY <1>4, <1>5, <1>6, <1>7, <1>8 DEF IInv

LEMMA DisconnectStep ==
    ASSUME IInv, NEW owner \in Nodes, NEW name \in Names, Disconnect(owner, name)
    PROVE  IInv'
<1>1. /\ children' = [children EXCEPT ![owner][name] = NoNode]
      /\ incoming' = RebuildIncoming(children')
      /\ UNCHANGED <<state, bindings>>
  BY DEF Disconnect
<1>2. children' \in [Nodes -> [Names -> Nodes \cup {NoNode}]]
  BY <1>1 DEF IInv, TypeOK
<1>3. TypeOK'
  BY <1>1, <1>2, RebuildStep DEF IInv, TypeOK, bindings
<1>4. IncomingAgrees'
  BY <1>1, <1>2, RebuildStep
<1>5. EdgesJoinActive'
  BY <1>1 DEF IInv, EdgesJoinActive, Active, TypeOK
<1>6. Acyclic'
  BY <1>1, <1>2, FewerEdgesAcyclic DEF IInv, TypeOK
<1>7. PointersFollowActive'
  BY <1>1 DEF IInv, PointersFollowActive, bindings, Active
<1> QED
  BY <1>3, <1>4, <1>5, <1>6, <1>7 DEF IInv

LEMMA BeginReleaseStep ==
    ASSUME IInv, NEW n \in Nodes, BeginRelease(n)
    PROVE  IInv'
<1>1. /\ state' = [state EXCEPT ![n] = "Releasing"]
      /\ children' = [p \in Nodes |-> [name \in Names |->
             IF p = n \/ <<p, name>> \in incoming[n] THEN NoNode ELSE children[p][name]]]
      /\ incoming' = RebuildIncoming(children')
      /\ target' = [p \in Pointers |-> IF p \in boundPointers[n] THEN NoNode ELSE target[p]]
      /\ boundPointers' = [boundPointers EXCEPT ![n] = {}]
      /\ UNCHANGED pointerReleased
  BY DEF BeginRelease, UnbindPointers, DetachTopology
<1>2. children' \in [Nodes -> [Names -> Nodes \cup {NoNode}]]
  BY <1>1 DEF IInv, TypeOK
<1>3. TypeOK'
  BY <1>1, <1>2, RebuildStep DEF IInv, TypeOK, States
<1>4. IncomingAgrees'
  BY <1>1, <1>2, RebuildStep
<1>5. \A p \in Nodes, name \in Names :
          children'[p][name] = IF p = n \/ children[p][name] = n THEN NoNode
                               ELSE children[p][name]
  <2>1. \A p \in Nodes, name \in Names : <<p, name>> \in incoming[n] <=> children[p][name] = n
    BY DEF IInv, IncomingAgrees
  <2> SUFFICES ASSUME NEW p \in Nodes, NEW name \in Names
               PROVE  children'[p][name] = IF p = n \/ children[p][name] = n THEN NoNode
                                           ELSE children[p][name]
    OBVIOUS
  <2>2. children'[p][name] = IF p = n \/ <<p, name>> \in incoming[n] THEN NoNode
                             ELSE children[p][name]
    BY <1>1
  <2> QED
    BY <2>1, <2>2
<1>6. \A m \in Nodes : m # n /\ Active(m) => Active(m)'
  BY <1>1 DEF Active, IInv, TypeOK
<1>7. EdgesJoinActive'
  BY <1>2, <1>5, <1>6 DEF IInv, EdgesJoinActive, TypeOK
<1>8. Acyclic'
  BY <1>2, <1>5, FewerEdgesAcyclic DEF IInv
<1>9. PointersFollowActive'
  BY <1>1, <1>6, NoNodeAssumption DEF IInv, PointersFollowActive, TypeOK
<1> QED
  BY <1>3, <1>4, <1>7, <1>8, <1>9 DEF IInv

LEMMA BindStep ==
    ASSUME IInv, NEW p \in Pointers, NEW n \in Nodes, Bind(p, n)
    PROVE  IInv'
<1>1. TypeOK'
  BY DEF IInv, TypeOK, Bind, tables
<1>2. IncomingAgrees' /\ EdgesJoinActive' /\ Acyclic'
  BY EdgesUnchanged DEF IInv, Bind, tables
<1>3. PointersFollowActive'
  BY NoNodeAssumption DEF IInv, PointersFollowActive, Bind, TypeOK, Active
<1> QED
  BY <1>1, <1>2, <1>3 DEF IInv

\* Unbind and Release of a pointer, which differ in the released flag only.
LEMMA UnbindStep ==
    ASSUME IInv, NEW p \in Pointers, UnbindTarget(p), UNCHANGED <<state, tables>>,
           pointerReleased' \in {pointerReleased, pointerReleased \cup {p}}
    PROVE  IInv'
<1>1. TypeOK'
  BY DEF IInv, TypeOK, UnbindTarget, tables
<1>2. IncomingAgrees' /\ EdgesJoinActive' /\ Acyclic'
  BY EdgesUnchanged DEF IInv
<1>3. PointersFollowActive'
  BY NoNodeAssumption DEF IInv, PointersFollowActive, UnbindTarget, TypeOK, Active
<1> QED
  BY <1>1, <1>2, <1>3 DEF IInv

\* Every step preserves the invariant.
LEMMA NextIInv == IInv /\ [Next]_vars => IInv'
<1> SUFFICES ASSUME IInv, [Next]_vars PROVE IInv'
  OBVIOUS
<1>1. ASSUME NEW n \in Nodes, Create(n) PROVE IInv'
  BY <1>1, LifeCycleStep DEF Create, States, Active
<1>2. ASSUME NEW n \in Nodes, BeginRelease(n) PROVE IInv'
  BY <1>2, BeginReleaseStep
<1>3. ASSUME NEW n \in Nodes, EndRelease(n) PROVE IInv'
  BY <1>3, LifeCycleStep DEF EndRelease, States, Active
<1>4. ASSUME NEW n \in Nodes, Destroy(n) PROVE IInv'
  BY <1>4, LifeCycleStep DEF Destroy, States, Active
<1>5. ASSUME NEW p \in Nodes, NEW name \in Names, Disconnect(p, name) PROVE IInv'
  BY <1>5, DisconnectStep
<1>6. ASSUME NEW p \in Nodes, NEW name \in Names, NEW handle \in Nodes \cup Pointers,
             NEW overwrite \in BOOLEAN, Connect(p, name, handle, overwrite)
      PROVE  IInv'
  BY <1>6, ConnectStep
<1>7. ASSUME NEW p \in Pointers, Unbind(p) PROVE IInv'
  BY <1>7, UnbindStep DEF Unbind
<1>8. ASSUME NEW p \in Pointers, ReleasePointer(p) PROVE IInv'
  BY <1>8, UnbindStep DEF ReleasePointer
<1>9. ASSUME NEW p \in Pointers, NEW n \in Nodes, Bind(p, n) PROVE IInv'
  BY <1>9, BindStep
<1>10. CASE UNCHANGED vars
  BY <1>10 DEF vars, tables, bindings, IInv, TypeOK, IncomingAgrees, EdgesJoinActive,
     Acyclic, ChildrenOf, PointersFollowActive, Active
<1> QED
  BY <1>1, <1>2, <1>3, <1>4, <1>5, <1>6, <1>7, <1>8, <1>9, <1>10
     DEF Next, NodeNext, EdgeNext, PointerNext

\* The invariant holds throughout.
THEOREM Invariance == Spec => []IInv
<1> QED
  BY InitIInv, NextIInv, PTL DEF Spec

\* The tables keep their types.
THEOREM TypeCorrect == Spec => []TypeOK
<1>1. IInv => TypeOK
  BY DEF IInv
<1> QED
  BY <1>1, Invariance, PTL

\* The index parentsByChild_ is exact after every operation.
THEOREM IndexExact == Spec => []IncomingAgrees
<1>1. IInv => IncomingAgrees
  BY DEF IInv
<1> QED
  BY <1>1, Invariance, PTL

\* No edge has an end that is being released, has been released or is deleted.
THEOREM NoEdgeToDead == Spec => []EdgesJoinActive
<1>1. IInv => EdgesJoinActive
  BY DEF IInv
<1> QED
  BY <1>1, Invariance, PTL

\* The graph of the objects never has a cycle.
THEOREM NeverCyclic == Spec => []Acyclic
<1>1. IInv => Acyclic
  BY DEF IInv
<1> QED
  BY <1>1, Invariance, PTL

\* A pointer never follows an object that is not Active.
THEOREM NoDanglingPointer == Spec => []PointersFollowActive
<1>1. IInv => PointersFollowActive
  BY DEF IInv
<1> QED
  BY <1>1, Invariance, PTL

\* What every step does to the edges.
LEMMA NextLocal == IInv /\ [Next]_vars => [ChangesLocally]_vars
<1> SUFFICES ASSUME IInv, Next PROVE ChangesLocally
  OBVIOUS
<1>1. CASE UNCHANGED children
  BY <1>1 DEF ChangesLocally, ChangedEdges
<1>2. ASSUME NEW owner \in Nodes, NEW name \in Names, NEW c \in Nodes \cup {NoNode},
             children' = [children EXCEPT ![owner][name] = c]
      PROVE  ChangesLocally
  <2>1. \A e \in ChangedEdges : e = <<owner, name>>
    <3> SUFFICES ASSUME NEW p \in Nodes, NEW m \in Names,
                        children'[p][m] # children[p][m]
                 PROVE  p = owner /\ m = name
      BY DEF ChangedEdges
    <3> QED
      BY <1>2 DEF IInv, TypeOK
  <2> QED
    BY <2>1 DEF ChangesLocally
<1>3. ASSUME NEW owner \in Nodes, NEW name \in Names, Disconnect(owner, name)
      PROVE  ChangesLocally
  BY <1>2, <1>3 DEF Disconnect
<1>4. ASSUME NEW owner \in Nodes, NEW name \in Names, NEW handle \in Nodes \cup Pointers,
             NEW overwrite \in BOOLEAN, Connect(owner, name, handle, overwrite)
      PROVE  ChangesLocally
  <2>1. Resolve(handle) \in Nodes \cup {NoNode}
    BY DEF Resolve, IInv, TypeOK
  <2> QED
    BY <1>2, <1>4, <2>1 DEF Connect
<1>5. ASSUME NEW n \in Nodes, BeginRelease(n)
      PROVE  ChangesLocally
  <2>1. state[n] = "Active" /\ state'[n] = "Releasing"
    BY <1>5 DEF BeginRelease, Active, IInv, TypeOK
  <2>2. \A p \in Nodes, name \in Names :
            children'[p][name] # children[p][name] <=> Touches(n, <<p, name>>)
    <3>1. \A p \in Nodes, name \in Names : <<p, name>> \in incoming[n] <=> children[p][name] = n
      BY DEF IInv, IncomingAgrees
    <3> SUFFICES ASSUME NEW p \in Nodes, NEW name \in Names
                 PROVE  children'[p][name] # children[p][name] <=> Touches(n, <<p, name>>)
      OBVIOUS
    <3>2. children'[p][name] = IF p = n \/ <<p, name>> \in incoming[n] THEN NoNode
                               ELSE children[p][name]
      BY <1>5 DEF BeginRelease, DetachTopology
    <3> QED
      BY <3>1, <3>2, NoNodeAssumption DEF Touches
  <2>3. ChangedEdges = {e \in Nodes \X Names : Touches(n, e)}
    BY <2>2 DEF ChangedEdges
  <2> QED
    BY <2>1, <2>3 DEF ChangesLocally
<1> QED
  BY <1>1, <1>3, <1>4, <1>5 DEF Next, NodeNext, EdgeNext, PointerNext, Create, EndRelease,
     Destroy, Unbind, ReleasePointer, Bind, tables

\* A release removes all edges of its object and no others; no other operation
\* changes more than one edge.
THEOREM EdgesLocal == Spec => EdgesChangeLocally
<1> QED
  BY Invariance, NextLocal, PTL DEF Spec, EdgesChangeLocally

-----------------------------------------------------------------------------
(* The search of wouldCreateCycle: it gives the right answer whenever it    *)
(* gives one, on every table that the operations can reach.                *)

\* The tables as above, and what the search has found of them so far.
SearchIInv ==
    /\ IInv
    /\ SearchTypeOK
    /\ SearchInvariant
    /\ phase = "yes" => WouldCreateCycle(parent, child)

LEMMA SearchInitIInv == SearchInit => SearchIInv
BY InitIInv DEF SearchInit, SearchIInv, SearchTypeOK, SearchInvariant

\* A step of the tables or none leaves the invariant of an idle search alone.
LEMMA SearchFrame ==
    ASSUME IInv, UNCHANGED vars
    PROVE  /\ IInv'
           /\ \A n \in Nodes : ChildrenOf(n)' = ChildrenOf(n)
           /\ \A R \in SUBSET Nodes : ChildClosed(R)' <=> ChildClosed(R)
<1>1. IInv'
  BY NextIInv
<1>2. \A n : ChildrenOf(n)' = ChildrenOf(n)
  BY DEF ChildrenOf, vars, tables
<1>3. \A R \in SUBSET Nodes : ChildClosed(R)' <=> ChildClosed(R)
  BY <1>2 DEF ChildClosed
<1> QED
  BY <1>1, <1>2, <1>3

LEMMA CallStep ==
    ASSUME SearchIInv, NEW p \in Nodes, NEW c \in Nodes, Call(p, c)
    PROVE  SearchIInv'
<1>1. IInv'
  BY SearchFrame DEF Call, SearchIInv
<1>2. SearchTypeOK'
  BY DEF Call, SearchIInv, SearchTypeOK
<1>3. SearchInvariant'
  BY DEF Call, SearchInvariant
<1>4. phase' = "yes" => WouldCreateCycle(parent, child)'
  BY DEF Call, WouldCreateCycle
<1> QED
  BY <1>1, <1>2, <1>3, <1>4 DEF SearchIInv

LEMMA SkipStep ==
    ASSUME SearchIInv, NEW n \in Nodes, Skip(n)
    PROVE  SearchIInv'
<1>1. IInv' /\ \A m \in Nodes : ChildrenOf(m)' = ChildrenOf(m)
  BY SearchFrame DEF Skip, SearchIInv
<1>2. SearchTypeOK'
  BY DEF Skip, SearchIInv, SearchTypeOK
<1>3. visited' \cup pending' = visited \cup pending
  BY DEF Skip
<1>4. SearchInvariant'
  <2>1. \A R \in SUBSET Nodes : ChildClosed(R)' <=> ChildClosed(R)
    BY SearchFrame DEF Skip, SearchIInv
  <2> QED
    BY <1>1, <1>3, <2>1 DEF Skip, SearchIInv, SearchInvariant, SearchTypeOK
<1> QED
  BY <1>1, <1>2, <1>4 DEF SearchIInv, Skip

LEMMA VisitStep ==
    ASSUME SearchIInv, NEW n \in Nodes, Visit(n)
    PROVE  SearchIInv'
<1>1. IInv' /\ \A m \in Nodes : ChildrenOf(m)' = ChildrenOf(m)
  BY SearchFrame DEF Visit, SearchIInv
<1>2. \A R \in SUBSET Nodes : ChildClosed(R)' <=> ChildClosed(R)
  BY SearchFrame DEF Visit, SearchIInv
<1>3. ChildrenOf(n) \subseteq Nodes
  BY DEF ChildrenOf, SearchIInv, IInv, TypeOK
<1>4. SearchTypeOK'
  BY <1>3 DEF Visit, SearchIInv, SearchTypeOK
<1>5. \A R \in SUBSET Nodes : child \in R /\ ChildClosed(R) => n \in R
  BY DEF Visit, SearchIInv, SearchInvariant
<1>6. CASE n = parent
  BY <1>1, <1>2, <1>4, <1>5, <1>6 DEF Visit, SearchIInv, SearchInvariant, WouldCreateCycle
<1>7. CASE n # parent
  <2>1. /\ visited' = visited \cup {n}
        /\ pending' = (pending \ {n}) \cup ChildrenOf(n)
        /\ phase' = "searching" /\ phase = "searching"
        /\ UNCHANGED <<parent, child>>
    BY <1>7 DEF Visit
  <2>2. \A R \in SUBSET Nodes : child \in R /\ ChildClosed(R) => ChildrenOf(n) \subseteq R
    BY <1>5 DEF ChildClosed
  <2>3. SearchInvariant'
    BY <1>1, <1>2, <1>5, <1>7, <2>1, <2>2 DEF SearchIInv, SearchInvariant, SearchTypeOK
  <2> QED
    BY <1>1, <1>4, <2>1, <2>3 DEF SearchIInv
<1> QED
  BY <1>6, <1>7

LEMMA ExhaustStep ==
    ASSUME SearchIInv, Exhaust
    PROVE  SearchIInv'
<1>1. IInv' /\ \A m \in Nodes : ChildrenOf(m)' = ChildrenOf(m)
  BY SearchFrame DEF Exhaust, SearchIInv
<1>2. \A R \in SUBSET Nodes : ChildClosed(R)' <=> ChildClosed(R)
  BY SearchFrame DEF Exhaust, SearchIInv
<1>3. SearchTypeOK' /\ phase' = "no"
  BY DEF Exhaust, SearchIInv, SearchTypeOK
<1>4. SearchInvariant'
  BY <1>1, <1>2 DEF Exhaust, SearchIInv, SearchInvariant, SearchTypeOK
<1> QED
  BY <1>1, <1>3, <1>4 DEF SearchIInv

LEMMA SearchNextIInv == SearchIInv /\ [SearchNext]_allVars => SearchIInv'
<1> SUFFICES ASSUME SearchIInv, [SearchNext]_allVars PROVE SearchIInv'
  OBVIOUS
<1>1. CASE phase = "idle" /\ Next /\ UNCHANGED search
  BY <1>1, NextIInv DEF SearchIInv, SearchTypeOK, SearchInvariant, search
<1>2. ASSUME NEW p \in Nodes, NEW c \in Nodes, Call(p, c) PROVE SearchIInv'
  BY <1>2, CallStep
<1>3. ASSUME NEW n \in Nodes, Skip(n) PROVE SearchIInv'
  BY <1>3, SkipStep
<1>4. ASSUME NEW n \in Nodes, Visit(n) PROVE SearchIInv'
  BY <1>4, VisitStep
<1>5. CASE Exhaust
  BY <1>5, ExhaustStep
<1>6. CASE Return
  BY <1>6, SearchFrame DEF Return, SearchIInv, SearchTypeOK, SearchInvariant
<1>7. CASE UNCHANGED allVars
  <2>1. IInv' /\ \A n \in Nodes : ChildrenOf(n)' = ChildrenOf(n)
    BY <1>7, SearchFrame DEF SearchIInv, allVars
  <2>2. \A R \in SUBSET Nodes : ChildClosed(R)' <=> ChildClosed(R)
    BY <1>7, SearchFrame DEF SearchIInv, allVars
  <2>3. SearchTypeOK'
    BY <1>7 DEF SearchIInv, SearchTypeOK, allVars, search
  <2>4. SearchInvariant'
    BY <1>7, <2>1, <2>2 DEF SearchIInv, SearchTypeOK, SearchInvariant, allVars, search
  <2>5. phase' = "yes" => WouldCreateCycle(parent, child)'
    BY <1>7, <2>2 DEF SearchIInv, WouldCreateCycle, allVars, search
  <2> QED
    BY <2>1, <2>3, <2>4, <2>5 DEF SearchIInv
<1> QED
  BY <1>1, <1>2, <1>3, <1>4, <1>5, <1>6, <1>7 DEF SearchNext, Loop

\* When the loop has run out, what it visited is a closed set around the child
\* that misses the parent.
LEMMA NoIsRight == SearchIInv => AnswerIsReachability
<1> SUFFICES ASSUME SearchIInv, phase = "no" PROVE ~WouldCreateCycle(parent, child)
  BY DEF SearchIInv, AnswerIsReachability
<1>1. child \in visited /\ parent \notin visited /\ visited \in SUBSET Nodes
  BY DEF SearchIInv, SearchInvariant, SearchTypeOK
<1>2. ChildClosed(visited)
  BY DEF SearchIInv, SearchInvariant, ChildClosed
<1> QED
  BY <1>1, <1>2 DEF WouldCreateCycle

\* The invariant of the search holds throughout.
THEOREM SearchInvariance == SearchSpec => []SearchIInv
<1> QED
  BY SearchInitIInv, SearchNextIInv, PTL DEF SearchSpec

\* Whatever the graph, an answer of wouldCreateCycle is the right one.
THEOREM SearchCorrect == SearchSpec => []AnswerIsReachability
<1> QED
  BY SearchInvariance, NoIsRight, PTL
==============================================================================
