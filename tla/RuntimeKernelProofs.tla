------------------------- MODULE RuntimeKernelProofs -------------------------
(***************************************************************************)
(* The kernel with its call stack changes the tables only by the           *)
(* operations of RuntimeTopology and SubscriptionRegistry: it implements   *)
(* both, and so inherits what is proved of them.  On the stack itself, a   *)
(* release lies above every call that might still have something to say of *)
(* its object: handlers hear of the living only.                           *)
(*                                                                         *)
(* At the end, with the history of ChannelPropagation: a change of a data  *)
(* channel that nothing disturbs is copied along every way of              *)
(* subscriptions that passes no object twice, and nowhere else.            *)
(***************************************************************************)
EXTENDS ChannelPropagation, SequenceTheorems, FiniteSetTheorems, TLAPS

\* The steps that touch no table stutter in both of them.
LEMMA TablesUntouched ==
    ASSUME UNCHANGED tables
    PROVE  UNCHANGED Topology!vars /\ UNCHANGED Registry!vars
  BY DEF tables, edgesAndPointers, subscriptions,
         Topology!vars, Topology!tables, Topology!bindings,
         Registry!vars, Registry!registry, Registry!eventTables, Registry!channelTables

-----------------------------------------------------------------------------
(* Topology. *)

\* Every step of the kernel is a step of the topology or changes none of its tables.
LEMMA TopologyStep == [Next]_vars => [Topology!Next]_(Topology!vars)
<1> SUFFICES ASSUME [Next]_vars PROVE [Topology!Next]_(Topology!vars)
  OBVIOUS
<1>1. CASE UNCHANGED tables
  BY <1>1, TablesUntouched
<1>2. CASE UNCHANGED vars
  BY <1>1, <1>2 DEF vars
<1>3. CASE NodeOperation
  BY <1>1, <1>3 DEF NodeOperation, Create, Destroy, Release, Publish,
     Topology!Next, Topology!NodeNext
<1>4. CASE EdgeOperation
  BY <1>4 DEF EdgeOperation, Connect, Disconnect, Topology!Next, Topology!EdgeNext
<1>5. CASE PointerOperation
  BY <1>5 DEF PointerOperation, Topology!Next
<1>6. CASE SubscriptionOperation
  <2>1. UNCHANGED edgesAndPointers /\ UNCHANGED state
    BY <1>6 DEF SubscriptionOperation, SubscribeEvent, SubscribeChannel, Cancel,
       Registry!SubscribeEvent, Registry!SubscribeChannel, Registry!Cancel, edgesAndPointers
  <2> QED
    BY <2>1 DEF edgesAndPointers, Topology!vars, Topology!tables, Topology!bindings
<1>7. CASE HandlerReturn \/ HandlerThrow
  BY <1>1, <1>7 DEF HandlerReturn, HandlerThrow
<1>8. CASE RuntimeStep
  BY <1>1, <1>8 DEF RuntimeStep, Deliver, StartSync, NextBranch, EndSync, EndPublish,
     ChildEvent, ReleaseEvent, EndRelease, Topology!Next, Topology!NodeNext
<1>9. CASE DataStep
  BY <1>1, <1>9 DEF DataStep, Receive, WriteReturn, ReadReturn, EnterPhase
<1> QED
  BY <1>2, <1>3, <1>4, <1>5, <1>6, <1>7, <1>8, <1>9 DEF Next, UserStep

\* The kernel implements the topology: whatever handlers do in the middle of an
\* operation, the tables only ever change as the operations of RuntimeTopology
\* change them.
THEOREM KernelImplementsTopology == Spec => ImplementsTopology
<1>1. Init => Topology!Init
  BY DEF Init
<1> QED
  BY <1>1, TopologyStep, PTL DEF Spec, ImplementsTopology, Topology!Spec

-----------------------------------------------------------------------------
(* Registry. *)

\* Pointers live in the topology alone.
LEMMA PointersOutsideRegistry ==
    ASSUME PointerOperation
    PROVE  UNCHANGED Registry!vars
<1>1. UNCHANGED state
  BY DEF PointerOperation, Topology!PointerNext, Topology!Unbind,
     Topology!ReleasePointer, Topology!Bind
<1> QED
  BY <1>1 DEF PointerOperation, subscriptions, Registry!vars, Registry!registry,
     Registry!eventTables, Registry!channelTables

\* So do the edges.
LEMMA EdgesOutsideRegistry ==
    ASSUME EdgeOperation
    PROVE  UNCHANGED Registry!vars
<1>1. UNCHANGED <<state, subscriptions>>
  BY DEF EdgeOperation, Connect, Disconnect, Topology!Connect, Topology!Disconnect
<1> QED
  BY <1>1 DEF subscriptions, Registry!vars, Registry!registry,
     Registry!eventTables, Registry!channelTables

\* A subscription joins nodes: the handle is resolved first.
LEMMA SubscriptionsAreRegistered ==
    ASSUME SubscriptionOperation, Topology!TypeOK
    PROVE  Registry!Next
<1>1. CASE \E id \in Registry!Ids : Cancel(id)
  BY <1>1 DEF Cancel, Registry!Next
<1>2. ASSUME NEW n \in Nodes, NEW handle \in Nodes \cup Pointers, NEW type \in EventTypes,
             SubscribeEvent(n, handle, type)
      PROVE  Registry!Next
  <2>1. Topology!Resolve(handle) \in Nodes
    BY <1>2 DEF SubscribeEvent, Topology!Resolve, Topology!TypeOK
  <2> QED
    BY <1>2, <2>1 DEF SubscribeEvent, Registry!Next, Registry!SubscribeNext
<1>3. ASSUME NEW n \in Nodes, NEW handle \in Nodes \cup Pointers,
             NEW c \in Channels, NEW d \in Channels, SubscribeChannel(n, c, handle, d)
      PROVE  Registry!Next
  <2>1. Topology!Resolve(handle) \in Nodes
    BY <1>3 DEF SubscribeChannel, Topology!Resolve, Topology!TypeOK
  <2> QED
    BY <1>3, <2>1 DEF SubscribeChannel, Registry!Next, Registry!SubscribeNext
<1> QED
  BY <1>1, <1>2, <1>3 DEF SubscriptionOperation

\* Every step of the kernel is a step of the registry or changes none of its tables.
LEMMA RegistryStep ==
    ASSUME Topology!TypeOK, [Next]_vars
    PROVE  [Registry!Next]_(Registry!vars)
<1>1. CASE UNCHANGED tables
  BY <1>1, TablesUntouched
<1>2. CASE UNCHANGED vars
  BY <1>1, <1>2 DEF vars
<1>3. CASE NodeOperation
  BY <1>1, <1>3 DEF NodeOperation, Create, Destroy, Release, Publish,
     Registry!Next, Registry!LifeCycleNext
<1>4. CASE EdgeOperation
  BY <1>4, EdgesOutsideRegistry
<1>5. CASE PointerOperation
  BY <1>5, PointersOutsideRegistry
<1>6. CASE SubscriptionOperation
  BY <1>6, SubscriptionsAreRegistered
<1>7. CASE HandlerReturn \/ HandlerThrow
  BY <1>1, <1>7 DEF HandlerReturn, HandlerThrow
<1>8. CASE RuntimeStep
  BY <1>1, <1>8 DEF RuntimeStep, Deliver, StartSync, NextBranch, EndSync, EndPublish,
     ChildEvent, ReleaseEvent, EndRelease, Registry!Next, Registry!LifeCycleNext
<1>9. CASE DataStep
  BY <1>1, <1>9 DEF DataStep, Receive, WriteReturn, ReadReturn, EnterPhase
<1> QED
  BY <1>2, <1>3, <1>4, <1>5, <1>6, <1>7, <1>8, <1>9 DEF Next, UserStep

-----------------------------------------------------------------------------
(* What is proved of the two components holds of the kernel. *)

\* The kernel takes a search for a cycle as one step, so none is ever under way.
TopologyProofs == INSTANCE RuntimeTopologyProofs WITH
    phase <- "idle", parent <- NoNode, child <- NoNode, visited <- {}, pending <- {}
RegistryProofs == INSTANCE SubscriptionRegistryProofs

\* The two instances of the topology are the same specification.
LEMMA SameTopology == Topology!Spec => TopologyProofs!Spec
<1>1. Topology!Init => TopologyProofs!Init
  BY DEF Topology!Init, TopologyProofs!Init,
         Topology!RebuildIncoming, TopologyProofs!RebuildIncoming
<1>2. Topology!Next => TopologyProofs!Next
  BY Zenon DEF Topology!Next, TopologyProofs!Next,
     Topology!NodeNext, TopologyProofs!NodeNext, Topology!EdgeNext, TopologyProofs!EdgeNext,
     Topology!PointerNext, TopologyProofs!PointerNext, Topology!Create, TopologyProofs!Create,
     Topology!BeginRelease, TopologyProofs!BeginRelease,
     Topology!EndRelease, TopologyProofs!EndRelease, Topology!Destroy, TopologyProofs!Destroy,
     Topology!Connect, TopologyProofs!Connect, Topology!Disconnect, TopologyProofs!Disconnect,
     Topology!Bind, TopologyProofs!Bind, Topology!Unbind, TopologyProofs!Unbind,
     Topology!UnbindTarget, TopologyProofs!UnbindTarget,
     Topology!ReleasePointer, TopologyProofs!ReleasePointer,
     Topology!UnbindPointers, TopologyProofs!UnbindPointers,
     Topology!DetachTopology, TopologyProofs!DetachTopology,
     Topology!RebuildIncoming, TopologyProofs!RebuildIncoming,
     Topology!ChildItem, TopologyProofs!ChildItem, Topology!Resolve, TopologyProofs!Resolve,
     Topology!Active, TopologyProofs!Active,
     Topology!WouldCreateCycle, TopologyProofs!WouldCreateCycle,
     Topology!ChildClosed, TopologyProofs!ChildClosed,
     Topology!ChildrenOf, TopologyProofs!ChildrenOf,
     Topology!tables, TopologyProofs!tables, Topology!bindings, TopologyProofs!bindings
<1>3. [Topology!Next]_(Topology!vars) => [TopologyProofs!Next]_(TopologyProofs!vars)
  BY <1>2 DEF Topology!vars, TopologyProofs!vars, Topology!tables, TopologyProofs!tables,
     Topology!bindings, TopologyProofs!bindings
<1> QED
  BY <1>1, <1>3, PTL DEF Topology!Spec, TopologyProofs!Spec

\* So are the two instances of the registry.
LEMMA SameRegistry == Registry!Spec => RegistryProofs!Spec
<1>1. Registry!Init => RegistryProofs!Init
  BY DEF Registry!Init, RegistryProofs!Init, Registry!Ids, RegistryProofs!Ids
<1>2. Registry!Next => RegistryProofs!Next
  BY Zenon DEF Registry!Next, RegistryProofs!Next,
     Registry!LifeCycleNext, RegistryProofs!LifeCycleNext,
     Registry!SubscribeNext, RegistryProofs!SubscribeNext,
     Registry!Create, RegistryProofs!Create,
     Registry!BeginRelease, RegistryProofs!BeginRelease,
     Registry!EndRelease, RegistryProofs!EndRelease, Registry!Destroy, RegistryProofs!Destroy,
     Registry!SubscribeEvent, RegistryProofs!SubscribeEvent,
     Registry!SubscribeChannel, RegistryProofs!SubscribeChannel,
     Registry!Cancel, RegistryProofs!Cancel,
     Registry!RemoveEvents, RegistryProofs!RemoveEvents,
     Registry!RemoveChannels, RegistryProofs!RemoveChannels,
     Registry!EventsOf, RegistryProofs!EventsOf, Registry!ChannelsOf, RegistryProofs!ChannelsOf,
     Registry!Allocated, RegistryProofs!Allocated, Registry!Free, RegistryProofs!Free,
     Registry!Distance, RegistryProofs!Distance, Registry!Following, RegistryProofs!Following,
     Registry!Ids, RegistryProofs!Ids, Registry!Active, RegistryProofs!Active,
     Registry!registry, RegistryProofs!registry, Registry!eventTables, RegistryProofs!eventTables,
     Registry!channelTables, RegistryProofs!channelTables
<1>3. [Registry!Next]_(Registry!vars) => [RegistryProofs!Next]_(RegistryProofs!vars)
  BY <1>2 DEF Registry!vars, RegistryProofs!vars, Registry!registry, RegistryProofs!registry,
     Registry!eventTables, RegistryProofs!eventTables,
     Registry!channelTables, RegistryProofs!channelTables
<1> QED
  BY <1>1, <1>3, PTL DEF Registry!Spec, RegistryProofs!Spec

\* In every reachable state of the kernel the topology is well typed.
LEMMA TopologyTyped == Spec => []Topology!TypeOK
<1>1. TopologyProofs!TypeOK => Topology!TypeOK
  BY DEF TopologyProofs!TypeOK, Topology!TypeOK, TopologyProofs!States, Topology!States
<1> QED
  BY <1>1, KernelImplementsTopology, SameTopology, TopologyProofs!TypeCorrect,
     NoNodeAssumption, HandleAssumption, PTL DEF ImplementsTopology

\* The kernel implements the registry: whatever handlers do in the middle of an
\* operation, the tables of subscriptions only ever change as the operations of
\* SubscriptionRegistry change them.
THEOREM KernelImplementsRegistry == Spec => ImplementsRegistry
<1>1. Init => Registry!Init
  BY DEF Init
<1>2. Topology!TypeOK /\ [Next]_vars => [Registry!Next]_(Registry!vars)
  BY RegistryStep
<1> QED
  BY <1>1, <1>2, TopologyTyped, PTL DEF Spec, ImplementsRegistry, Registry!Spec

\* What the proofs about the call stack need to know of the tables.
Inherited ==
    /\ Topology!TypeOK
    /\ Registry!TypeOK
    /\ Registry!IndexesAgree

\* It holds in every reachable state of the kernel, because the kernel implements
\* both components.
LEMMA InheritedAlways == Spec => []Inherited
<1>1. RegistryProofs!TypeOK => Registry!TypeOK
  BY DEF RegistryProofs!TypeOK, Registry!TypeOK, RegistryProofs!States, Registry!States,
     RegistryProofs!Ids, Registry!Ids, RegistryProofs!EventSubscription,
     Registry!EventSubscription, RegistryProofs!ChannelSubscription,
     Registry!ChannelSubscription
<1>2. RegistryProofs!IndexesAgree => Registry!IndexesAgree
  BY DEF RegistryProofs!IndexesAgree, RegistryProofs!EventIndexesAgree,
     RegistryProofs!ChannelIndexesAgree, Registry!IndexesAgree, Registry!EventIndexesAgree,
     Registry!ChannelIndexesAgree, RegistryProofs!Ids, Registry!Ids
<1>3. NoSub \notin RegistryProofs!EventSubscription \cup RegistryProofs!ChannelSubscription
  BY NoSubAssumption DEF RegistryProofs!EventSubscription, RegistryProofs!ChannelSubscription
<1>4. Registry!Spec => []Registry!TypeOK
  BY <1>1, <1>3, SameRegistry, RegistryProofs!TypeCorrect, MaxIdAssumption, PTL
<1>5. Registry!Spec => []Registry!IndexesAgree
  BY <1>2, <1>3, SameRegistry, RegistryProofs!IndexesExact, MaxIdAssumption, PTL
<1>6. Topology!TypeOK /\ Registry!TypeOK /\ Registry!IndexesAgree => Inherited
  BY DEF Inherited
<1> QED
  BY <1>4, <1>5, <1>6, KernelImplementsRegistry, TopologyTyped, PTL DEF ImplementsRegistry

-----------------------------------------------------------------------------
(* Sequences as stacks. *)

\* A frame pushed on a stack.
LEMMA Pushed ==
    ASSUME NEW S, NEW s \in Seq(S), NEW f \in S
    PROVE  LET t == <<f>> \o s
           IN  /\ t \in Seq(S) /\ t # <<>>
               /\ Len(t) = Len(s) + 1
               /\ Head(t) = f
               /\ t[1] = f
               /\ \A i \in 1 .. Len(s) : t[i + 1] = s[i]
               /\ \A i \in 2 .. Len(t) : t[i] = s[i - 1]
  OBVIOUS

\* A frame popped off a stack.
LEMMA Popped ==
    ASSUME NEW S, NEW s \in Seq(S), s # <<>>
    PROVE  /\ Tail(s) \in Seq(S)
           /\ Head(s) \in S /\ Head(s) = s[1]
           /\ Len(s) \in Nat \ {0}
           /\ Len(Tail(s)) = Len(s) - 1
           /\ \A i \in 1 .. Len(s) - 1 : Tail(s)[i] = s[i + 1]
  OBVIOUS

\* Several frames dropped at once by an exception.
LEMMA Dropped ==
    ASSUME NEW S, NEW s \in Seq(S), NEW k \in 2 .. Len(s) + 1
    PROVE  LET t == SubSeq(s, k, Len(s))
           IN  /\ t \in Seq(S)
               /\ Len(t) = Len(s) - k + 1
               /\ \A i \in 1 .. Len(t) : t[i] = s[i + k - 1]
<1>1. \A i \in k .. Len(s) : s[i] \in S
  OBVIOUS
<1> QED
  BY <1>1, SubSeqProperties

-----------------------------------------------------------------------------
(* The invariant of the call stack. *)

\* Frames whose snapshot names identifiers that have been given out, and of the
\* subscriptions that still exist only those to the event, or the channel, being
\* published.  An event that names no channel has nothing to copy, and a copy under
\* way has a target.
OwnFrames(ev, ch, next) ==
    {f \in Frames :
        /\ f.kind = "publish" =>
              /\ \A id \in f.ids :
                    /\ id < next
                    /\ ev[id] # NoSub => ev[id].source = f.source /\ ev[id].type = f.type
              /\ f.channel = NoChannel => f.synced
        /\ f.kind = "sync" =>
              /\ \A id \in f.ids :
                    /\ id < next
                    /\ ch[id] # NoSub =>
                          ch[id].source = f.source /\ ch[id].sourceChannel = f.from
              /\ f.phase # "choose" => f.target \in Nodes /\ f.channel \in Channels}

\* The releases on a stack are those of the Releasing objects, one for each.
ReleasesMatch(s, st) ==
    /\ \A i \in 1 .. Len(s) : s[i].kind = "release" => st[s[i].node] = "Releasing"
    /\ \A i, j \in 1 .. Len(s) :
          s[i].kind = "release" /\ s[j].kind = "release" /\ s[i].node = s[j].node => i = j
    /\ \A n \in Nodes : st[n] = "Releasing" =>
          \E i \in 1 .. Len(s) : s[i].kind = "release" /\ s[i].node = n

\* A publish of Released above the frame g is that of the release g.
Announces(g, f) ==
    g.kind = "release" /\ g.node = f.source /\ g.announced

ReleasedUnderRelease(s) ==
    \A i \in 1 .. Len(s) :
        s[i].kind = "publish" /\ s[i].type = "Released" =>
            i < Len(s) /\ Announces(s[i + 1], s[i])

\* Identifiers from the counter on are unused: without a wrap of the counter no
\* identifier is given out twice.
NextIsFresh(ev, ch, next) ==
    \A id \in Registry!Ids : id >= next => ev[id] = NoSub /\ ch[id] = NoSub

StackInv ==
    /\ published \in 0 .. MaxPublishes
    /\ NextIsFresh(events, channels, nextId)
    /\ stack \in Seq(OwnFrames(events, channels, nextId))
    /\ ReleasesMatch(stack, state)
    /\ ReleasedUnderRelease(stack)

\* What a stack must satisfy while the tables stand still.
StackFits(s) ==
    /\ s \in Seq(OwnFrames(events, channels, nextId))
    /\ ReleasesMatch(s, state)
    /\ ReleasedUnderRelease(s)

\* A frame other than a release may be pushed.
LEMMA PushFits ==
    ASSUME NEW s, StackFits(s), NEW f \in OwnFrames(events, channels, nextId), f.kind # "release",
           f.kind = "publish" /\ f.type = "Released" => s # <<>> /\ Announces(Head(s), f)
    PROVE  StackFits(<<f>> \o s)
<1> DEFINE t == <<f>> \o s
<1> DEFINE G == OwnFrames(events, channels, nextId)
<1>0. s \in Seq(G) /\ f \in G
  BY DEF StackFits
<1>1. /\ t \in Seq(G) /\ Len(t) = Len(s) + 1 /\ t[1] = f /\ Len(s) \in Nat
      /\ \A i \in 1 .. Len(s) : t[i + 1] = s[i]
      /\ \A i \in 2 .. Len(t) : t[i] = s[i - 1]
  <2> HIDE DEF G
  <2> QED
    BY <1>0, Pushed
<1>2. ReleasesMatch(t, state)
  <2> HIDE DEF t
  <2>0. ReleasesMatch(s, state)
    BY DEF StackFits
  <2>1. \A i \in 1 .. Len(t) : t[i].kind = "release" =>
           i \in 2 .. Len(t) /\ i - 1 \in 1 .. Len(s) /\ t[i] = s[i - 1]
    BY <1>1
  <2>2. \A i \in 1 .. Len(t) : t[i].kind = "release" => state[t[i].node] = "Releasing"
    BY <2>0, <2>1 DEF ReleasesMatch
  <2>3. ASSUME NEW i \in 1 .. Len(t), NEW j \in 1 .. Len(t),
               t[i].kind = "release", t[j].kind = "release", t[i].node = t[j].node
        PROVE  i = j
    <3> DEFINE u == i - 1
    <3> DEFINE v == j - 1
    <3>1. /\ u \in 1 .. Len(s) /\ s[u].kind = "release" /\ s[u].node = t[i].node
          /\ v \in 1 .. Len(s) /\ s[v].kind = "release" /\ s[v].node = t[j].node
      BY <2>1, <2>3
    <3>2. ASSUME u = v PROVE i = j
      BY <3>2, <2>1, <2>3
    <3> HIDE DEF u, v
    <3>3. u = v
      BY <2>0, <2>3, <3>1 DEF ReleasesMatch
    <3> QED
      BY <3>2, <3>3
  <2>4. ASSUME NEW n \in Nodes, state[n] = "Releasing"
        PROVE  \E i \in 1 .. Len(t) : t[i].kind = "release" /\ t[i].node = n
    <3>1. PICK i \in 1 .. Len(s) : s[i].kind = "release" /\ s[i].node = n
      BY <2>0, <2>4 DEF ReleasesMatch
    <3> QED
      BY <3>1, <1>1
  <2> QED
    BY <2>2, <2>3, <2>4 DEF ReleasesMatch
<1>3. ReleasedUnderRelease(t)
  <2> SUFFICES ASSUME NEW i \in 1 .. Len(t), t[i].kind = "publish", t[i].type = "Released"
               PROVE  i < Len(t) /\ Announces(t[i + 1], t[i])
    BY DEF ReleasedUnderRelease
  <2> HIDE DEF t
  <2>1. CASE i = 1
    <3>1. s # <<>> /\ Announces(Head(s), f)
      BY <2>1, <1>1
    <3>2. Head(s) = t[2] /\ Len(s) >= 1
      BY <3>1, <1>0, <1>1
    <3> QED
      BY <2>1, <3>1, <3>2, <1>1
  <2>2. CASE i # 1
    <3>1. i - 1 \in 1 .. Len(s) /\ t[i] = s[i - 1]
      BY <2>2, <1>1
    <3>2. i - 1 < Len(s) /\ Announces(s[i - 1 + 1], s[i - 1])
      BY <3>1 DEF StackFits, ReleasedUnderRelease
    <3>3. i \in 1 .. Len(s) /\ i < Len(t) /\ t[i + 1] = s[i] /\ i - 1 + 1 = i
      BY <3>1, <3>2, <1>1
    <3> QED
      BY <3>1, <3>2, <3>3
  <2> QED
    BY <2>1, <2>2
<1> QED
  BY <1>1, <1>2, <1>3 DEF StackFits

\* Frames that hold no release may be dropped: one by a return, more by an
\* exception.
LEMMA DropFits ==
    ASSUME NEW s, StackFits(s), NEW k \in 2 .. Len(s) + 1,
           \A i \in 1 .. k - 1 : s[i].kind # "release"
    PROVE  StackFits(SubSeq(s, k, Len(s)))
<1> DEFINE t == SubSeq(s, k, Len(s))
<1> DEFINE G == OwnFrames(events, channels, nextId)
<1>0. s \in Seq(G) /\ Len(s) \in Nat
  BY DEF StackFits
<1>1. /\ t \in Seq(G) /\ Len(t) = Len(s) - k + 1
      /\ \A i \in 1 .. Len(t) : t[i] = s[i + k - 1]
  <2> HIDE DEF G
  <2> QED
    BY <1>0, Dropped
<1> HIDE DEF t
<1>2. ReleasesMatch(t, state)
  <2>0. ReleasesMatch(s, state)
    BY DEF StackFits
  <2>1. \A i \in 1 .. Len(t) : i + k - 1 \in 1 .. Len(s) /\ t[i] = s[i + k - 1]
    BY <1>0, <1>1
  <2>2. \A i \in 1 .. Len(t) : t[i].kind = "release" => state[t[i].node] = "Releasing"
    BY <2>0, <2>1 DEF ReleasesMatch
  <2>3. ASSUME NEW i \in 1 .. Len(t), NEW j \in 1 .. Len(t),
               t[i].kind = "release", t[j].kind = "release", t[i].node = t[j].node
        PROVE  i = j
    <3> DEFINE u == i + k - 1
    <3> DEFINE v == j + k - 1
    <3>1. /\ u \in 1 .. Len(s) /\ s[u].kind = "release" /\ s[u].node = t[i].node
          /\ v \in 1 .. Len(s) /\ s[v].kind = "release" /\ s[v].node = t[j].node
      BY <2>1, <2>3
    <3>2. ASSUME u = v PROVE i = j
      BY <3>2, <1>0, <1>1
    <3> HIDE DEF u, v
    <3>3. u = v
      BY <2>0, <2>3, <3>1 DEF ReleasesMatch
    <3> QED
      BY <3>2, <3>3
  <2>4. ASSUME NEW n \in Nodes, state[n] = "Releasing"
        PROVE  \E i \in 1 .. Len(t) : t[i].kind = "release" /\ t[i].node = n
    <3>1. PICK i \in 1 .. Len(s) : s[i].kind = "release" /\ s[i].node = n
      BY <2>0, <2>4 DEF ReleasesMatch
    <3>2. i >= k
      BY <3>1, <1>0
    <3>3. i - k + 1 \in 1 .. Len(t) /\ (i - k + 1) + k - 1 = i
      BY <3>2, <1>0, <1>1
    <3> QED
      BY <3>1, <3>3, <1>1
  <2> QED
    BY <2>2, <2>3, <2>4 DEF ReleasesMatch
<1>3. ReleasedUnderRelease(t)
  <2> SUFFICES ASSUME NEW i \in 1 .. Len(t), t[i].kind = "publish", t[i].type = "Released"
               PROVE  i < Len(t) /\ Announces(t[i + 1], t[i])
    BY DEF ReleasedUnderRelease
  <2>1. i + k - 1 \in 1 .. Len(s) /\ t[i] = s[i + k - 1]
    BY <1>0, <1>1
  <2>2. i + k - 1 < Len(s) /\ Announces(s[(i + k - 1) + 1], s[i + k - 1])
    BY <2>1 DEF StackFits, ReleasedUnderRelease
  <2>3. i + 1 \in 1 .. Len(t) /\ i < Len(t) /\ (i + 1) + k - 1 = (i + k - 1) + 1
    BY <2>1, <2>2, <1>0, <1>1
  <2> QED
    BY <2>1, <2>2, <2>3, <1>1
<1> QED
  BY <1>1, <1>2, <1>3 DEF StackFits, t

\* The frame on top returns.
LEMMA PopFits ==
    ASSUME NEW s, StackFits(s), s # <<>>, Head(s).kind # "release"
    PROVE  StackFits(Tail(s))
<1>1. s \in Seq(OwnFrames(events, channels, nextId))
  BY DEF StackFits
<1>2. Len(s) \in Nat /\ 2 \in 2 .. Len(s) + 1 /\ s[1].kind # "release"
  BY <1>1
<1>3. Tail(s) = SubSeq(s, 2, Len(s))
  BY <1>1
<1>4. \A i \in 1 .. 2 - 1 : s[i].kind # "release"
  BY <1>2
<1> QED
  BY <1>2, <1>3, <1>4, DropFits

\* The frame on top goes on: it stays the same call with less left to do.
LEMMA AdvanceFits ==
    ASSUME NEW s, StackFits(s), s # <<>>, NEW g \in OwnFrames(events, channels, nextId),
           g.kind = Head(s).kind,
           g.kind = "release" => g.node = Head(s).node,
           g.kind = "publish" => g.source = Head(s).source /\ g.type = Head(s).type
    PROVE  StackFits(<<g>> \o Tail(s))
<1> DEFINE t == <<g>> \o Tail(s)
<1> DEFINE G == OwnFrames(events, channels, nextId)
<1>0. s \in Seq(G) /\ g \in G
  BY DEF StackFits
<1>1. /\ t \in Seq(G) /\ Len(t) = Len(s) /\ Len(s) \in Nat \ {0}
      /\ t[1] = g /\ Head(s) = s[1]
      /\ \A i \in 2 .. Len(s) : t[i] = s[i]
  <2> HIDE DEF G
  <2>1. /\ Tail(s) \in Seq(G) /\ Len(s) \in Nat \ {0} /\ Head(s) = s[1]
        /\ Len(Tail(s)) = Len(s) - 1
        /\ \A i \in 1 .. Len(s) - 1 : Tail(s)[i] = s[i + 1]
    BY <1>0, Popped
  <2>2. /\ t \in Seq(G) /\ Len(t) = Len(Tail(s)) + 1 /\ t[1] = g
        /\ \A i \in 2 .. Len(t) : t[i] = Tail(s)[i - 1]
    BY <1>0, <2>1, Pushed
  <2>3. ASSUME NEW i \in 2 .. Len(s) PROVE t[i] = s[i]
    <3>1. i - 1 \in 1 .. Len(s) - 1 /\ i - 1 + 1 = i
      BY <2>1
    <3> HIDE DEF t
    <3> QED
      BY <3>1, <2>1, <2>2
  <2> HIDE DEF t
  <2> QED
    BY <2>1, <2>2, <2>3
<1> HIDE DEF t
<1>2. \A i \in 1 .. Len(s) :
         /\ t[i].kind = s[i].kind
         /\ t[i].kind = "release" => t[i].node = s[i].node
         /\ t[i].kind = "publish" => t[i].source = s[i].source /\ t[i].type = s[i].type
  <2> TAKE i \in 1 .. Len(s)
  <2> QED
    BY <1>1
<1>3. ReleasesMatch(t, state)
  BY <1>1, <1>2 DEF StackFits, ReleasesMatch
<1>4. ReleasedUnderRelease(t)
  <2> SUFFICES ASSUME NEW i \in 1 .. Len(s), t[i].kind = "publish", t[i].type = "Released"
               PROVE  i < Len(s) /\ Announces(t[i + 1], t[i])
    BY <1>1 DEF ReleasedUnderRelease
  <2>1. s[i].kind = "publish" /\ s[i].type = "Released" /\ t[i].source = s[i].source
    BY <1>2
  <2>2. i < Len(s) /\ Announces(s[i + 1], s[i])
    BY <2>1 DEF StackFits, ReleasedUnderRelease
  <2>3. t[i + 1] = s[i + 1]
    BY <2>2, <1>1
  <2> QED
    BY <2>1, <2>2, <2>3 DEF Announces
<1> QED
  BY <1>1, <1>3, <1>4 DEF StackFits, t

-----------------------------------------------------------------------------
(* Every step keeps the invariant of the call stack. *)

\* A step that leaves the tables alone and a stack that fits them.
LEMMA StandStill ==
    ASSUME StackInv, UNCHANGED tables, StackFits(stack'), published' \in 0 .. MaxPublishes
    PROVE  StackInv'
<1>1. events' = events /\ channels' = channels /\ nextId' = nextId /\ state' = state
  BY DEF tables, subscriptions
<1>2. NextIsFresh(events', channels', nextId')
  BY <1>1 DEF StackInv
<1>3. /\ stack' \in Seq(OwnFrames(events', channels', nextId'))
      /\ ReleasesMatch(stack', state')
      /\ ReleasedUnderRelease(stack')
  BY <1>1 DEF StackFits
<1> QED
  BY <1>2, <1>3 DEF StackInv

\* The count stays within its limit, also where data dies.
LEMMA DataDiesFits ==
    ASSUME StackInv, NEW owned \in BOOLEAN, DataDies(owned)
    PROVE  published' \in 0 .. MaxPublishes
  BY LimitsAssumption DEF DataDies, LimitReached, StackInv

LEMMA CountFits ==
    ASSUME StackInv, NEW s
    PROVE  CountFor(s) \in 0 .. MaxPublishes
<1>1. OwnersLeft(s) \subseteq 1 .. Len(stack)
  BY DEF OwnersLeft, FramesOf
<1>2. IsFiniteSet(1 .. Len(stack))
  <2>1. Len(stack) \in Nat
    BY DEF StackInv
  <2> QED
    BY <2>1, FS_Interval
<1>3. Cardinality(OwnersLeft(s)) \in Nat
  BY <1>1, <1>2, FS_Subset, FS_CardinalityType
<1> QED
  BY <1>3, LimitsAssumption DEF CountFor, StackInv

\* A raised event: its snapshot is read from an index that agrees with the table.
LEMMA RaiseFits ==
    ASSUME StackInv, Inherited, NEW source \in Nodes, NEW type \in EventTypes,
           NEW channel \in Channels \cup {NoChannel}, NEW owned \in BOOLEAN,
           NEW below, StackFits(below), Raise(source, type, channel, owned, below),
           type = "Released" =>
               /\ below # <<>>
               /\ Head(below).kind = "release"
               /\ Head(below).node = source
               /\ Head(below).announced
    PROVE  StackFits(stack') /\ published' \in 0 .. MaxPublishes
<1>1. CASE Truncated(source, type)
  <2>1. stack' = below /\ DataDies(owned)
    BY <1>1 DEF Raise
  <2> QED
    BY <2>1, DataDiesFits
<1>2. CASE ~Truncated(source, type)
  <2> DEFINE f == PublishFrame(source, type, channel, owned)
  <2>1. stack' = <<f>> \o below /\ published' = published + 1
    BY <1>2 DEF Raise
  <2>2. published' \in 0 .. MaxPublishes
    BY <1>2, <2>1, LimitsAssumption DEF Truncated, LimitReached, StackInv
  <2>3. eventsBySource[<<source, type>>] \in SUBSET Registry!Ids
    BY DEF Inherited, Registry!TypeOK
  <2>4. f \in Frames
    BY <2>3 DEF Frames, PublishFrames, PublishFrame
  <2>5. ASSUME NEW id \in eventsBySource[<<source, type>>]
        PROVE  /\ id < nextId
               /\ events[id].source = source /\ events[id].type = type
    <3>1. id \in Registry!Ids
      BY <2>3
    <3>2. events[id] # NoSub /\ events[id].source = source /\ events[id].type = type
      BY <2>5, <3>1 DEF Inherited, Registry!IndexesAgree, Registry!EventIndexesAgree
    <3>3. ~(id >= nextId)
      BY <3>1, <3>2 DEF StackInv, NextIsFresh
    <3> QED
      BY <3>1, <3>2, <3>3 DEF Inherited, Registry!TypeOK, Registry!Ids
  <2>6. f \in OwnFrames(events, channels, nextId)
    BY <2>4, <2>5 DEF OwnFrames, PublishFrame
  <2>7. f.kind = "publish" /\ f.source = source /\ f.type = type
    BY DEF PublishFrame
  <2>8. f.type = "Released" => below # <<>> /\ Announces(Head(below), f)
    BY <2>7 DEF Announces
  <2> HIDE DEF f
  <2>9. StackFits(<<f>> \o below)
    BY <2>6, <2>7, <2>8, PushFits
  <2> QED
    BY <2>1, <2>2, <2>9
<1> QED
  BY <1>1, <1>2

\* The invariant gives the stack what the lemmas about stacks ask for.
LEMMA StackFitsNow ==
    ASSUME StackInv
    PROVE  /\ StackFits(stack) /\ published \in 0 .. MaxPublishes /\ 0 \in 0 .. MaxPublishes
           /\ stack \in Seq(Frames)
           /\ \A i \in 1 .. Len(stack) : stack[i] \in OwnFrames(events, channels, nextId)
           /\ stack # <<>> => Head(stack) \in OwnFrames(events, channels, nextId)
<1>1. stack \in Seq(OwnFrames(events, channels, nextId)) /\ OwnFrames(events, channels, nextId) \subseteq Frames
  BY DEF StackInv, OwnFrames
<1>2. stack \in Seq(Frames)
  BY <1>1
<1>3. stack # <<>> => Head(stack) \in OwnFrames(events, channels, nextId)
  BY <1>1
<1> QED
  BY <1>1, <1>2, <1>3, LimitsAssumption DEF StackInv, StackFits

\* A handler returns; a handler, or the code of an object, throws.
LEMMA HandlerStep ==
    ASSUME StackInv, HandlerReturn \/ HandlerThrow
    PROVE  StackInv'
<1>1. CASE HandlerReturn
  <2>1. stack # <<>> /\ Head(stack).kind # "release" /\ stack' = Tail(stack)
        /\ published' = published /\ UNCHANGED tables
    BY <1>1 DEF HandlerReturn, Top
  <2> QED
    BY <2>1, StackFitsNow, PopFits, StandStill
<1>2. CASE HandlerThrow
  <2>1. UNCHANGED tables /\ stack # <<>> /\ Head(stack).kind # "release"
    BY <1>2 DEF HandlerThrow, InUserCode, IsUserCode
  <2>2. PICK k \in 2 .. Len(stack) + 1 :
           /\ \A i \in 2 .. k - 1 : stack[i].kind # "release"
           /\ stack' = SubSeq(stack, k, Len(stack))
    BY <1>2 DEF HandlerThrow
  <2>3. \A i \in 1 .. k - 1 : stack[i].kind # "release"
    BY <2>1, <2>2, StackFitsNow
  <2>4. StackFits(stack')
    BY <2>2, <2>3, StackFitsNow, DropFits
  <2>5. published' \in 0 .. MaxPublishes
    BY <1>2, CountFits DEF HandlerThrow
  <2> QED
    BY <2>1, <2>4, <2>5, StandStill
<1> QED
  BY <1>1, <1>2

\* The next handler of a snapshot.
LEMMA DeliverStep ==
    ASSUME StackInv, Deliver
    PROVE  StackInv'
<1>1. stack # <<>> /\ Head(stack).kind = "publish" /\ UNCHANGED tables /\ published' = published
  BY DEF Deliver, Top
<1>2. PICK id \in Head(stack).ids :
         LET rest == <<[Head(stack) EXCEPT !.ids = @ \ {id}]>> \o Tail(stack)
         IN  \/ stack' = <<[kind |-> "handler", id |-> id]>> \o rest
             \/ stack' = rest
  BY DEF Deliver
<1> DEFINE g == [Head(stack) EXCEPT !.ids = @ \ {id}]
<1>3. Head(stack) \in OwnFrames(events, channels, nextId)
  BY <1>1, StackFitsNow
<1>4. Head(stack) \in PublishFrames
  BY <1>1, <1>3 DEF OwnFrames, Frames, HandlerFrames, PublishFrames, SyncFrames, ConnectFrames,
     ReleaseFrames
<1>5. /\ g \in PublishFrames /\ g.kind = "publish" /\ g.source = Head(stack).source
      /\ g.type = Head(stack).type /\ g.ids \subseteq Head(stack).ids
      /\ g.channel = Head(stack).channel /\ g.synced = Head(stack).synced
  BY <1>4 DEF PublishFrames
<1>6. g \in OwnFrames(events, channels, nextId)
  BY <1>1, <1>3, <1>5 DEF OwnFrames, Frames
<1> HIDE DEF g
<1>7. StackFits(<<g>> \o Tail(stack))
  BY <1>1, <1>5, <1>6, StackFitsNow, AdvanceFits
<1> DEFINE f == [kind |-> "handler", id |-> id]
<1>8. f.kind = "handler" /\ f \in OwnFrames(events, channels, nextId)
  BY <1>4 DEF PublishFrames, HandlerFrames, Frames, OwnFrames
<1> HIDE DEF f
<1>9. StackFits(<<f>> \o (<<g>> \o Tail(stack)))
  BY <1>7, <1>8, PushFits
<1>10. StackFits(stack')
  BY <1>2, <1>7, <1>9 DEF f, g
<1> QED
  BY <1>1, <1>10, StackFitsNow, StandStill

\* The end of a snapshot.
LEMMA EndPublishStep ==
    ASSUME StackInv, EndPublish
    PROVE  StackInv'
<1>1. /\ stack # <<>> /\ Head(stack).kind = "publish" /\ stack' = Tail(stack)
      /\ UNCHANGED tables
  BY DEF EndPublish, Top
<1>2. published' \in 0 .. MaxPublishes
  BY CountFits DEF EndPublish
<1> QED
  BY <1>1, <1>2, StackFitsNow, PopFits, StandStill

\* Connect and Disconnect publish their next event, or return.
LEMMA ChildEventStep ==
    ASSUME StackInv, Inherited, ChildEvent
    PROVE  StackInv'
<1>1. stack # <<>> /\ Head(stack).kind = "connect" /\ UNCHANGED tables
  BY DEF ChildEvent, Top
<1>2. CASE Head(stack).todo = <<>>
  <2>1. stack' = Tail(stack) /\ published' = published
    BY <1>2 DEF ChildEvent
  <2> QED
    BY <1>1, <2>1, StackFitsNow, PopFits, StandStill
<1>3. CASE Head(stack).todo # <<>>
  <2> DEFINE g == [Head(stack) EXCEPT !.todo = Tail(@)]
  <2>1. Raise(Head(stack).node, Head(Head(stack).todo), NoChannel, TRUE, <<g>> \o Tail(stack))
    BY <1>3 DEF ChildEvent
  <2>2. Head(stack) \in OwnFrames(events, channels, nextId)
    BY <1>1, StackFitsNow
  <2>3. Head(stack) \in ConnectFrames
    BY <1>1, <2>2 DEF OwnFrames, Frames, HandlerFrames, PublishFrames, SyncFrames, ConnectFrames,
     ReleaseFrames
  <2>4. g \in ConnectFrames /\ g.kind = "connect"
    <3>1. \/ Head(stack).todo = <<"ChildConnected">>
          \/ Head(stack).todo = <<"ChildDisconnected">>
          \/ Head(stack).todo = <<"ChildDisconnected", "ChildConnected">>
      BY <2>3, <1>3 DEF ConnectFrames
    <3>2. Tail(<<"ChildConnected">>) = <<>> /\ Tail(<<"ChildDisconnected">>) = <<>>
      OBVIOUS
    <3>3. Tail(<<"ChildDisconnected", "ChildConnected">>) = <<"ChildConnected">>
      OBVIOUS
    <3>4. Tail(Head(stack).todo) \in {<<>>, <<"ChildConnected">>}
      BY <3>1, <3>2, <3>3
    <3> QED
      BY <2>3, <3>4 DEF ConnectFrames
  <2>5. g \in OwnFrames(events, channels, nextId)
    BY <2>4 DEF OwnFrames, Frames
  <2>6. /\ Head(stack).node \in Nodes
        /\ Head(Head(stack).todo) \in {"ChildConnected", "ChildDisconnected"}
    BY <2>3, <1>3 DEF ConnectFrames
  <2> HIDE DEF g
  <2>7. StackFits(<<g>> \o Tail(stack))
    BY <1>1, <2>4, <2>5, StackFitsNow, AdvanceFits
  <2>8. /\ Head(Head(stack).todo) \in EventTypes
        /\ Head(Head(stack).todo) # "Released"
    BY <2>6 DEF EventTypes, RuntimeTypes
  <2> QED
    BY <1>1, <2>1, <2>6, <2>7, <2>8, RaiseFits, StandStill
<1> QED
  BY <1>2, <1>3

\* A release publishes its next event.
LEMMA ReleaseEventStep ==
    ASSUME StackInv, Inherited, ReleaseEvent
    PROVE  StackInv'
<1>1. stack # <<>> /\ Head(stack).kind = "release" /\ UNCHANGED tables
  BY DEF ReleaseEvent, Top
<1>2. Head(stack) \in OwnFrames(events, channels, nextId)
  BY <1>1, StackFitsNow
<1>3. Head(stack) \in ReleaseFrames
  BY <1>1, <1>2 DEF OwnFrames, Frames, HandlerFrames, PublishFrames, SyncFrames, ConnectFrames,
     ReleaseFrames
<1>4. {"ChildDisconnected", "Released"} \subseteq EventTypes
  BY DEF EventTypes, RuntimeTypes
<1>5. ASSUME NEW g \in ReleaseFrames, g.kind = "release", g.node = Head(stack).node,
             NEW source \in Nodes, NEW type \in {"ChildDisconnected", "Released"},
             type = "Released" => source = g.node /\ g.announced,
             NEW owned \in BOOLEAN, Raise(source, type, NoChannel, owned, <<g>> \o Tail(stack))
      PROVE  StackInv'
  <2>1. g \in OwnFrames(events, channels, nextId)
    BY <1>5 DEF OwnFrames, Frames
  <2>2. StackFits(<<g>> \o Tail(stack))
    BY <1>1, <1>5, <2>1, StackFitsNow, AdvanceFits
  <2>3. <<g>> \o Tail(stack) # <<>> /\ Head(<<g>> \o Tail(stack)) = g
    BY <1>1, <2>1, StackFitsNow, Popped, Pushed
  <2> QED
    BY <1>1, <1>4, <1>5, <2>2, <2>3, RaiseFits, StandStill
<1>6. ASSUME NEW e \in Head(stack).parents,
             Raise(e[1], "ChildDisconnected", NoChannel, TRUE,
                   <<[Head(stack) EXCEPT !.parents = @ \ {e}]>> \o Tail(stack))
      PROVE  StackInv'
  <2> DEFINE g == [Head(stack) EXCEPT !.parents = @ \ {e}]
  <2>1. e[1] \in Nodes
    BY <1>3 DEF ReleaseFrames, Edges
  <2>2. g \in ReleaseFrames /\ g.kind = "release" /\ g.node = Head(stack).node
    BY <1>3 DEF ReleaseFrames
  <2> QED
    BY <1>5, <1>6, <2>1, <2>2
<1>7. ASSUME NEW name \in Head(stack).names,
             Raise(Head(stack).node, "ChildDisconnected", NoChannel, TRUE,
                   <<[Head(stack) EXCEPT !.names = @ \ {name}]>> \o Tail(stack))
      PROVE  StackInv'
  <2> DEFINE g == [Head(stack) EXCEPT !.names = @ \ {name}]
  <2>1. Head(stack).node \in Nodes
    BY <1>3 DEF ReleaseFrames
  <2>2. g \in ReleaseFrames /\ g.kind = "release" /\ g.node = Head(stack).node
    BY <1>3 DEF ReleaseFrames
  <2> QED
    BY <1>5, <1>7, <2>1, <2>2
<1>8. ASSUME Raise(Head(stack).node, "Released", NoChannel, FALSE,
                   <<[Head(stack) EXCEPT !.announced = TRUE]>> \o Tail(stack))
      PROVE  StackInv'
  <2> DEFINE g == [Head(stack) EXCEPT !.announced = TRUE]
  <2>1. Head(stack).node \in Nodes
    BY <1>3 DEF ReleaseFrames
  <2>2. g \in ReleaseFrames /\ g.kind = "release" /\ g.node = Head(stack).node /\ g.announced
    BY <1>3 DEF ReleaseFrames
  <2> QED
    BY <1>5, <1>8, <2>1, <2>2
<1> QED
  BY <1>6, <1>7, <1>8 DEF ReleaseEvent

-----------------------------------------------------------------------------
(* Channel synchronisation. *)

\* A frame on top of the stack that copies channels.
LEMMA SyncOnTop ==
    ASSUME StackInv, Top("sync")
    PROVE  /\ stack # <<>> /\ Head(stack).kind = "sync"
           /\ Head(stack) \in SyncFrames /\ Head(stack) \in OwnFrames(events, channels, nextId)
           /\ Head(stack).phase # "choose" =>
                 Head(stack).target \in Nodes /\ Head(stack).channel \in Channels
<1>1. stack # <<>> /\ Head(stack).kind = "sync"
  BY DEF Top
<1>2. Head(stack) \in OwnFrames(events, channels, nextId)
  BY <1>1, StackFitsNow
<1> QED
  BY <1>1, <1>2 DEF OwnFrames, Frames, HandlerFrames, PublishFrames, SyncFrames,
     ConnectFrames, ReleaseFrames

\* The same call goes on with a snapshot that is no larger, and a target if its
\* copy is under way.
LEMMA SyncAdvances ==
    ASSUME StackInv, Top("sync"), NEW g \in SyncFrames,
           g.source = Head(stack).source, g.from = Head(stack).from,
           g.ids \subseteq Head(stack).ids,
           g.phase # "choose" => g.target \in Nodes /\ g.channel \in Channels
    PROVE  StackFits(<<g>> \o Tail(stack))
<1>1. g.kind = "sync"
  BY DEF SyncFrames
<1>2. g \in OwnFrames(events, channels, nextId)
  BY <1>1, SyncOnTop DEF OwnFrames, Frames
<1> QED
  BY <1>1, <1>2, SyncOnTop, StackFitsNow, AdvanceFits

\* The copies of a change begin: the snapshot is read from an index that agrees
\* with the table.
LEMMA StartSyncStep ==
    ASSUME StackInv, Inherited, StartSync
    PROVE  StackInv'
<1> DEFINE change == Head(stack)
<1> DEFINE f == [kind |-> "sync", source |-> change.source, from |-> change.channel,
                 ids |-> channelsBySource[<<change.source, change.channel>>],
                 target |-> NoNode, channel |-> NoChannel, phase |-> "choose"]
<1> DEFINE g == [change EXCEPT !.synced = TRUE]
<1>1. /\ stack # <<>> /\ change.kind = "publish" /\ ~change.synced
      /\ stack' = <<f>> \o (<<g>> \o Tail(stack))
      /\ UNCHANGED tables /\ published' = published
  BY DEF StartSync, Top
<1>2. change \in OwnFrames(events, channels, nextId)
  BY <1>1, StackFitsNow
<1>3. change \in PublishFrames
  BY <1>1, <1>2 DEF OwnFrames, Frames, HandlerFrames, PublishFrames, SyncFrames,
     ConnectFrames, ReleaseFrames
<1>4. CASE change.channel \in Channels
  <2>1. /\ g \in PublishFrames /\ g.kind = "publish" /\ g.source = change.source
        /\ g.type = change.type /\ g.ids = change.ids /\ g.synced
    BY <1>3 DEF PublishFrames
  <2>2. g \in OwnFrames(events, channels, nextId)
    BY <1>1, <1>2, <2>1 DEF OwnFrames, Frames
  <2>3. change.source \in Nodes
    BY <1>3 DEF PublishFrames
  <2>4. channelsBySource[<<change.source, change.channel>>] \in SUBSET Registry!Ids
    BY <1>4, <2>3 DEF Inherited, Registry!TypeOK
  <2>5. f \in SyncFrames
    BY <1>4, <2>3, <2>4 DEF SyncFrames, Phases
  <2>6. ASSUME NEW id \in channelsBySource[<<change.source, change.channel>>]
        PROVE  /\ id < nextId
               /\ channels[id].source = change.source
               /\ channels[id].sourceChannel = change.channel
    <3>1. id \in Registry!Ids
      BY <2>4
    <3>2. channels[id] # NoSub /\ channels[id].source = change.source
          /\ channels[id].sourceChannel = change.channel
      BY <1>4, <2>3, <2>6, <3>1 DEF Inherited, Registry!IndexesAgree,
         Registry!ChannelIndexesAgree
    <3>3. ~(id >= nextId)
      BY <3>1, <3>2 DEF StackInv, NextIsFresh
    <3> QED
      BY <3>1, <3>2, <3>3 DEF Inherited, Registry!TypeOK, Registry!Ids
  <2>7. f \in OwnFrames(events, channels, nextId)
    BY <2>5, <2>6 DEF OwnFrames, Frames
  <2>8. f.kind = "sync"
    OBVIOUS
  <2> HIDE DEF f, g
  <2>9. StackFits(<<g>> \o Tail(stack))
    BY <1>1, <2>1, <2>2, StackFitsNow, AdvanceFits
  <2>10. StackFits(stack')
    BY <1>1, <2>7, <2>8, <2>9, PushFits
  <2> QED
    BY <1>1, <2>10, StackFitsNow, StandStill
<1>5. CASE change.channel = NoChannel
  BY <1>1, <1>2, <1>5 DEF OwnFrames
<1> QED
  BY <1>3, <1>4, <1>5 DEF PublishFrames

\* The next subscription of the snapshot, which a live subscription gives a target.
LEMMA NextBranchStep ==
    ASSUME StackInv, Inherited, NextBranch
    PROVE  StackInv'
<1>1. Top("sync") /\ UNCHANGED tables /\ published' = published /\ Head(stack).phase = "choose"
  BY DEF NextBranch, Choosing
<1>2. PICK id \in Head(stack).ids :
         LET frame == [Head(stack) EXCEPT !.ids = @ \ {id}]
         IN  stack' = <<IF Follows(frame, id)
                        THEN [frame EXCEPT !.target = channels[id].target,
                                           !.channel = channels[id].targetChannel,
                                           !.phase = "reading"]
                        ELSE [frame EXCEPT !.target = NoNode]>> \o Tail(stack)
  BY DEF NextBranch
<1> DEFINE frame == [Head(stack) EXCEPT !.ids = @ \ {id}]
<1> DEFINE copy == [frame EXCEPT !.target = channels[id].target,
                                 !.channel = channels[id].targetChannel,
                                 !.phase = "reading"]
<1> DEFINE none == [frame EXCEPT !.target = NoNode]
<1>3. Head(stack) \in SyncFrames /\ id \in Registry!Ids
  BY <1>1, SyncOnTop DEF SyncFrames
<1>4. CASE Follows(frame, id)
  <2>1. channels[id].target \in Nodes /\ channels[id].targetChannel \in Channels
    BY <1>3, <1>4 DEF Follows, Inherited, Registry!TypeOK, Registry!ChannelSubscription
  <2>2. /\ copy \in SyncFrames /\ copy.source = Head(stack).source
        /\ copy.from = Head(stack).from /\ copy.ids \subseteq Head(stack).ids
        /\ copy.target \in Nodes /\ copy.channel \in Channels
    BY <1>3, <2>1 DEF SyncFrames, Phases
  <2>3. stack' = <<copy>> \o Tail(stack)
    BY <1>2, <1>4
  <2> HIDE DEF copy
  <2> QED
    BY <1>1, <2>2, <2>3, SyncAdvances, StackFitsNow, StandStill
<1>5. CASE ~Follows(frame, id)
  <2>1. /\ none \in SyncFrames /\ none.source = Head(stack).source
        /\ none.from = Head(stack).from /\ none.ids \subseteq Head(stack).ids
        /\ none.phase = "choose"
    BY <1>1, <1>3 DEF SyncFrames
  <2>2. stack' = <<none>> \o Tail(stack)
    BY <1>2, <1>5
  <2> HIDE DEF none
  <2> QED
    BY <1>1, <2>1, <2>2, SyncAdvances, StackFitsNow, StandStill
<1> QED
  BY <1>4, <1>5

\* A copy under way comes to its next phase.
LEMMA EnterPhaseStep ==
    ASSUME StackInv, Top("sync"), Head(stack).phase # "choose",
           NEW phase \in Phases, EnterPhase(phase)
    PROVE  StackInv'
<1> DEFINE g == [Head(stack) EXCEPT !.phase = phase]
<1>1. stack' = <<g>> \o Tail(stack) /\ UNCHANGED tables /\ published' = published
  BY DEF EnterPhase
<1>2. /\ g \in SyncFrames /\ g.source = Head(stack).source /\ g.from = Head(stack).from
      /\ g.ids = Head(stack).ids /\ g.target \in Nodes /\ g.channel \in Channels
  BY SyncOnTop DEF SyncFrames
<1> HIDE DEF g
<1> QED
  BY <1>1, <1>2, SyncAdvances, StackFitsNow, StandStill

\* ReadData returns, and the copy is announced from the target or given up.
LEMMA ReadReturnStep ==
    ASSUME StackInv, Inherited, NEW ok \in BOOLEAN, ReadReturn(ok)
    PROVE  StackInv'
<1> DEFINE frame == Head(stack)
<1> DEFINE next == [frame EXCEPT !.phase = "choose", !.channel = NoChannel]
<1> DEFINE none == [next EXCEPT !.target = NoNode]
<1>1. Top("sync") /\ frame.phase # "choose" /\ UNCHANGED tables
  BY DEF ReadReturn, InPhase
<1>2. /\ frame \in SyncFrames /\ frame.target \in Nodes /\ frame.channel \in Channels
  BY <1>1, SyncOnTop
<1>3. /\ next \in SyncFrames /\ next.source = frame.source /\ next.from = frame.from
      /\ next.ids = frame.ids /\ next.phase = "choose"
  BY <1>2 DEF SyncFrames, Phases
<1>4. /\ none \in SyncFrames /\ none.source = frame.source /\ none.from = frame.from
      /\ none.ids = frame.ids /\ none.phase = "choose"
  BY <1>2 DEF SyncFrames, Phases
<1>5. \/ Raise(frame.target, Changed, frame.channel, TRUE, <<next>> \o Tail(stack))
      \/ stack' = <<none>> \o Tail(stack) /\ published' = published
  BY DEF ReadReturn
<1> HIDE DEF next, none
<1>6. CASE Raise(frame.target, Changed, frame.channel, TRUE, <<next>> \o Tail(stack))
  <2>1. Changed \in EventTypes /\ Changed # "Released"
    BY <1>2, ChannelsAssumption DEF EventTypes, Changed
  <2>2. StackFits(<<next>> \o Tail(stack))
    BY <1>1, <1>3, SyncAdvances
  <2> QED
    BY <1>1, <1>2, <1>6, <2>1, <2>2, RaiseFits, StandStill
<1>7. CASE stack' = <<none>> \o Tail(stack) /\ published' = published
  BY <1>1, <1>4, <1>7, SyncAdvances, StackFitsNow, StandStill
<1> QED
  BY <1>5, <1>6, <1>7

\* The code of an object calls the receiver, or returns.
LEMMA DataStepStep ==
    ASSUME StackInv, Inherited, DataStep
    PROVE  StackInv'
<1>1. CASE Receive
  <2>1. Top("sync") /\ Head(stack).phase # "choose"
    BY <1>1 DEF Receive, InPhase
  <2>2. EnterPhase("writing") \/ EnterPhase("failed")
    BY <1>1 DEF Receive
  <2> QED
    BY <2>1, <2>2, EnterPhaseStep DEF Phases
<1>2. ASSUME NEW ok \in BOOLEAN, WriteReturn(ok)
      PROVE  StackInv'
  <2>1. Top("sync") /\ Head(stack).phase # "choose"
    BY <1>2 DEF WriteReturn, InPhase
  <2>2. EnterPhase("written") \/ EnterPhase("failed")
    BY <1>2 DEF WriteReturn
  <2> QED
    BY <2>1, <2>2, EnterPhaseStep DEF Phases
<1> QED
  BY <1>1, <1>2, ReadReturnStep DEF DataStep

\* The last subscription of the snapshot has been followed.
LEMMA EndSyncStep ==
    ASSUME StackInv, EndSync
    PROVE  StackInv'
<1>1. /\ stack # <<>> /\ Head(stack).kind = "sync" /\ stack' = Tail(stack)
      /\ UNCHANGED tables /\ published' = published
  BY DEF EndSync, Choosing, Top
<1> QED
  BY <1>1, StackFitsNow, PopFits, StandStill

-----------------------------------------------------------------------------
(* Steps that change the tables. *)

\* A change of the life cycle that neither begins nor ends a release.
LEMMA OtherLifeCycleStep ==
    ASSUME StackInv, UNCHANGED <<nextId, events, channels, stack, published>>,
           \A n \in Nodes : state'[n] = "Releasing" <=> state[n] = "Releasing",
           Topology!TypeOK
    PROVE  StackInv'
<1>1. \A i \in 1 .. Len(stack) : stack[i].kind = "release" => stack[i].node \in Nodes
  <2> TAKE i \in 1 .. Len(stack)
  <2>1. stack[i] \in OwnFrames(events, channels, nextId)
    BY StackFitsNow
  <2> QED
    BY <2>1 DEF OwnFrames, Frames, HandlerFrames, PublishFrames, SyncFrames, ConnectFrames,
     ReleaseFrames
<1>2. ReleasesMatch(stack, state')
  BY <1>1 DEF StackInv, ReleasesMatch
<1>3. ReleasesMatch(stack', state')
  BY <1>2
<1> QED
  BY <1>3 DEF StackInv, NextIsFresh, ReleasedUnderRelease

\* Objects are made and deleted.
LEMMA CreateDestroyStep ==
    ASSUME StackInv, Inherited, NEW n \in Nodes, Create(n) \/ Destroy(n)
    PROVE  StackInv'
<1>1. UNCHANGED <<nextId, events, channels, stack, published>>
  BY DEF Create, Destroy, control, Registry!Create, Registry!Destroy,
     Registry!registry, Registry!eventTables, Registry!channelTables
<1>2. \A m \in Nodes : state'[m] = "Releasing" <=> state[m] = "Releasing"
  BY DEF Create, Destroy, Topology!Create, Topology!Destroy, Inherited, Topology!TypeOK
<1> QED
  BY <1>1, <1>2, OtherLifeCycleStep DEF Inherited

\* Pointers.
LEMMA PointerStep ==
    ASSUME StackInv, Inherited, PointerOperation
    PROVE  StackInv'
<1>1. UNCHANGED <<nextId, events, channels, stack, published>>
  BY DEF PointerOperation, subscriptions, control
<1>2. UNCHANGED state
  BY PointersOutsideRegistry DEF Registry!vars
<1> QED
  BY <1>1, <1>2, OtherLifeCycleStep DEF Inherited

\* Connect and Disconnect, up to the change of the tables.
LEMMA EdgeStep ==
    ASSUME StackInv, EdgeOperation
    PROVE  StackInv'
<1>1. UNCHANGED <<state, nextId, events, channels, published>>
  BY DEF EdgeOperation, Connect, Disconnect, subscriptions, Topology!Connect, Topology!Disconnect
<1>2. PICK n \in Nodes, todo \in {<<"ChildConnected">>, <<"ChildDisconnected">>,
                                  <<"ChildDisconnected", "ChildConnected">>} :
         stack' = <<[kind |-> "connect", node |-> n, todo |-> todo]>> \o stack
  BY DEF EdgeOperation, Connect, Disconnect
<1> DEFINE f == [kind |-> "connect", node |-> n, todo |-> todo]
<1>3. f \in ConnectFrames /\ f.kind = "connect"
  BY DEF ConnectFrames
<1>4. f \in OwnFrames(events, channels, nextId)
  BY <1>3 DEF OwnFrames, Frames
<1> HIDE DEF f
<1>5. StackFits(<<f>> \o stack)
  BY <1>3, <1>4, StackFitsNow, PushFits
<1>6. StackFits(stack')
  BY <1>2, <1>5 DEF f
<1>7. /\ stack' \in Seq(OwnFrames(events', channels', nextId'))
      /\ ReleasesMatch(stack', state')
      /\ ReleasedUnderRelease(stack')
  BY <1>1, <1>6 DEF StackFits
<1> QED
  BY <1>1, <1>7 DEF StackInv, NextIsFresh

\* A user's event.
LEMMA PublishStep ==
    ASSUME StackInv, Inherited, NEW n \in Nodes, NEW type \in UserTypes,
           NEW channel \in Channels \cup {NoChannel}, NEW owned \in BOOLEAN,
           Publish(n, type, channel, owned)
    PROVE  StackInv'
<1>1. type \in EventTypes /\ type # "Released"
  BY UserTypesAssumption DEF EventTypes, RuntimeTypes
<1>2. /\ UNCHANGED tables
      /\ \/ Raise(n, type, channel, owned, stack)
         \/ stack' = stack /\ DataDies(owned)
  BY DEF Publish
<1>3. CASE Raise(n, type, channel, owned, stack)
  BY <1>1, <1>2, <1>3, StackFitsNow, RaiseFits, StandStill
<1>4. CASE stack' = stack /\ DataDies(owned)
  BY <1>2, <1>4, StackFitsNow, DataDiesFits, StandStill
<1> QED
  BY <1>2, <1>3, <1>4

\* A subscription ends: what a snapshot still names is less than before.
LEMMA CancelStep ==
    ASSUME StackInv, Inherited, NEW id \in Registry!Ids, Cancel(id)
    PROVE  StackInv'
<1>1. UNCHANGED <<state, nextId, stack, published>>
  BY DEF Cancel, Registry!Cancel, control
<1>2. /\ \A i \in Registry!Ids : events'[i] # NoSub => events'[i] = events[i]
      /\ events' = [i \in Registry!Ids |-> IF i \in {id} THEN NoSub ELSE events[i]]
      /\ channels' = [i \in Registry!Ids |-> IF i \in {id} THEN NoSub ELSE channels[i]]
  BY DEF Cancel, Registry!Cancel, Registry!RemoveEvents, Registry!RemoveChannels
<1>3. NextIsFresh(events', channels', nextId)
  BY <1>2 DEF StackInv, NextIsFresh
<1>4. OwnFrames(events, channels, nextId) \subseteq OwnFrames(events', channels', nextId)
  BY <1>2 DEF OwnFrames, Frames, HandlerFrames, PublishFrames, SyncFrames, ConnectFrames,
     ReleaseFrames
<1>5. stack \in Seq(OwnFrames(events', channels', nextId))
  BY <1>4 DEF StackInv
<1> QED
  BY <1>1, <1>3, <1>5 DEF StackInv, ReleasesMatch, ReleasedUnderRelease

\* A subscription is made: as long as the counter does not wrap, no snapshot
\* names its identifier.
LEMMA AllocationStep ==
    ASSUME StackInv, Inherited, IdsRemain, UNCHANGED <<state, stack, published>>,
           NEW id \in Registry!Ids, Registry!Allocated(id), nextId' = Registry!Following(id),
           \A i \in Registry!Ids : i # id => events'[i] = events[i] /\ channels'[i] = channels[i]
    PROVE  StackInv'
<1>1. nextId < MaxId /\ nextId \in Registry!Ids
  BY DEF IdsRemain, Inherited, Registry!TypeOK
<1>2. Registry!Free(nextId)
  BY <1>1 DEF StackInv, NextIsFresh, Registry!Ids, Registry!Free
<1>3. id = nextId
  <2>1. Registry!Distance(id) <= Registry!Distance(nextId)
    BY <1>1, <1>2 DEF Registry!Allocated
  <2> QED
    BY <1>1, <2>1, MaxIdAssumption DEF Registry!Distance, Registry!Ids
<1>4. nextId' = nextId + 1
  BY <1>1, <1>3, MaxIdAssumption DEF Registry!Following, Registry!Ids
<1>5. NextIsFresh(events', channels', nextId')
  BY <1>1, <1>3, <1>4 DEF StackInv, NextIsFresh, Registry!Ids
<1>6. ASSUME NEW f \in OwnFrames(events, channels, nextId)
      PROVE  f \in OwnFrames(events', channels', nextId')
  <2>1. ASSUME f.kind \in {"publish", "sync"}, NEW i \in f.ids
        PROVE  i < nextId' /\ events'[i] = events[i] /\ channels'[i] = channels[i]
    <3>1. i \in Registry!Ids /\ i < nextId
      BY <2>1 DEF OwnFrames, Frames, HandlerFrames, PublishFrames, SyncFrames,
         ConnectFrames, ReleaseFrames
    <3>2. i < nextId + 1 /\ i # nextId
      BY <1>1, <3>1, MaxIdAssumption DEF Registry!Ids
    <3> QED
      BY <1>3, <1>4, <3>1, <3>2
  <2> QED
    BY <2>1 DEF OwnFrames
<1>7. stack \in Seq(OwnFrames(events', channels', nextId'))
  BY <1>6 DEF StackInv
<1> QED
  BY <1>5, <1>7 DEF StackInv, ReleasesMatch, ReleasedUnderRelease

\* A subscription to an event.
LEMMA SubscribeStep ==
    ASSUME StackInv, Inherited, NEW n \in Nodes, NEW handle \in Nodes \cup Pointers,
           NEW type \in EventTypes, SubscribeEvent(n, handle, type)
    PROVE  StackInv'
<1>1. UNCHANGED <<state, stack, published, channels>> /\ IdsRemain
  BY DEF SubscribeEvent, Registry!SubscribeEvent, Registry!channelTables, control
<1>2. PICK id \in Registry!Ids :
         /\ Registry!Allocated(id)
         /\ nextId' = Registry!Following(id)
         /\ \E sub : events' = [events EXCEPT ![id] = sub]
  BY DEF SubscribeEvent, Registry!SubscribeEvent
<1>3. \A i \in Registry!Ids : i # id => events'[i] = events[i] /\ channels'[i] = channels[i]
  BY <1>1, <1>2 DEF Inherited, Registry!TypeOK
<1> QED
  BY <1>1, <1>2, <1>3, AllocationStep

\* A subscription to a channel.
LEMMA SubscribeChannelStep ==
    ASSUME StackInv, Inherited, NEW n \in Nodes, NEW handle \in Nodes \cup Pointers,
           NEW c \in Channels, NEW d \in Channels, SubscribeChannel(n, c, handle, d)
    PROVE  StackInv'
<1>1. UNCHANGED <<state, stack, published, events>> /\ IdsRemain
  BY DEF SubscribeChannel, Registry!SubscribeChannel, Registry!eventTables, control
<1>2. PICK id \in Registry!Ids :
         /\ Registry!Allocated(id)
         /\ nextId' = Registry!Following(id)
         /\ \E sub : channels' = [channels EXCEPT ![id] = sub]
  BY DEF SubscribeChannel, Registry!SubscribeChannel
<1>3. \A i \in Registry!Ids : i # id => events'[i] = events[i] /\ channels'[i] = channels[i]
  BY <1>1, <1>2 DEF Inherited, Registry!TypeOK
<1> QED
  BY <1>1, <1>2, <1>3, AllocationStep

\* A release begins: it is the only one of its object, which was Active.
LEMMA ReleaseStep ==
    ASSUME StackInv, Inherited, NEW n \in Nodes, Release(n)
    PROVE  StackInv'
<1> DEFINE f == [kind |-> "release", node |-> n, parents |-> incoming[n],
                 names |-> {name \in Names : children[n][name] # NoNode}, announced |-> FALSE]
<1>1. /\ stack' = <<f>> \o stack /\ UNCHANGED <<nextId, events, channels, published>>
      /\ state[n] = "Active" /\ state' = [state EXCEPT ![n] = "Releasing"]
  BY DEF Release, Topology!BeginRelease, Topology!Active, Registry!BeginRelease,
     Registry!registry, Registry!eventTables, Registry!channelTables
<1>2. f \in ReleaseFrames /\ f.kind = "release" /\ f.node = n
  BY DEF ReleaseFrames, Edges, Inherited, Topology!TypeOK
<1>3. f \in OwnFrames(events, channels, nextId)
  BY <1>2 DEF OwnFrames, Frames
<1> HIDE DEF f
<1> DEFINE G == OwnFrames(events, channels, nextId)
<1>4. stack \in Seq(G) /\ f \in G
  BY <1>3 DEF StackInv
<1>5. /\ stack' \in Seq(G) /\ Len(stack') = Len(stack) + 1 /\ stack'[1] = f
      /\ Len(stack) \in Nat
      /\ \A i \in 1 .. Len(stack) : stack'[i + 1] = stack[i]
      /\ \A i \in 2 .. Len(stack') : stack'[i] = stack[i - 1]
  <2> HIDE DEF G
  <2> QED
    BY <1>1, <1>4, Pushed
<1>6. \A i \in 1 .. Len(stack) : stack[i].kind = "release" =>
         state[stack[i].node] = "Releasing" /\ stack[i].node # n
  BY <1>1 DEF StackInv, ReleasesMatch
<1>7. \A m \in Nodes : m # n => state'[m] = state[m]
  BY <1>1 DEF Inherited, Topology!TypeOK
<1>8. state'[n] = "Releasing"
  BY <1>1 DEF Inherited, Topology!TypeOK
<1>9. \A i \in 2 .. Len(stack') : stack'[i].kind = "release" =>
         /\ i - 1 \in 1 .. Len(stack) /\ stack'[i] = stack[i - 1]
         /\ stack'[i].node # n /\ stack'[i].node \in Nodes
         /\ state[stack'[i].node] = "Releasing"
  <2> TAKE i \in 2 .. Len(stack')
  <2> HAVE stack'[i].kind = "release"
  <2> DEFINE u == i - 1
  <2>1. u \in 1 .. Len(stack) /\ stack'[i] = stack[u]
    BY <1>5
  <2> HIDE DEF u
  <2>2. stack[u] \in OwnFrames(events, channels, nextId)
    BY <2>1, StackFitsNow
  <2>3. stack[u].node \in Nodes
    BY <2>1, <2>2 DEF OwnFrames, Frames, HandlerFrames, PublishFrames, SyncFrames, ConnectFrames,
     ReleaseFrames
  <2> QED
    BY <1>6, <2>1, <2>3 DEF u
<1>10. ReleasesMatch(stack', state')
  <2>1. ASSUME NEW i \in 1 .. Len(stack'), stack'[i].kind = "release"
        PROVE  state'[stack'[i].node] = "Releasing"
    <3>1. CASE i = 1
      BY <3>1, <1>2, <1>5, <1>8
    <3>2. CASE i # 1
      <4>1. i \in 2 .. Len(stack')
        BY <3>2, <1>5
      <4> QED
        BY <2>1, <4>1, <1>7, <1>9
    <3> QED
      BY <3>1, <3>2
  <2>2. ASSUME NEW i \in 1 .. Len(stack'), NEW j \in 1 .. Len(stack'),
               stack'[i].kind = "release", stack'[j].kind = "release",
               stack'[i].node = stack'[j].node
        PROVE  i = j
    <3>1. CASE i = 1 \/ j = 1
      BY <2>2, <3>1, <1>2, <1>5, <1>9
    <3>2. CASE i # 1 /\ j # 1
      <4> DEFINE u == i - 1
      <4> DEFINE v == j - 1
      <4>1. i \in 2 .. Len(stack') /\ j \in 2 .. Len(stack')
        BY <3>2, <1>5
      <4>2. /\ u \in 1 .. Len(stack) /\ stack'[i] = stack[u]
            /\ v \in 1 .. Len(stack) /\ stack'[j] = stack[v]
        BY <4>1, <2>2, <1>9
      <4>3. ASSUME u = v PROVE i = j
        BY <4>3, <4>1
      <4> HIDE DEF u, v
      <4>4. u = v
        BY <2>2, <4>2 DEF StackInv, ReleasesMatch
      <4> QED
        BY <4>3, <4>4
    <3> QED
      BY <3>1, <3>2
  <2>3. ASSUME NEW m \in Nodes, state'[m] = "Releasing"
        PROVE  \E i \in 1 .. Len(stack') : stack'[i].kind = "release" /\ stack'[i].node = m
    <3>1. CASE m = n
      BY <3>1, <1>2, <1>5
    <3>2. CASE m # n
      <4>1. PICK i \in 1 .. Len(stack) : stack[i].kind = "release" /\ stack[i].node = m
        BY <2>3, <3>2, <1>7 DEF StackInv, ReleasesMatch
      <4> QED
        BY <4>1, <1>5
    <3> QED
      BY <3>1, <3>2
  <2> QED
    BY <2>1, <2>2, <2>3 DEF ReleasesMatch
<1>11. ReleasedUnderRelease(stack')
  <2> SUFFICES ASSUME NEW i \in 1 .. Len(stack'), stack'[i].kind = "publish",
                      stack'[i].type = "Released"
               PROVE  i < Len(stack') /\ Announces(stack'[i + 1], stack'[i])
    BY DEF ReleasedUnderRelease
  <2> DEFINE u == i - 1
  <2>1. u \in 1 .. Len(stack) /\ stack'[i] = stack[u] /\ u + 1 = i
    BY <1>2, <1>5
  <2> HIDE DEF u
  <2>2. u < Len(stack) /\ Announces(stack[u + 1], stack[u])
    BY <2>1 DEF StackInv, ReleasedUnderRelease
  <2>3. i \in 1 .. Len(stack) /\ i < Len(stack') /\ stack'[i + 1] = stack[i]
    BY <2>1, <2>2, <1>5
  <2> QED
    BY <2>1, <2>2, <2>3
<1> QED
  BY <1>1, <1>5, <1>10, <1>11 DEF StackInv, NextIsFresh

\* A release ends: its frame goes with the state.
LEMMA EndReleaseStep ==
    ASSUME StackInv, Inherited, NEW n \in Nodes, EndRelease(n)
    PROVE  StackInv'
<1>1. /\ stack # <<>> /\ Head(stack).kind = "release" /\ Head(stack).node = n
      /\ stack' = Tail(stack) /\ UNCHANGED <<nextId, published>>
      /\ state' = [state EXCEPT ![n] = "Released"]
      /\ events' = [i \in Registry!Ids |->
                       IF i \in Registry!EventsOf(n) THEN NoSub ELSE events[i]]
      /\ channels' = [i \in Registry!Ids |->
                       IF i \in Registry!ChannelsOf(n) THEN NoSub ELSE channels[i]]
  BY DEF EndRelease, Top, Topology!EndRelease, Registry!EndRelease, Registry!RemoveEvents,
     Registry!RemoveChannels
<1>2. NextIsFresh(events', channels', nextId)
  BY <1>1 DEF StackInv, NextIsFresh
<1>3. OwnFrames(events, channels, nextId) \subseteq OwnFrames(events', channels', nextId)
  BY <1>1 DEF OwnFrames, Frames, HandlerFrames, PublishFrames, SyncFrames, ConnectFrames,
     ReleaseFrames
<1> DEFINE G == OwnFrames(events, channels, nextId)
<1>4. stack \in Seq(G)
  BY DEF StackInv
<1>5. /\ stack' \in Seq(G) /\ Len(stack) \in Nat \ {0} /\ stack[1] = Head(stack)
      /\ Len(stack') = Len(stack) - 1
      /\ \A i \in 1 .. Len(stack) - 1 : stack'[i] = stack[i + 1]
  <2> HIDE DEF G
  <2> QED
    BY <1>1, <1>4, Popped
<1>6. stack' \in Seq(OwnFrames(events', channels', nextId))
  BY <1>3, <1>5
<1>7. \A m \in Nodes : m # n => state'[m] = state[m]
  BY <1>1 DEF Inherited, Topology!TypeOK
<1>8. state'[n] # "Releasing"
  BY <1>1 DEF Inherited, Topology!TypeOK
<1>9. \A i \in 1 .. Len(stack') : stack'[i].kind = "release" =>
         /\ i + 1 \in 2 .. Len(stack) /\ stack'[i] = stack[i + 1]
         /\ stack'[i].node # n /\ stack'[i].node \in Nodes
         /\ state[stack'[i].node] = "Releasing"
  <2> TAKE i \in 1 .. Len(stack')
  <2> HAVE stack'[i].kind = "release"
  <2> DEFINE u == i + 1
  <2>1. u \in 2 .. Len(stack) /\ u \in 1 .. Len(stack) /\ 1 \in 1 .. Len(stack)
        /\ stack'[i] = stack[u] /\ u # 1
    BY <1>5
  <2> HIDE DEF u
  <2>2. stack[u] \in OwnFrames(events, channels, nextId)
    BY <2>1, StackFitsNow
  <2>3. stack[u].node \in Nodes
    BY <2>1, <2>2 DEF OwnFrames, Frames, HandlerFrames, PublishFrames, SyncFrames, ConnectFrames,
     ReleaseFrames
  <2>4. stack[u].node # n
    BY <1>1, <1>5, <2>1 DEF StackInv, ReleasesMatch
  <2>5. state[stack[u].node] = "Releasing"
    BY <2>1 DEF StackInv, ReleasesMatch
  <2> QED
    BY <2>1, <2>3, <2>4, <2>5 DEF u
<1>10. ReleasesMatch(stack', state')
  <2>1. \A i \in 1 .. Len(stack') : stack'[i].kind = "release" =>
           state'[stack'[i].node] = "Releasing"
    BY <1>7, <1>9
  <2>2. ASSUME NEW i \in 1 .. Len(stack'), NEW j \in 1 .. Len(stack'),
               stack'[i].kind = "release", stack'[j].kind = "release",
               stack'[i].node = stack'[j].node
        PROVE  i = j
    <3> DEFINE u == i + 1
    <3> DEFINE v == j + 1
    <3>1. /\ u \in 1 .. Len(stack) /\ stack'[i] = stack[u]
          /\ v \in 1 .. Len(stack) /\ stack'[j] = stack[v]
      BY <2>2, <1>9
    <3>2. ASSUME u = v PROVE i = j
      BY <3>2
    <3> HIDE DEF u, v
    <3>3. u = v
      BY <2>2, <3>1 DEF StackInv, ReleasesMatch
    <3> QED
      BY <3>2, <3>3
  <2>3. ASSUME NEW m \in Nodes, state'[m] = "Releasing"
        PROVE  \E i \in 1 .. Len(stack') : stack'[i].kind = "release" /\ stack'[i].node = m
    <3>1. m # n /\ state[m] = "Releasing"
      BY <2>3, <1>7, <1>8
    <3>2. PICK i \in 1 .. Len(stack) : stack[i].kind = "release" /\ stack[i].node = m
      BY <3>1 DEF StackInv, ReleasesMatch
    <3>3. i # 1
      BY <3>1, <3>2, <1>1, <1>5
    <3>4. i - 1 \in 1 .. Len(stack') /\ stack'[i - 1] = stack[i]
      BY <3>3, <1>5
    <3> QED
      BY <3>2, <3>4
  <2> QED
    BY <2>1, <2>2, <2>3 DEF ReleasesMatch
<1>11. ReleasedUnderRelease(stack')
  <2> SUFFICES ASSUME NEW i \in 1 .. Len(stack'), stack'[i].kind = "publish",
                      stack'[i].type = "Released"
               PROVE  i < Len(stack') /\ Announces(stack'[i + 1], stack'[i])
    BY DEF ReleasedUnderRelease
  <2>1. i + 1 \in 1 .. Len(stack) /\ stack'[i] = stack[i + 1]
    BY <1>5
  <2>2. i + 1 < Len(stack) /\ Announces(stack[(i + 1) + 1], stack[i + 1])
    BY <2>1 DEF StackInv, ReleasedUnderRelease
  <2>3. i < Len(stack') /\ stack'[i + 1] = stack[(i + 1) + 1]
    BY <2>2, <1>5
  <2> QED
    BY <2>1, <2>2, <2>3
<1> QED
  BY <1>1, <1>2, <1>6, <1>10, <1>11 DEF StackInv

-----------------------------------------------------------------------------
(* Invariance. *)

\* Nothing is on the stack before the first call.
LEMMA InitStackInv == Init => StackInv
<1> SUFFICES ASSUME Init PROVE StackInv
  OBVIOUS
<1>1. stack = <<>> /\ published = 0 /\ events = [id \in Registry!Ids |-> NoSub]
      /\ channels = [id \in Registry!Ids |-> NoSub]
      /\ state = [n \in Nodes |-> "Absent"]
  BY DEF Init, Registry!Init
<1> QED
  BY <1>1, LimitsAssumption DEF StackInv, NextIsFresh, ReleasesMatch, ReleasedUnderRelease

\* Every step of the kernel keeps the invariant of the call stack.
LEMMA NextStackInv == StackInv /\ Inherited /\ [Next]_vars => StackInv'
<1> SUFFICES ASSUME StackInv, Inherited, [Next]_vars PROVE StackInv'
  OBVIOUS
<1>1. CASE NodeOperation
  BY <1>1, CreateDestroyStep, ReleaseStep, PublishStep DEF NodeOperation
<1>2. CASE EdgeOperation
  BY <1>2, EdgeStep
<1>3. CASE PointerOperation
  BY <1>3, PointerStep
<1>4. CASE SubscriptionOperation
  BY <1>4, SubscribeStep, SubscribeChannelStep, CancelStep DEF SubscriptionOperation
<1>5. CASE HandlerReturn \/ HandlerThrow
  BY <1>5, HandlerStep
<1>6. CASE RuntimeStep
  BY <1>6, DeliverStep, StartSyncStep, NextBranchStep, EndSyncStep, EndPublishStep,
     ChildEventStep, ReleaseEventStep, EndReleaseStep DEF RuntimeStep
<1>7. CASE UNCHANGED vars
  <2>1. UNCHANGED tables /\ stack' = stack /\ published' = published
    BY <1>7 DEF vars, control
  <2> QED
    BY <2>1, StackFitsNow, StandStill
<1>8. CASE DataStep
  BY <1>8, DataStepStep
<1> QED
  BY <1>1, <1>2, <1>3, <1>4, <1>5, <1>6, <1>7, <1>8 DEF Next, UserStep

\* The invariant of the call stack and that of the tables hold in every reachable
\* state.
THEOREM StackInvariance == Spec => [](StackInv /\ Inherited)
<1> QED
  BY InitStackInv, NextStackInv, InheritedAlways, PTL DEF Spec

\* The kernel is well typed: the stack holds frames of the five kinds, and the
\* chain counter stays within its limit.
THEOREM KernelTypeCorrect == Spec => []TypeOK
<1>1. StackInv /\ Inherited => TypeOK
  BY StackFitsNow DEF StackInv, Inherited, TypeOK
<1> QED
  BY <1>1, StackInvariance, PTL

\* Exactly the objects being released have one release on the call stack, also
\* after exceptions and releases called by release handlers (releaseInternal).
THEOREM OneReleaseEach == Spec => []ReleaseInProgress
<1>1. StackInv => ReleaseInProgress
  BY DEF StackInv, ReleasesMatch, ReleaseInProgress, FramesOf
<1> QED
  BY <1>1, StackInvariance, PTL

\* No handler gets an event, and no object data, it did not ask for, whatever is
\* cancelled and subscribed while a snapshot is worked through
\* (RuntimeTopology::publish, synchronizeChannels).
THEOREM SnapshotsSound == Spec => []SnapshotsNameOwn
<1>1. StackInv => SnapshotsNameOwn
  <2>1. ASSUME StackInv, NEW i \in FramesOf(stack, "publish"), NEW id \in stack[i].ids,
               events[id] # NoSub
        PROVE  events[id].source = stack[i].source /\ events[id].type = stack[i].type
    <3>1. stack[i] \in OwnFrames(events, channels, nextId) /\ stack[i].kind = "publish"
      BY <2>1, StackFitsNow DEF FramesOf
    <3> QED
      BY <2>1, <3>1 DEF OwnFrames
  <2>2. ASSUME StackInv, NEW i \in FramesOf(stack, "sync"), NEW id \in stack[i].ids,
               channels[id] # NoSub
        PROVE  /\ channels[id].source = stack[i].source
               /\ channels[id].sourceChannel = stack[i].from
    <3>1. stack[i] \in OwnFrames(events, channels, nextId) /\ stack[i].kind = "sync"
      BY <2>2, StackFitsNow DEF FramesOf
    <3> QED
      BY <2>2, <3>1 DEF OwnFrames
  <2> QED
    BY <2>1, <2>2 DEF SnapshotsNameOwn
<1> QED
  BY <1>1, StackInvariance, PTL

\* A Released event is published by the release of its object alone, once, and is
\* not lost to the cycle rule (releaseInternal, EventDispatchScope).
THEOREM ReleasedOnce == Spec => []ReleasedBelongsToRelease
<1>1. StackInv => ReleasedBelongsToRelease
  <2> SUFFICES ASSUME StackInv, NEW i \in FramesOf(stack, "publish"), stack[i].type = "Released"
               PROVE  /\ i < Len(stack)
                      /\ stack[i + 1].kind = "release"
                      /\ stack[i + 1].node = stack[i].source
                      /\ stack[i + 1].announced
    BY DEF ReleasedBelongsToRelease
  <2>1. i \in 1 .. Len(stack) /\ stack[i].kind = "publish"
    BY DEF FramesOf
  <2> QED
    BY <2>1 DEF StackInv, ReleasedUnderRelease, Announces
<1> QED
  BY <1>1, StackInvariance, PTL

-----------------------------------------------------------------------------
(* No handler hears of the dead. *)

\* What an object may still announce while it is Releasing.
LastEvents == {"ChildDisconnected", "Released"}

\* A call that would make handlers hear more than that of an object that is
\* Releasing, if it were on top of the stack.
Exposed(f, st) ==
    \/ f.kind = "publish" /\ f.type \notin LastEvents /\ st[f.source] = "Releasing"
    \/ /\ f.kind = "connect" /\ f.todo \notin {<<>>, <<"ChildDisconnected">>}
       /\ st[f.node] = "Releasing"

Subject(f) == IF f.kind = "publish" THEN f.source ELSE f.node

\* It never is: the release of the object lies above, and will have ended before
\* the call goes on.
Shielded(s, st) ==
    \A i \in 1 .. Len(s) :
        Exposed(s[i], st) =>
            \E j \in 1 .. i - 1 : s[j].kind = "release" /\ s[j].node = Subject(s[i])

IsStack(s) == \E S : s \in Seq(S)

\* The positions of a stack on which another frame is pushed.
LEMMA PushedAny ==
    ASSUME NEW s, IsStack(s), NEW f, NEW t, t = <<f>> \o s
    PROVE  /\ IsStack(t) /\ Len(s) \in Nat
           /\ Len(t) = Len(s) + 1
           /\ t[1] = f
           /\ \A i \in 1 .. Len(s) : t[i + 1] = s[i]
           /\ \A i \in 2 .. Len(t) : t[i] = s[i - 1]
<1>1. PICK S : s \in Seq(S)
  BY DEF IsStack
<1> DEFINE T == S \cup {f}
<1>2. s \in Seq(T) /\ f \in T
  BY <1>1
<1> HIDE DEF T
<1>3. /\ t \in Seq(T) /\ Len(s) \in Nat /\ Len(t) = Len(s) + 1 /\ t[1] = f
      /\ \A i \in 1 .. Len(s) : t[i + 1] = s[i]
      /\ \A i \in 2 .. Len(t) : t[i] = s[i - 1]
  BY <1>2, Pushed
<1> QED
  BY <1>3 DEF IsStack

\* A frame is pushed that is not exposed.
LEMMA PushShields ==
    ASSUME NEW st, NEW s, IsStack(s), Shielded(s, st), NEW f, ~Exposed(f, st)
    PROVE  IsStack(<<f>> \o s) /\ Shielded(<<f>> \o s, st)
<1> DEFINE t == <<f>> \o s
<1>0. t = <<f>> \o s
  OBVIOUS
<1> HIDE DEF t
<1>1. /\ IsStack(t) /\ Len(s) \in Nat /\ Len(t) = Len(s) + 1 /\ t[1] = f
      /\ \A i \in 1 .. Len(s) : t[i + 1] = s[i]
      /\ \A i \in 2 .. Len(t) : t[i] = s[i - 1]
  <2>1. IsStack(t)
    BY <1>0, PushedAny
  <2>2. Len(s) \in Nat
    BY <1>0, PushedAny
  <2>3. Len(t) = Len(s) + 1
    BY <1>0, PushedAny
  <2>4. t[1] = f
    BY <1>0, PushedAny
  <2>5. \A i \in 1 .. Len(s) : t[i + 1] = s[i]
    BY <1>0, PushedAny
  <2>6. \A i \in 2 .. Len(t) : t[i] = s[i - 1]
    BY <1>0, PushedAny
  <2> QED
    BY <2>1, <2>2, <2>3, <2>4, <2>5, <2>6
<1>2. ASSUME NEW i \in 1 .. Len(t), Exposed(t[i], st)
      PROVE  \E j \in 1 .. i - 1 : t[j].kind = "release" /\ t[j].node = Subject(t[i])
  <2>1. i # 1 /\ i \in 2 .. Len(t)
    BY <1>1, <1>2
  <2> DEFINE u == i - 1
  <2>2. u \in 1 .. Len(s) /\ t[i] = s[u]
    BY <1>1, <2>1
  <2> HIDE DEF u
  <2>3. PICK j \in 1 .. u - 1 : s[j].kind = "release" /\ s[j].node = Subject(s[u])
    BY <1>2, <2>2 DEF Shielded
  <2>4. j \in 1 .. Len(s) /\ j + 1 \in 1 .. i - 1
    BY <1>1, <2>2, <2>3 DEF u
  <2>5. t[j + 1] = s[j]
    BY <1>1, <2>4
  <2> QED
    BY <2>2, <2>3, <2>4, <2>5
<1> QED
  BY <1>1, <1>2 DEF Shielded, t

\* Frames that hold no release are dropped.
LEMMA DropShields ==
    ASSUME NEW st, NEW s, IsStack(s), Shielded(s, st), NEW k \in 2 .. Len(s) + 1,
           \A i \in 1 .. k - 1 : s[i].kind # "release"
    PROVE  IsStack(SubSeq(s, k, Len(s))) /\ Shielded(SubSeq(s, k, Len(s)), st)
<1> DEFINE t == SubSeq(s, k, Len(s))
<1>1. PICK S : s \in Seq(S)
  BY DEF IsStack
<1>2. /\ t \in Seq(S) /\ Len(s) \in Nat /\ Len(t) = Len(s) - k + 1
      /\ \A i \in 1 .. Len(t) : t[i] = s[i + k - 1]
  BY <1>1, Dropped
<1> HIDE DEF t
<1>3. ASSUME NEW i \in 1 .. Len(t), Exposed(t[i], st)
      PROVE  \E j \in 1 .. i - 1 : t[j].kind = "release" /\ t[j].node = Subject(t[i])
  <2> DEFINE u == i + k - 1
  <2>1. u \in 1 .. Len(s) /\ t[i] = s[u]
    BY <1>2
  <2> HIDE DEF u
  <2>2. PICK j \in 1 .. u - 1 : s[j].kind = "release" /\ s[j].node = Subject(s[u])
    BY <1>3, <2>1 DEF Shielded
  <2>3. j >= k
    BY <2>1, <2>2
  <2> DEFINE v == j - k + 1
  <2>4. v \in 1 .. i - 1 /\ v \in 1 .. Len(t) /\ v + k - 1 = j
    BY <1>2, <2>1, <2>2, <2>3 DEF u
  <2> HIDE DEF v
  <2>5. t[v] = s[j]
    BY <1>2, <2>4
  <2> QED
    BY <2>1, <2>2, <2>4, <2>5
<1> QED
  BY <1>2, <1>3 DEF Shielded, IsStack, t

\* The frame on top returns.
LEMMA PopShields ==
    ASSUME NEW st, NEW s, IsStack(s), Shielded(s, st), s # <<>>, Head(s).kind # "release"
    PROVE  IsStack(Tail(s)) /\ Shielded(Tail(s), st)
<1>1. PICK S : s \in Seq(S)
  BY DEF IsStack
<1>2. Len(s) \in Nat /\ 2 \in 2 .. Len(s) + 1 /\ s[1].kind # "release"
      /\ Tail(s) = SubSeq(s, 2, Len(s))
  BY <1>1
<1>3. \A i \in 1 .. 2 - 1 : s[i].kind # "release"
  BY <1>2
<1> QED
  BY <1>2, <1>3, DropShields

\* The release on top goes on.
LEMMA ReleaseShields ==
    ASSUME NEW st, NEW s, IsStack(s), Shielded(s, st), s # <<>>, Head(s).kind = "release",
           NEW g, g.kind = "release", g.node = Head(s).node
    PROVE  IsStack(<<g>> \o Tail(s)) /\ Shielded(<<g>> \o Tail(s), st)
<1> DEFINE t == <<g>> \o Tail(s)
<1>1. PICK S : s \in Seq(S)
  BY DEF IsStack
<1>2. /\ Tail(s) \in Seq(S) /\ Len(s) \in Nat \ {0} /\ Head(s) = s[1]
      /\ Len(Tail(s)) = Len(s) - 1
      /\ \A i \in 1 .. Len(s) - 1 : Tail(s)[i] = s[i + 1]
  BY <1>1, Popped
<1>3. IsStack(Tail(s))
  BY <1>2 DEF IsStack
<1>0. t = <<g>> \o Tail(s)
  OBVIOUS
<1> HIDE DEF t
<1>4. /\ IsStack(t) /\ Len(t) = Len(Tail(s)) + 1 /\ t[1] = g
      /\ \A i \in 2 .. Len(t) : t[i] = Tail(s)[i - 1]
  <2>1. IsStack(t)
    BY <1>0, <1>3, PushedAny
  <2>2. Len(t) = Len(Tail(s)) + 1
    BY <1>0, <1>3, PushedAny
  <2>3. t[1] = g
    BY <1>0, <1>3, PushedAny
  <2>4. \A i \in 2 .. Len(t) : t[i] = Tail(s)[i - 1]
    BY <1>0, <1>3, PushedAny
  <2> QED
    BY <2>1, <2>2, <2>3, <2>4
<1>5. Len(t) = Len(s)
  BY <1>2, <1>4
<1>6. ASSUME NEW i \in 2 .. Len(s) PROVE t[i] = s[i]
  <2>1. i - 1 \in 1 .. Len(s) - 1 /\ i - 1 + 1 = i
    BY <1>2
  <2> QED
    BY <1>2, <1>4, <1>5, <2>1
<1>7. ~Exposed(g, st)
  BY DEF Exposed
<1>8. ASSUME NEW i \in 1 .. Len(t), Exposed(t[i], st)
      PROVE  \E j \in 1 .. i - 1 : t[j].kind = "release" /\ t[j].node = Subject(t[i])
  <2>1. i # 1 /\ t[i] = s[i]
    BY <1>4, <1>5, <1>6, <1>7, <1>8
  <2>2. PICK j \in 1 .. i - 1 : s[j].kind = "release" /\ s[j].node = Subject(s[i])
    BY <1>5, <1>8, <2>1 DEF Shielded
  <2>3. t[j].kind = "release" /\ t[j].node = s[j].node
    <3>1. CASE j = 1
      BY <3>1, <1>2, <1>4
    <3>2. CASE j # 1
      <4>1. j \in 2 .. Len(s)
        BY <3>2, <1>2, <1>5
      <4> QED
        BY <4>1, <1>6, <2>2
    <3> QED
      BY <3>1, <3>2
  <2> QED
    BY <2>1, <2>2, <2>3
<1> QED
  BY <1>4, <1>8 DEF Shielded, t

\* An event is raised that its source may still announce.
LEMMA RaiseShields ==
    ASSUME NEW source, NEW type, NEW channel, NEW owned, NEW below,
           IsStack(below), Shielded(below, state), Raise(source, type, channel, owned, below),
           state[source] = "Releasing" => type \in LastEvents
    PROVE  Shielded(stack', state)
<1> DEFINE f == PublishFrame(source, type, channel, owned)
<1>1. stack' = below \/ stack' = <<f>> \o below
  BY DEF Raise
<1>2. ~Exposed(f, state)
  BY DEF PublishFrame, Exposed
<1> HIDE DEF f
<1> QED
  BY <1>1, <1>2, PushShields

\* Nothing lies above the frame on top, so it is not exposed.
LEMMA TopUnexposed ==
    ASSUME NEW st, NEW s, IsStack(s), Shielded(s, st), s # <<>>
    PROVE  ~Exposed(Head(s), st)
<1>1. Len(s) \in Nat \ {0} /\ Head(s) = s[1]
  BY Popped DEF IsStack
<1> QED
  BY <1>1 DEF Shielded

\* A frame on top that is not a release is exchanged for another one.
LEMMA ReplaceShields ==
    ASSUME NEW st, NEW s, IsStack(s), Shielded(s, st), s # <<>>, Head(s).kind # "release",
           NEW f, ~Exposed(f, st)
    PROVE  IsStack(<<f>> \o Tail(s)) /\ Shielded(<<f>> \o Tail(s), st)
BY PopShields, PushShields

\* What the steps below start from.
LEMMA StackIsStack == StackInv => IsStack(stack)
BY DEF StackInv, IsStack

\* A handler, or the code of an object, returns or throws.
LEMMA ReturnsShield ==
    ASSUME StackInv, Shielded(stack, state), HandlerReturn \/ HandlerThrow
    PROVE  Shielded(stack', state)
<1>1. CASE HandlerReturn
  BY <1>1, PopShields, StackIsStack DEF HandlerReturn, Top
<1>2. CASE HandlerThrow
  <2>1. PICK k \in 2 .. Len(stack) + 1 :
           /\ \A i \in 2 .. k - 1 : stack[i].kind # "release"
           /\ stack' = SubSeq(stack, k, Len(stack))
    BY <1>2 DEF HandlerThrow
  <2>2. stack[1].kind # "release"
    <3>1. stack # <<>> /\ Head(stack).kind \in {"handler", "sync"}
      BY <1>2 DEF HandlerThrow, InUserCode, IsUserCode
    <3>2. Head(stack) = stack[1]
      BY <3>1, StackFitsNow
    <3> QED
      BY <3>1, <3>2
  <2>3. \A i \in 1 .. k - 1 : stack[i].kind # "release"
    <3> TAKE i \in 1 .. k - 1
    <3>1. i = 1 \/ i \in 2 .. k - 1
      OBVIOUS
    <3> QED
      BY <2>1, <2>2, <3>1
  <2> QED
    BY <2>1, <2>3, StackIsStack, DropShields
<1> QED
  BY <1>1, <1>2

\* The next handler is called, or the next subscription skipped.
LEMMA DeliverShields ==
    ASSUME StackInv, Shielded(stack, state), Deliver
    PROVE  Shielded(stack', state)
<1>1. PICK id \in Head(stack).ids :
         \/ stack' = <<[kind |-> "handler", id |-> id]>>
                         \o (<<[Head(stack) EXCEPT !.ids = @ \ {id}]>> \o Tail(stack))
         \/ stack' = <<[Head(stack) EXCEPT !.ids = @ \ {id}]>> \o Tail(stack)
  BY DEF Deliver
<1> DEFINE f == [Head(stack) EXCEPT !.ids = @ \ {id}]
<1>2. stack # <<>> /\ Head(stack).kind = "publish"
  BY DEF Deliver, Top
<1>3. Head(stack) \in Frames
  BY <1>2, StackFitsNow DEF OwnFrames
<1>4. /\ f.kind = "publish" /\ f.type = Head(stack).type
      /\ f.source = Head(stack).source
  BY <1>2, <1>3 DEF Frames, HandlerFrames, PublishFrames, SyncFrames, ConnectFrames, ReleaseFrames
<1>5. ~Exposed(f, state)
  BY <1>2, <1>4, StackIsStack, TopUnexposed DEF Exposed
<1>6. ~Exposed([kind |-> "handler", id |-> id], state)
  BY DEF Exposed
<1> HIDE DEF f
<1>7. IsStack(<<f>> \o Tail(stack)) /\ Shielded(<<f>> \o Tail(stack), state)
  BY <1>2, <1>5, StackIsStack, ReplaceShields
<1>8. Shielded(<<[kind |-> "handler", id |-> id]>> \o (<<f>> \o Tail(stack)), state)
  BY <1>6, <1>7, PushShields
<1> QED
  BY <1>1, <1>7, <1>8 DEF f

\* An event has been published, and its copies made.
LEMMA EndsShield ==
    ASSUME StackInv, Shielded(stack, state), EndPublish \/ EndSync
    PROVE  Shielded(stack', state)
<1>1. stack # <<>> /\ Head(stack).kind # "release" /\ stack' = Tail(stack)
  BY DEF EndPublish, EndSync, Choosing, Top
<1> QED
  BY <1>1, StackIsStack, PopShields

\* A frame that copies channels goes on.
LEMMA SyncShields ==
    ASSUME StackInv, Shielded(stack, state), Top("sync"), NEW g, g.kind = "sync"
    PROVE  IsStack(<<g>> \o Tail(stack)) /\ Shielded(<<g>> \o Tail(stack), state)
<1>1. ~Exposed(g, state)
  BY DEF Exposed
<1> QED
  BY <1>1, SyncOnTop, StackIsStack, ReplaceShields

\* The next subscription is followed or skipped.
LEMMA NextBranchShields ==
    ASSUME StackInv, Shielded(stack, state), NextBranch
    PROVE  Shielded(stack', state)
<1>1. Top("sync")
  BY DEF NextBranch, Choosing
<1>2. PICK id \in Head(stack).ids :
         LET frame == [Head(stack) EXCEPT !.ids = @ \ {id}]
         IN  stack' = <<IF Follows(frame, id)
                        THEN [frame EXCEPT !.target = channels[id].target,
                                           !.channel = channels[id].targetChannel,
                                           !.phase = "reading"]
                        ELSE [frame EXCEPT !.target = NoNode]>> \o Tail(stack)
  BY DEF NextBranch
<1> DEFINE frame == [Head(stack) EXCEPT !.ids = @ \ {id}]
           copy == [frame EXCEPT !.target = channels[id].target,
                                 !.channel = channels[id].targetChannel,
                                 !.phase = "reading"]
           none == [frame EXCEPT !.target = NoNode]
<1>3. copy.kind = "sync" /\ none.kind = "sync"
  BY <1>1, SyncOnTop DEF SyncFrames
<1>4. stack' = <<copy>> \o Tail(stack) \/ stack' = <<none>> \o Tail(stack)
  BY <1>2
<1> HIDE DEF copy, none
<1> QED
  BY <1>1, <1>3, <1>4, SyncShields

\* Copying raises no event.
LEMMA CopyShields ==
    ASSUME StackInv, Shielded(stack, state),
           StartSync \/ NextBranch \/ Receive \/ \E ok \in BOOLEAN : WriteReturn(ok)
    PROVE  Shielded(stack', state)
<1>1. CASE StartSync
  <2> DEFINE change == [Head(stack) EXCEPT !.synced = TRUE]
  <2>1. PICK sync : sync.kind = "sync" /\ stack' = <<sync>> \o (<<change>> \o Tail(stack))
    BY <1>1 DEF StartSync
  <2>2. stack # <<>> /\ Head(stack).kind = "publish"
    BY <1>1 DEF StartSync, Top
  <2>3. Head(stack) \in Frames
    BY <2>2, StackFitsNow DEF OwnFrames
  <2>4. /\ change.kind = "publish" /\ change.type = Head(stack).type
        /\ change.source = Head(stack).source
    BY <2>2, <2>3 DEF Frames, HandlerFrames, PublishFrames, SyncFrames, ConnectFrames,
       ReleaseFrames
  <2>5. ~Exposed(change, state)
    BY <2>2, <2>4, StackIsStack, TopUnexposed DEF Exposed
  <2> HIDE DEF change
  <2>6. IsStack(<<change>> \o Tail(stack)) /\ Shielded(<<change>> \o Tail(stack), state)
    BY <2>2, <2>5, StackIsStack, ReplaceShields
  <2>7. ~Exposed(sync, state)
    BY <2>1 DEF Exposed
  <2> QED
    BY <2>1, <2>6, <2>7, PushShields
<1>2. CASE NextBranch
  BY <1>2, NextBranchShields
<1>3. ASSUME Receive \/ \E ok \in BOOLEAN : WriteReturn(ok)
      PROVE  Shielded(stack', state)
  <2>1. Top("sync")
    BY <1>3 DEF Receive, WriteReturn, InPhase
  <2>2. PICK phase : stack' = <<[Head(stack) EXCEPT !.phase = phase]>> \o Tail(stack)
    BY <1>3 DEF Receive, WriteReturn, EnterPhase
  <2> DEFINE g == [Head(stack) EXCEPT !.phase = phase]
  <2>3. g.kind = "sync"
    BY <2>1, SyncOnTop DEF SyncFrames
  <2> HIDE DEF g
  <2> QED
    BY <2>1, <2>2, <2>3, SyncShields DEF g
<1> QED
  BY <1>1, <1>2, <1>3

\* A copy is published from its target, if that is still Active.
LEMMA ReadReturnShields ==
    ASSUME StackInv, Shielded(stack, state), NEW ok \in BOOLEAN, ReadReturn(ok)
    PROVE  Shielded(stack', state)
<1> DEFINE frame == Head(stack)
           next == [frame EXCEPT !.phase = "choose", !.channel = NoChannel]
           none == [next EXCEPT !.target = NoNode]
<1>1. Top("sync")
  BY DEF ReadReturn, InPhase
<1>2. next.kind = "sync" /\ none.kind = "sync"
  BY <1>1, SyncOnTop DEF SyncFrames
<1>3. \/ /\ state[frame.target] = "Active"
         /\ Raise(frame.target, Changed, frame.channel, TRUE, <<next>> \o Tail(stack))
      \/ stack' = <<none>> \o Tail(stack)
  BY DEF ReadReturn
<1> HIDE DEF next, none
<1>4. IsStack(<<next>> \o Tail(stack)) /\ Shielded(<<next>> \o Tail(stack), state)
  BY <1>1, <1>2, SyncShields
<1>5. CASE /\ state[frame.target] = "Active"
           /\ Raise(frame.target, Changed, frame.channel, TRUE, <<next>> \o Tail(stack))
  BY <1>4, <1>5, RaiseShields
<1>6. CASE stack' = <<none>> \o Tail(stack)
  BY <1>1, <1>2, <1>6, SyncShields
<1> QED
  BY <1>3, <1>5, <1>6

\* Connect and Disconnect publish from the parent, which is not being released
\* unless the event announces a child that it has lost.
LEMMA ChildEventShields ==
    ASSUME StackInv, Shielded(stack, state), ChildEvent
    PROVE  Shielded(stack', state)
<1>1. stack # <<>> /\ Head(stack).kind = "connect"
  BY DEF ChildEvent, Top
<1>2. Head(stack) \in Frames
  BY <1>1, StackFitsNow DEF OwnFrames
<1>3. Head(stack) \in ConnectFrames
  BY <1>1, <1>2 DEF Frames, HandlerFrames, PublishFrames, SyncFrames, ConnectFrames, ReleaseFrames
<1>4. CASE Head(stack).todo = <<>>
  <2>1. stack' = Tail(stack)
    BY <1>4 DEF ChildEvent
  <2> QED
    BY <1>1, <2>1, StackIsStack, PopShields
<1>5. CASE Head(stack).todo # <<>>
  <2> DEFINE todo == Head(stack).todo
             n == Head(stack).node
             f == [Head(stack) EXCEPT !.todo = Tail(@)]
  <2>1. Raise(n, Head(todo), NoChannel, TRUE, <<f>> \o Tail(stack))
    BY <1>5 DEF ChildEvent
  <2>2. f.kind = "connect" /\ f.node = n /\ f.todo = Tail(todo)
    BY <1>3 DEF ConnectFrames
  <2>3. state[n] = "Releasing" => todo = <<"ChildDisconnected">>
    BY <1>1, <1>5, StackIsStack, TopUnexposed DEF Exposed
  <2>4. Head(<<"ChildDisconnected">>) = "ChildDisconnected" /\ Tail(<<"ChildDisconnected">>) = <<>>
    OBVIOUS
  <2>5. ~Exposed(f, state)
    BY <2>2, <2>3, <2>4 DEF Exposed
  <2>6. state[n] = "Releasing" => Head(todo) \in LastEvents
    BY <2>3, <2>4 DEF LastEvents
  <2> HIDE DEF f, todo, n
  <2>7. IsStack(<<f>> \o Tail(stack)) /\ Shielded(<<f>> \o Tail(stack), state)
    BY <1>1, <2>5, StackIsStack, ReplaceShields
  <2> QED
    BY <2>1, <2>6, <2>7, RaiseShields
<1> QED
  BY <1>4, <1>5

\* A release announces lost children and its own end, and nothing else.
LEMMA ReleaseEventShields ==
    ASSUME StackInv, Shielded(stack, state), ReleaseEvent
    PROVE  Shielded(stack', state)
<1>1. stack # <<>> /\ Head(stack).kind = "release"
  BY DEF ReleaseEvent, Top
<1>2. Head(stack) \in Frames
  BY <1>1, StackFitsNow DEF OwnFrames
<1>3. Head(stack) \in ReleaseFrames
  BY <1>1, <1>2 DEF Frames, HandlerFrames, PublishFrames, SyncFrames, ConnectFrames, ReleaseFrames
<1>4. ASSUME NEW g, g.kind = "release", g.node = Head(stack).node,
             NEW n, NEW type \in LastEvents, NEW owned,
             Raise(n, type, NoChannel, owned, <<g>> \o Tail(stack))
      PROVE  Shielded(stack', state)
  <2>1. IsStack(<<g>> \o Tail(stack)) /\ Shielded(<<g>> \o Tail(stack), state)
    BY <1>1, <1>4, StackIsStack, ReleaseShields
  <2> QED
    BY <1>4, <2>1, RaiseShields
<1>5. ASSUME NEW e \in Head(stack).parents,
             Raise(e[1], "ChildDisconnected", NoChannel, TRUE,
                   <<[Head(stack) EXCEPT !.parents = @ \ {e}]>> \o Tail(stack))
      PROVE  Shielded(stack', state)
  <2> DEFINE g == [Head(stack) EXCEPT !.parents = @ \ {e}]
  <2>1. g.kind = "release" /\ g.node = Head(stack).node
    BY <1>3 DEF ReleaseFrames
  <2> QED
    BY <1>4, <1>5, <2>1 DEF LastEvents
<1>6. ASSUME NEW name \in Head(stack).names,
             Raise(Head(stack).node, "ChildDisconnected", NoChannel, TRUE,
                   <<[Head(stack) EXCEPT !.names = @ \ {name}]>> \o Tail(stack))
      PROVE  Shielded(stack', state)
  <2> DEFINE g == [Head(stack) EXCEPT !.names = @ \ {name}]
  <2>1. g.kind = "release" /\ g.node = Head(stack).node
    BY <1>3 DEF ReleaseFrames
  <2> QED
    BY <1>4, <1>6, <2>1 DEF LastEvents
<1>7. ASSUME Raise(Head(stack).node, "Released", NoChannel, FALSE,
                   <<[Head(stack) EXCEPT !.announced = TRUE]>> \o Tail(stack))
      PROVE  Shielded(stack', state)
  <2> DEFINE g == [Head(stack) EXCEPT !.announced = TRUE]
  <2>1. g.kind = "release" /\ g.node = Head(stack).node
    BY <1>3 DEF ReleaseFrames
  <2> QED
    BY <1>4, <1>7, <2>1 DEF LastEvents
<1> QED
  BY <1>5, <1>6, <1>7 DEF ReleaseEvent

\* The events of a publish and of a call of Connect have a source that exists.
LEMMA SubjectIsNode ==
    ASSUME StackInv, NEW i \in 1 .. Len(stack), stack[i].kind \in {"publish", "connect"}
    PROVE  /\ stack[i].kind = "publish" => stack[i].source \in Nodes
           /\ stack[i].kind = "connect" => stack[i].node \in Nodes
<1>1. stack[i] \in Frames
  BY StackFitsNow DEF OwnFrames
<1> QED
  BY <1>1 DEF Frames, HandlerFrames, PublishFrames, SyncFrames, ConnectFrames, ReleaseFrames

\* A change of the life cycle that begins no release exposes nothing.
LEMMA LifeCycleShields ==
    ASSUME StackInv, Shielded(stack, state), stack' = stack,
           \A n \in Nodes : state'[n] = "Releasing" => state[n] = "Releasing"
    PROVE  Shielded(stack', state')
<1>1. ASSUME NEW i \in 1 .. Len(stack), Exposed(stack[i], state')
      PROVE  Exposed(stack[i], state)
  BY <1>1, SubjectIsNode DEF Exposed
<1> QED
  BY <1>1 DEF Shielded

\* User code publishes from Active objects, and changes children of Active objects.
LEMMA UserShields ==
    ASSUME StackInv, Inherited, Shielded(stack, state),
           NEW n \in Nodes,
           \/ Create(n) \/ Destroy(n)
           \/ \E type, channel, owned : Publish(n, type, channel, owned)
           \/ \E name : Disconnect(n, name)
           \/ \E name, handle, overwrite : Connect(n, name, handle, overwrite)
    PROVE  Shielded(stack', state')
<1>1. CASE Create(n) \/ Destroy(n)
  <2>1. \A m \in Nodes : state'[m] = "Releasing" => state[m] = "Releasing"
    BY <1>1 DEF Create, Destroy, Topology!Create, Topology!Destroy, Inherited, Topology!TypeOK
  <2>2. stack' = stack
    BY <1>1 DEF Create, Destroy, control
  <2> QED
    BY <2>1, <2>2, LifeCycleShields
<1>2. ASSUME NEW type, NEW channel, NEW owned, Publish(n, type, channel, owned)
      PROVE  Shielded(stack', state')
  <2>1. /\ state' = state
        /\ \/ Raise(n, type, channel, owned, stack) /\ state[n] = "Active"
           \/ stack' = stack
    BY <1>2 DEF Publish, tables
  <2> QED
    BY <2>1, StackIsStack, RaiseShields
<1>3. ASSUME NEW todo, stack' = <<[kind |-> "connect", node |-> n, todo |-> todo]>> \o stack,
             state[n] = "Active", state' = state
      PROVE  Shielded(stack', state')
  <2> DEFINE f == [kind |-> "connect", node |-> n, todo |-> todo]
  <2>1. ~Exposed(f, state)
    BY <1>3 DEF Exposed
  <2> HIDE DEF f
  <2>2. Shielded(<<f>> \o stack, state)
    BY <2>1, StackIsStack, PushShields
  <2> QED
    BY <1>3, <2>2 DEF f
<1>4. ASSUME NEW name, Disconnect(n, name)
      PROVE  Shielded(stack', state')
  BY <1>3, <1>4 DEF Disconnect, Topology!Disconnect, Topology!Active
<1>5. ASSUME NEW name, NEW handle, NEW overwrite, Connect(n, name, handle, overwrite)
      PROVE  Shielded(stack', state')
  BY <1>3, <1>5 DEF Connect, Topology!Connect, Topology!Active
<1> QED
  BY <1>1, <1>2, <1>4, <1>5

\* Pointers and subscriptions are none of the stack's business.
LEMMA TablesShield ==
    ASSUME StackInv, Inherited, Shielded(stack, state), PointerOperation \/ SubscriptionOperation
    PROVE  Shielded(stack', state')
<1>1. CASE PointerOperation
  <2>1. stack' = stack /\ state' = state
    BY <1>1, PointersOutsideRegistry DEF PointerOperation, control, Registry!vars
  <2> QED
    BY <2>1
<1>2. CASE SubscriptionOperation
  <2>1. stack' = stack /\ state' = state
    BY <1>2 DEF SubscriptionOperation, SubscribeEvent, SubscribeChannel, Cancel, control,
       Registry!SubscribeEvent, Registry!SubscribeChannel, Registry!Cancel
  <2> QED
    BY <2>1
<1> QED
  BY <1>1, <1>2

\* A release that begins lies above all that it might expose.
LEMMA ReleaseBeginShields ==
    ASSUME StackInv, Inherited, Shielded(stack, state), NEW n \in Nodes, Release(n)
    PROVE  Shielded(stack', state')
<1>1. PICK f : f.kind = "release" /\ f.node = n /\ stack' = <<f>> \o stack
  BY DEF Release
<1>2. \A m \in Nodes : m # n => state'[m] = state[m]
  BY DEF Release, Topology!BeginRelease, Inherited, Topology!TypeOK
<1>3. /\ Len(stack) \in Nat /\ Len(stack') = Len(stack) + 1 /\ stack'[1] = f
      /\ \A i \in 1 .. Len(stack) : stack'[i + 1] = stack[i]
      /\ \A i \in 2 .. Len(stack') : stack'[i] = stack[i - 1]
  <2>0. IsStack(stack)
    BY StackIsStack
  <2>1. Len(stack) \in Nat
    BY <1>1, <2>0, PushedAny
  <2>2. Len(stack') = Len(stack) + 1
    BY <1>1, <2>0, PushedAny
  <2>3. stack'[1] = f
    BY <1>1, <2>0, PushedAny
  <2>4. \A i \in 1 .. Len(stack) : stack'[i + 1] = stack[i]
    BY <1>1, <2>0, PushedAny
  <2>5. \A i \in 2 .. Len(stack') : stack'[i] = stack[i - 1]
    BY <1>1, <2>0, PushedAny
  <2> QED
    BY <2>1, <2>2, <2>3, <2>4, <2>5
<1>4. ASSUME NEW i \in 1 .. Len(stack'), Exposed(stack'[i], state')
      PROVE  \E j \in 1 .. i - 1 : stack'[j].kind = "release" /\ stack'[j].node = Subject(stack'[i])
  <2>1. i # 1
    BY <1>1, <1>3, <1>4 DEF Exposed
  <2> DEFINE u == i - 1
  <2>2. u \in 1 .. Len(stack) /\ stack'[i] = stack[u] /\ 1 \in 1 .. i - 1
    BY <1>3, <2>1
  <2> HIDE DEF u
  <2>3. CASE Subject(stack[u]) = n
    BY <1>1, <1>3, <2>2, <2>3
  <2>4. CASE Subject(stack[u]) # n
    <3>1. Exposed(stack[u], state)
      BY <1>2, <1>4, <2>2, <2>4, SubjectIsNode DEF Exposed, Subject
    <3>2. PICK j \in 1 .. u - 1 : stack[j].kind = "release" /\ stack[j].node = Subject(stack[u])
      BY <2>2, <3>1 DEF Shielded
    <3>3. j \in 1 .. Len(stack) /\ j + 1 \in 1 .. i - 1
      BY <1>3, <2>2, <3>2 DEF u
    <3>4. stack'[j + 1] = stack[j]
      BY <1>3, <3>3
    <3> QED
      BY <2>2, <3>2, <3>3, <3>4
  <2> QED
    BY <2>3, <2>4
<1> QED
  BY <1>4 DEF Shielded

\* A release that ends takes with it what it might have exposed.
LEMMA ReleaseEndShields ==
    ASSUME StackInv, Inherited, Shielded(stack, state), NEW n \in Nodes, EndRelease(n)
    PROVE  Shielded(stack', state')
<1>1. stack # <<>> /\ Head(stack).node = n /\ stack' = Tail(stack)
  BY DEF EndRelease, Top
<1>2. \A m \in Nodes : state'[m] = "Releasing" => m # n /\ state[m] = "Releasing"
  BY DEF EndRelease, Topology!EndRelease, Inherited, Topology!TypeOK
<1>3. /\ Len(stack) \in Nat \ {0} /\ stack[1] = Head(stack)
      /\ Len(stack') = Len(stack) - 1
      /\ \A i \in 1 .. Len(stack) - 1 : stack'[i] = stack[i + 1]
  BY <1>1, StackIsStack, Popped DEF IsStack
<1>4. ASSUME NEW i \in 1 .. Len(stack'), Exposed(stack'[i], state')
      PROVE  \E j \in 1 .. i - 1 : stack'[j].kind = "release" /\ stack'[j].node = Subject(stack'[i])
  <2> DEFINE u == i + 1
  <2>1. u \in 1 .. Len(stack) /\ stack'[i] = stack[u]
    BY <1>3
  <2> HIDE DEF u
  <2>2. Subject(stack[u]) # n /\ Exposed(stack[u], state)
    BY <1>2, <1>4, <2>1, SubjectIsNode DEF Exposed, Subject
  <2>3. PICK j \in 1 .. u - 1 : stack[j].kind = "release" /\ stack[j].node = Subject(stack[u])
    BY <2>1, <2>2 DEF Shielded
  <2>4. j # 1
    BY <1>1, <1>3, <2>2, <2>3
  <2> DEFINE v == j - 1
  <2>5. v \in 1 .. i - 1 /\ v \in 1 .. Len(stack) - 1 /\ v + 1 = j
    BY <1>3, <2>1, <2>3, <2>4 DEF u
  <2> HIDE DEF v
  <2>6. stack'[v] = stack[j]
    BY <1>3, <2>5
  <2> QED
    BY <2>1, <2>3, <2>5, <2>6
<1> QED
  BY <1>4 DEF Shielded

\* No step exposes anything.
LEMMA NextShields ==
    ASSUME StackInv, Inherited, Shielded(stack, state), [Next]_vars
    PROVE  Shielded(stack', state')
<1>1. ASSUME UNCHANGED tables, Shielded(stack', state)
      PROVE  Shielded(stack', state')
  BY <1>1 DEF tables
<1>2. CASE NodeOperation
  BY <1>2, UserShields, ReleaseBeginShields DEF NodeOperation
<1>3. CASE EdgeOperation
  BY <1>3, UserShields DEF EdgeOperation
<1>4. CASE PointerOperation \/ SubscriptionOperation
  BY <1>4, TablesShield
<1>5. CASE HandlerReturn \/ HandlerThrow
  BY <1>1, <1>5, ReturnsShield DEF HandlerReturn, HandlerThrow
<1>6. CASE DataStep
  BY <1>1, <1>6, CopyShields, ReadReturnShields
     DEF DataStep, Receive, WriteReturn, ReadReturn, EnterPhase
<1>7. CASE Deliver \/ EndPublish \/ EndSync
  BY <1>1, <1>7, DeliverShields, EndsShield DEF Deliver, EndPublish, EndSync
<1>8. CASE StartSync \/ NextBranch
  BY <1>1, <1>8, CopyShields DEF StartSync, NextBranch
<1>9. CASE ChildEvent \/ ReleaseEvent
  BY <1>1, <1>9, ChildEventShields, ReleaseEventShields DEF ChildEvent, ReleaseEvent
<1>10. ASSUME NEW n \in Nodes, EndRelease(n)
       PROVE  Shielded(stack', state')
  BY <1>10, ReleaseEndShields
<1>11. CASE UNCHANGED vars
  BY <1>11 DEF vars, control, tables
<1> QED
  BY <1>2, <1>3, <1>4, <1>5, <1>6, <1>7, <1>8, <1>9, <1>10, <1>11
     DEF Next, UserStep, RuntimeStep

\* Raising an event calls no handler yet.
LEMMA RaiseCallsNone ==
    ASSUME StackInv, NEW source, NEW type, NEW channel, NEW owned, NEW below, IsStack(below),
           Len(below) \in Nat, Len(below) <= Len(stack),
           Raise(source, type, channel, owned, below)
    PROVE  ~CallsHandler
<1> DEFINE f == PublishFrame(source, type, channel, owned)
<1>1. Len(stack) \in Nat
  BY StackFitsNow
<1>2. CASE stack' = below
  BY <1>1, <1>2 DEF CallsHandler
<1>3. CASE stack' = <<f>> \o below
  <2>1. f.kind = "publish"
    BY DEF PublishFrame
  <2> HIDE DEF f
  <2>2. stack'[1] = f
    BY <1>3, PushedAny
  <2> QED
    BY <2>1, <2>2 DEF CallsHandler
<1> QED
  BY <1>2, <1>3 DEF Raise

\* Another frame on top of the same calls.
LEMMA ReplaceCallsNone ==
    ASSUME StackInv, stack # <<>>, NEW f, NEW t, t = <<f>> \o Tail(stack)
    PROVE  IsStack(t) /\ Len(t) \in Nat /\ Len(t) = Len(stack)
<1>1. PICK S : stack \in Seq(S)
  BY StackIsStack DEF IsStack
<1>2. Tail(stack) \in Seq(S) /\ Len(stack) \in Nat \ {0} /\ Len(Tail(stack)) = Len(stack) - 1
  BY <1>1, Popped
<1>3. IsStack(Tail(stack))
  BY <1>2 DEF IsStack
<1>4. IsStack(t)
  BY <1>3, PushedAny
<1>5. Len(t) = Len(Tail(stack)) + 1
  BY <1>3, PushedAny
<1> QED
  BY <1>2, <1>4, <1>5

\* A frame of another kind that is pushed is no handler.
LEMMA PushCallsNone ==
    ASSUME NEW s, IsStack(s), NEW f, f.kind # "handler", stack' = <<f>> \o s
    PROVE  ~CallsHandler
<1>1. stack'[1] = f
  BY PushedAny
<1> QED
  BY <1>1 DEF CallsHandler

\* Of the steps of user code none calls a handler by itself.
LEMMA UserCallsNone ==
    ASSUME StackInv, UserStep
    PROVE  ~CallsHandler
<1>1. IsStack(stack) /\ Len(stack) \in Nat
  BY StackIsStack, StackFitsNow
<1>2. CASE stack' = stack
  BY <1>1, <1>2 DEF CallsHandler
<1>3. ASSUME NEW f, f.kind \in {"connect", "release"}, stack' = <<f>> \o stack
      PROVE  ~CallsHandler
  BY <1>1, <1>3, PushCallsNone
<1>4. CASE NodeOperation
  <2>1. ASSUME NEW n \in Nodes, Create(n) \/ Destroy(n)
        PROVE  ~CallsHandler
    BY <1>2, <2>1 DEF Create, Destroy, control
  <2>2. ASSUME NEW n \in Nodes, Release(n)
        PROVE  ~CallsHandler
    <3>1. PICK f : f.kind = "release" /\ stack' = <<f>> \o stack
      BY <2>2 DEF Release
    <3> QED
      BY <1>3, <3>1
  <2>3. ASSUME NEW n \in Nodes, NEW type, NEW channel, NEW owned,
               Publish(n, type, channel, owned)
        PROVE  ~CallsHandler
    BY <1>1, <1>2, <2>3, RaiseCallsNone DEF Publish
  <2> QED
    BY <1>4, <2>1, <2>2, <2>3 DEF NodeOperation
<1>5. CASE EdgeOperation
  BY <1>3, <1>5 DEF EdgeOperation, Connect, Disconnect
<1>6. CASE PointerOperation \/ SubscriptionOperation
  BY <1>2, <1>6 DEF PointerOperation, SubscriptionOperation, SubscribeEvent, SubscribeChannel,
     Cancel, control
<1> QED
  BY <1>4, <1>5, <1>6 DEF UserStep

\* Nor does copying.
LEMMA DataCallsNone ==
    ASSUME StackInv, DataStep
    PROVE  ~CallsHandler
<1>1. stack # <<>>
  BY DEF DataStep, Receive, WriteReturn, ReadReturn, InPhase, Top
<1>2. ASSUME NEW f, stack' = <<f>> \o Tail(stack)
      PROVE  ~CallsHandler
  BY <1>1, <1>2, ReplaceCallsNone DEF CallsHandler
<1>3. CASE Receive \/ \E ok \in BOOLEAN : WriteReturn(ok)
  BY <1>2, <1>3 DEF Receive, WriteReturn, EnterPhase
<1>4. ASSUME NEW ok \in BOOLEAN, ReadReturn(ok)
      PROVE  ~CallsHandler
  <2> DEFINE frame == Head(stack)
             next == [frame EXCEPT !.phase = "choose", !.channel = NoChannel]
             none == [next EXCEPT !.target = NoNode]
             below == <<next>> \o Tail(stack)
  <2>1. \/ Raise(frame.target, Changed, frame.channel, TRUE, below)
        \/ stack' = <<none>> \o Tail(stack)
    BY <1>4 DEF ReadReturn
  <2> HIDE DEF none, next
  <2>2. IsStack(below) /\ Len(below) \in Nat /\ Len(below) = Len(stack)
    BY <1>1, ReplaceCallsNone
  <2>3. Len(below) <= Len(stack)
    BY <2>2
  <2> HIDE DEF below
  <2> QED
    BY <1>2, <2>1, <2>2, <2>3, RaiseCallsNone
<1> QED
  BY <1>3, <1>4 DEF DataStep

\* Of all steps only Deliver calls a handler.
LEMMA OnlyDeliverCalls ==
    ASSUME StackInv, [Next]_vars, CallsHandler
    PROVE  Deliver
<1>1. IsStack(stack) /\ Len(stack) \in Nat
  BY StackIsStack, StackFitsNow
<1>2. stack' # stack
  BY <1>1 DEF CallsHandler
<1>3. ~UserStep /\ ~DataStep
  BY UserCallsNone, DataCallsNone
<1>4. ASSUME stack # <<>>, stack' = Tail(stack)
      PROVE  FALSE
  <2>1. Len(stack') = Len(stack) - 1
    BY <1>1, <1>4, Popped DEF IsStack
  <2> QED
    BY <1>1, <2>1 DEF CallsHandler
<1>5. ~HandlerReturn /\ ~EndPublish /\ ~EndSync /\ ~\E n \in Nodes : EndRelease(n)
  BY <1>4 DEF HandlerReturn, EndPublish, EndSync, EndRelease, Choosing, Top
<1>6. ~HandlerThrow
  <2> SUFFICES ASSUME HandlerThrow PROVE FALSE
    OBVIOUS
  <2>1. PICK k \in 2 .. Len(stack) + 1 : stack' = SubSeq(stack, k, Len(stack))
    BY DEF HandlerThrow
  <2>2. Len(stack') = Len(stack) - k + 1
    BY <1>1, <2>1, Dropped DEF IsStack
  <2> QED
    BY <1>1, <2>2 DEF CallsHandler
<1>7. ASSUME stack # <<>>, NEW f, stack' = <<f>> \o Tail(stack)
      PROVE  FALSE
  BY <1>7, ReplaceCallsNone DEF CallsHandler
<1>8. ~NextBranch
  BY <1>7 DEF NextBranch, Choosing, Top
<1>9. ~StartSync
  <2> SUFFICES ASSUME StartSync PROVE FALSE
    OBVIOUS
  <2> DEFINE change == [Head(stack) EXCEPT !.synced = TRUE]
             below == <<change>> \o Tail(stack)
  <2>1. PICK sync : sync.kind = "sync" /\ stack' = <<sync>> \o below
    BY DEF StartSync
  <2>2. stack # <<>>
    BY DEF StartSync, Top
  <2> HIDE DEF change
  <2>3. IsStack(below)
    BY <2>2, ReplaceCallsNone
  <2> HIDE DEF below
  <2>4. sync.kind # "handler"
    BY <2>1
  <2> QED
    BY <2>1, <2>3, <2>4, PushCallsNone
<1>10. ASSUME stack # <<>>, NEW f, NEW n, NEW type, NEW owned,
              Raise(n, type, NoChannel, owned, <<f>> \o Tail(stack))
       PROVE  FALSE
  <2>1. /\ IsStack(<<f>> \o Tail(stack))
        /\ Len(<<f>> \o Tail(stack)) \in Nat
        /\ Len(<<f>> \o Tail(stack)) = Len(stack)
    BY <1>10, ReplaceCallsNone
  <2>2. Len(<<f>> \o Tail(stack)) <= Len(stack)
    BY <2>1
  <2> QED
    BY <1>10, <2>1, <2>2, RaiseCallsNone
<1>11. ~ChildEvent
  BY <1>4, <1>10 DEF ChildEvent, Top
<1>12. ~ReleaseEvent
  BY <1>10 DEF ReleaseEvent, Top
<1> QED
  BY <1>2, <1>3, <1>5, <1>6, <1>8, <1>9, <1>11, <1>12
     DEF Next, RuntimeStep, vars, control

\* Deliver calls for a subscriber that is Active; the source of the event is that
\* of the subscription, and so Active or announcing its release.
LEMMA CallsAreAllowed ==
    ASSUME StackInv, Inherited, Registry!SubscriptionsJoinAlive, Shielded(stack, state),
           Deliver, CallsHandler
    PROVE  HandlerCallAllowed
<1> DEFINE frame == Head(stack)
<1>1. stack # <<>> /\ frame.kind = "publish"
  BY DEF Deliver, Top
<1>2. frame \in OwnFrames(events, channels, nextId)
  BY <1>1, StackFitsNow
<1>3. frame \in PublishFrames
  BY <1>1, <1>2 DEF OwnFrames, Frames, HandlerFrames, PublishFrames, SyncFrames,
     ConnectFrames, ReleaseFrames
<1>4. PICK id \in frame.ids :
         LET rest == <<[frame EXCEPT !.ids = @ \ {id}]>> \o Tail(stack)
         IN  stack' = IF events[id] # NoSub /\ state[events[id].subscriber] = "Active"
                      THEN <<[kind |-> "handler", id |-> id]>> \o rest
                      ELSE rest
  BY DEF Deliver
<1> DEFINE g == [frame EXCEPT !.ids = @ \ {id}]
           h == [kind |-> "handler", id |-> id]
           rest == <<g>> \o Tail(stack)
<1>5. g.source = frame.source /\ g.type = frame.type /\ h.id = id
  BY <1>3 DEF PublishFrames
<1>6. id \in Registry!Ids
  BY <1>3 DEF PublishFrames
<1> HIDE DEF g, h
<1>7. IsStack(rest) /\ Len(rest) = Len(stack) /\ rest[1] = g
  <2>1. IsStack(rest) /\ Len(rest) = Len(stack)
    BY <1>1, ReplaceCallsNone
  <2>2. IsStack(Tail(stack))
    BY <1>1, StackIsStack, Popped DEF IsStack
  <2>3. rest[1] = g
    BY <2>2, PushedAny
  <2> QED
    BY <2>1, <2>3
<1> HIDE DEF rest
<1>8. stack' # rest
  <2>1. Len(stack) \in Nat
    BY StackFitsNow
  <2> QED
    BY <1>7, <2>1 DEF CallsHandler
<1>9. events[id] # NoSub /\ state[events[id].subscriber] = "Active" /\ stack' = <<h>> \o rest
  BY <1>4, <1>8 DEF rest, g, h
<1>10. stack'[1] = h /\ stack'[2] = g
  <2>1. stack'[1] = h
    BY <1>7, <1>9, PushedAny
  <2>2. \A i \in 1 .. Len(rest) : stack'[i + 1] = rest[i]
    BY <1>7, <1>9, PushedAny
  <2>3. 1 \in 1 .. Len(rest)
    BY <1>1, <1>7, StackFitsNow
  <2> QED
    BY <1>7, <2>1, <2>2, <2>3
<1>11. events[id].source = frame.source /\ events[id].type = frame.type
  BY <1>1, <1>2, <1>9 DEF OwnFrames
<1>12. state[frame.source] \in {"Active", "Releasing"}
  BY <1>6, <1>9, <1>11 DEF Registry!SubscriptionsJoinAlive, Registry!Alive
<1>13. ~Exposed(frame, state)
  BY <1>1, StackIsStack, TopUnexposed
<1>14. state[frame.source] = "Releasing" => frame.type \in {"ChildDisconnected", "Released"}
  BY <1>1, <1>13 DEF Exposed, LastEvents
<1> QED
  BY <1>5, <1>9, <1>10, <1>12, <1>14 DEF HandlerCallAllowed

\* Subscriptions of the kernel join objects that are alive, as those of the registry.
LEMMA SubscriptionsAlive == Spec => []Registry!SubscriptionsJoinAlive
<1>1. RegistryProofs!SubscriptionsJoinAlive => Registry!SubscriptionsJoinAlive
  BY DEF RegistryProofs!SubscriptionsJoinAlive, Registry!SubscriptionsJoinAlive,
     RegistryProofs!Alive, Registry!Alive, RegistryProofs!Ids, Registry!Ids
<1>2. NoSub \notin RegistryProofs!EventSubscription \cup RegistryProofs!ChannelSubscription
  BY NoSubAssumption DEF RegistryProofs!EventSubscription, RegistryProofs!ChannelSubscription
<1>3. Registry!Spec => []Registry!SubscriptionsJoinAlive
  BY <1>1, <1>2, SameRegistry, RegistryProofs!NoSubscriptionToDead, MaxIdAssumption, PTL
<1> QED
  BY <1>3, KernelImplementsRegistry, PTL DEF ImplementsRegistry

\* The calls that might have more to publish of an object that is being released
\* stay below its release.
LEMMA AlwaysShielded == Spec => []Shielded(stack, state)
<1>1. Init => Shielded(stack, state)
  BY DEF Init, Shielded
<1>2. StackInv /\ Inherited /\ Shielded(stack, state) /\ [Next]_vars => Shielded(stack', state')
  BY NextShields
<1>3. StackInv /\ Inherited /\ Shielded(stack, state) /\ [Next]_vars => Shielded(stack, state)'
  BY <1>2
<1> QED
  BY <1>1, <1>3, StackInvariance, PTL DEF Spec

\* A handler is called for a subscriber that is Active, and hears of a source that is
\* Active or announcing its own release, whatever calls are in progress
\* (RuntimeTopology::publish, Connect, releaseInternal).
THEOREM OnlyTheLivingHeard == Spec => HandlersHearTheLiving
<1>1. StackInv /\ Inherited /\ Registry!SubscriptionsJoinAlive /\ Shielded(stack, state)
          /\ [Next]_vars => [CallsHandler => HandlerCallAllowed]_vars
  BY OnlyDeliverCalls, CallsAreAllowed
<1> QED
  BY <1>1, StackInvariance, SubscriptionsAlive, AlwaysShielded, PTL
     DEF Spec, HandlersHearTheLiving

-----------------------------------------------------------------------------
(* Copies of channels. *)

\* Steps of other calls copy nothing.
LEMMA OthersCopyNone ==
    ASSUME ~Top("sync")
    PROVE  CopyAllowed
  BY DEF CopyAllowed, Advances, Announced

\* Nor does a step that leaves or pushes calls.
LEMMA LengthTells ==
    ASSUME StackInv, stack # <<>>, IsStack(stack'), Len(stack') # Len(stack),
           Len(stack') = Len(stack) + 1 => Tail(stack') = stack
    PROVE  CopyAllowed
<1>1. stack' # <<>> => Len(Tail(stack')) = Len(stack') - 1 /\ Len(stack') \in Nat
  BY Popped DEF IsStack
<1>2. Len(Tail(stack)) = Len(stack) - 1 /\ Len(stack) \in Nat
  BY StackIsStack, Popped DEF IsStack
<1>3. ~Advances
  BY <1>1, <1>2 DEF Advances
<1> QED
  BY <1>3 DEF CopyAllowed, Announced

\* An announcement is a call more.
LEMMA SameDepth ==
    ASSUME Len(stack') = Len(stack), Len(stack) \in Nat
    PROVE  ~Announced
  BY DEF Announced

\* A call that goes on, with its frame changed to f.
LEMMA FrameChanged ==
    ASSUME StackInv, stack # <<>>, NEW f, stack' = <<f>> \o Tail(stack),
           f.phase = "reading" => state[f.source] = "Active" /\ state[f.target] = "Active",
           f.phase = "writing" => state[f.target] = "Active"
    PROVE  CopyAllowed
<1>1. Len(stack') = Len(stack) /\ Len(stack) \in Nat
  BY ReplaceCallsNone
<1>2. Head(stack') = f
  BY StackIsStack, Popped, PushedAny DEF IsStack
<1>3. ~Announced
  BY <1>1, SameDepth
<1> QED
  BY <1>2, <1>3 DEF CopyAllowed

\* User code pushes a call or calls nothing.
LEMMA UserCopiesNone ==
    ASSUME StackInv, UserStep
    PROVE  CopyAllowed
<1>0. CASE stack = <<>>
  BY <1>0, OthersCopyNone DEF Top
<1> SUFFICES ASSUME stack # <<>> PROVE CopyAllowed
  BY <1>0
<1>1. CASE stack' = stack
  <2>1. Len(stack) \in Nat
    BY StackFitsNow
  <2> QED
    BY <1>1, <2>1 DEF CopyAllowed, Advances, Announced
<1>2. ASSUME NEW f, stack' = <<f>> \o stack
      PROVE  CopyAllowed
  <2>1. IsStack(stack') /\ Len(stack') = Len(stack) + 1 /\ Len(stack) \in Nat
    BY <1>2, StackIsStack, StackFitsNow, PushedAny
  <2>2. Tail(stack') = stack
    BY <1>2, StackIsStack DEF IsStack
  <2> QED
    BY <2>1, <2>2, LengthTells
<1>3. CASE NodeOperation
  <2>1. ASSUME NEW n \in Nodes, Create(n) \/ Destroy(n)
        PROVE  stack' = stack
    BY <2>1 DEF Create, Destroy, control
  <2>2. ASSUME NEW n \in Nodes, Release(n)
        PROVE  CopyAllowed
    BY <1>2, <2>2 DEF Release
  <2>3. ASSUME NEW n \in Nodes, NEW type, NEW channel, NEW owned,
               Publish(n, type, channel, owned)
        PROVE  CopyAllowed
    BY <1>1, <1>2, <2>3 DEF Publish, Raise
  <2> QED
    BY <1>1, <1>3, <2>1, <2>2, <2>3 DEF NodeOperation
<1>4. CASE EdgeOperation
  BY <1>2, <1>4 DEF EdgeOperation, Connect, Disconnect
<1>5. CASE PointerOperation \/ SubscriptionOperation
  BY <1>1, <1>5 DEF PointerOperation, SubscriptionOperation, SubscribeEvent, SubscribeChannel,
     Cancel, control
<1> QED
  BY <1>3, <1>4, <1>5 DEF UserStep

\* The next branch is entered only between objects that are Active.
LEMMA BranchAllowed ==
    ASSUME StackInv, NextBranch
    PROVE  CopyAllowed
<1>1. Top("sync") /\ stack # <<>> /\ Head(stack).phase = "choose"
  BY DEF NextBranch, Choosing, Top
<1>2. Head(stack) \in SyncFrames
  BY <1>1, SyncOnTop
<1>3. PICK id \in Head(stack).ids :
         LET frame == [Head(stack) EXCEPT !.ids = @ \ {id}]
         IN  stack' = <<IF Follows(frame, id)
                        THEN [frame EXCEPT !.target = channels[id].target,
                                           !.channel = channels[id].targetChannel,
                                           !.phase = "reading"]
                        ELSE [frame EXCEPT !.target = NoNode]>> \o Tail(stack)
  BY DEF NextBranch
<1> DEFINE frame == [Head(stack) EXCEPT !.ids = @ \ {id}]
           copy == [frame EXCEPT !.target = channels[id].target,
                                 !.channel = channels[id].targetChannel,
                                 !.phase = "reading"]
           none == [frame EXCEPT !.target = NoNode]
<1>4. CASE Follows(frame, id)
  <2>1. /\ copy.source = frame.source /\ copy.target = channels[id].target
        /\ copy.phase = "reading"
    BY <1>2 DEF SyncFrames
  <2>2. state[copy.source] = "Active" /\ state[copy.target] = "Active"
    BY <1>4, <2>1 DEF Follows
  <2>3. stack' = <<copy>> \o Tail(stack)
    BY <1>3, <1>4
  <2> HIDE DEF copy
  <2> QED
    BY <1>1, <2>1, <2>2, <2>3, FrameChanged
<1>5. CASE ~Follows(frame, id)
  <2>1. none.phase = "choose"
    BY <1>1, <1>2 DEF SyncFrames
  <2>2. stack' = <<none>> \o Tail(stack)
    BY <1>3, <1>5
  <2> HIDE DEF none
  <2> QED
    BY <1>1, <2>1, <2>2, FrameChanged
<1> QED
  BY <1>4, <1>5

\* The receiver writes to a target that is Active.
LEMMA ReceiveAllowed ==
    ASSUME StackInv, Receive
    PROVE  CopyAllowed
<1>1. Top("sync") /\ stack # <<>>
  BY DEF Receive, InPhase, Top
<1>2. Head(stack) \in SyncFrames
  BY <1>1, SyncOnTop
<1>3. PICK phase \in {"writing", "failed"} :
         /\ phase = "writing" => state[Head(stack).target] = "Active"
         /\ stack' = <<[Head(stack) EXCEPT !.phase = phase]>> \o Tail(stack)
  BY DEF Receive, EnterPhase
<1> DEFINE g == [Head(stack) EXCEPT !.phase = phase]
<1>4. g.phase = phase /\ g.target = Head(stack).target
  BY <1>2 DEF SyncFrames
<1>5. stack' = <<g>> \o Tail(stack)
  BY <1>3
<1> HIDE DEF g
<1> QED
  BY <1>1, <1>3, <1>4, <1>5, FrameChanged

\* WriteData returns to ReadData.
LEMMA WriteReturnAllowed ==
    ASSUME StackInv, NEW ok \in BOOLEAN, WriteReturn(ok)
    PROVE  CopyAllowed
<1>1. Top("sync") /\ stack # <<>>
  BY DEF WriteReturn, InPhase, Top
<1>2. Head(stack) \in SyncFrames
  BY <1>1, SyncOnTop
<1>3. PICK phase \in {"written", "failed"} :
         stack' = <<[Head(stack) EXCEPT !.phase = phase]>> \o Tail(stack)
  BY DEF WriteReturn, EnterPhase
<1> DEFINE g == [Head(stack) EXCEPT !.phase = phase]
<1>4. g.phase = phase
  BY <1>2 DEF SyncFrames
<1>5. stack' = <<g>> \o Tail(stack)
  BY <1>3
<1> HIDE DEF g
<1> QED
  BY <1>1, <1>3, <1>4, <1>5, FrameChanged

\* A copy is announced where both objects are Active still.
LEMMA ReadReturnAllowed ==
    ASSUME StackInv, NEW ok \in BOOLEAN, ReadReturn(ok)
    PROVE  CopyAllowed
<1> DEFINE frame == Head(stack)
           next == [frame EXCEPT !.phase = "choose", !.channel = NoChannel]
           none == [next EXCEPT !.target = NoNode]
           below == <<next>> \o Tail(stack)
           event == PublishFrame(frame.target, Changed, frame.channel, TRUE)
<1>1. Top("sync") /\ stack # <<>>
  BY DEF ReadReturn, InPhase, Top
<1>2. frame \in SyncFrames
  BY <1>1, SyncOnTop
<1>3. next.phase = "choose" /\ none.phase = "choose"
  BY <1>2 DEF SyncFrames
<1>4. \/ stack' = <<none>> \o Tail(stack)
      \/ stack' = below
      \/ /\ stack' = <<event>> \o below
         /\ state[frame.source] = "Active" /\ state[frame.target] = "Active"
  BY DEF ReadReturn, Raise
<1> HIDE DEF next, none, event
<1>5. CASE stack' = <<none>> \o Tail(stack)
  BY <1>1, <1>3, <1>5, FrameChanged
<1>6. CASE stack' = below
  BY <1>1, <1>3, <1>6, FrameChanged
<1>7. CASE /\ stack' = <<event>> \o below
           /\ state[frame.source] = "Active" /\ state[frame.target] = "Active"
  <2>1. IsStack(below) /\ Len(below) = Len(stack) /\ Len(stack) \in Nat
    BY <1>1, ReplaceCallsNone
  <2> HIDE DEF below
  <2>2. IsStack(stack') /\ Len(stack') = Len(stack) + 1
    BY <1>7, <2>1, PushedAny
  <2>3. stack' # <<>> => Len(Tail(stack')) = Len(stack') - 1
    BY <2>2, Popped DEF IsStack
  <2>4. Len(Tail(stack)) = Len(stack) - 1
    BY <1>1, StackIsStack, Popped DEF IsStack
  <2>5. ~Advances
    BY <2>1, <2>2, <2>3, <2>4 DEF Advances
  <2> QED
    BY <1>7, <2>5 DEF CopyAllowed
<1> QED
  BY <1>4, <1>5, <1>6, <1>7

\* Every step of the kernel, on every stack it can have.
LEMMA StepsCopyAllowed ==
    ASSUME StackInv, [Next]_vars
    PROVE  [CopyAllowed]_vars
<1>1. CASE UserStep
  BY <1>1, UserCopiesNone
<1>2. CASE HandlerReturn
  BY <1>2, OthersCopyNone DEF HandlerReturn, Top
<1>3. CASE HandlerThrow
  <2>1. PICK k \in 2 .. Len(stack) + 1 : stack' = SubSeq(stack, k, Len(stack))
    BY <1>3 DEF HandlerThrow
  <2>2. IsStack(stack) /\ Len(stack) \in Nat /\ stack # <<>>
    BY <1>3, StackIsStack, StackFitsNow DEF HandlerThrow
  <2>3. IsStack(stack') /\ Len(stack') = Len(stack) - k + 1
    BY <2>1, <2>2, Dropped DEF IsStack
  <2> QED
    BY <2>2, <2>3, LengthTells
<1>4. CASE DataStep
  BY <1>4, ReceiveAllowed, WriteReturnAllowed, ReadReturnAllowed DEF DataStep
<1>5. CASE NextBranch
  BY <1>5, BranchAllowed
<1>6. CASE EndSync
  <2>1. stack # <<>> /\ stack' = Tail(stack)
    BY <1>6 DEF EndSync, Choosing, Top
  <2>2. IsStack(stack') /\ Len(stack') = Len(stack) - 1 /\ Len(stack) \in Nat
    BY <2>1, StackIsStack, Popped DEF IsStack
  <2>3. Len(stack') # Len(stack) /\ Len(stack') # Len(stack) + 1
    BY <2>2
  <2> QED
    BY <2>1, <2>2, <2>3, LengthTells
<1>7. CASE \/ Deliver \/ StartSync \/ EndPublish \/ ChildEvent \/ ReleaseEvent
           \/ \E n \in Nodes : EndRelease(n)
  BY <1>7, OthersCopyNone
     DEF Deliver, StartSync, EndPublish, ChildEvent, ReleaseEvent, EndRelease, Top
<1>8. CASE UNCHANGED vars
  BY <1>8
<1> QED
  BY <1>1, <1>2, <1>3, <1>4, <1>5, <1>6, <1>7, <1>8 DEF Next, RuntimeStep

\* The code of an object runs, in ReadData or WriteData, only while the object is
\* Active, and a copy is announced only between objects that both are
\* (RuntimeTopology::synchronizeChannels), whatever runs in between.
THEOREM CopiesStayAmongTheLiving == Spec => CopiesReachTheLiving
<1>1. StackInv /\ [Next]_vars => [CopyAllowed]_vars
  BY StepsCopyAllowed
<1> QED
  BY <1>1, StackInvariance, PTL DEF Spec, CopiesReachTheLiving

-----------------------------------------------------------------------------
(* How a change spreads.  In a propagation the stack alternates, from the bottom,
   between changes and the loops that copy them along their subscriptions. *)

\* The frame at position j from the bottom; the m-th change, and the frame above it,
\* a handler that hears of the change or the loop that copies it.
Bottom(s, j) == s[Len(s) + 1 - j]
Change(s, m) == Bottom(s, 2 * m - 1)
Copies(s, m) == Bottom(s, 2 * m)

\* The stack s with the frame f on top.
Push(f, s) == <<f>> \o s

\* The changes of a stack are numbered from the bottom.
Changes(s) == {m \in 1 .. Len(s) : 2 * m - 1 <= Len(s)}

\* The stacks agree on the n frames at the bottom.
Shared(s, t, n) ==
    /\ n \in Nat /\ n <= Len(s) /\ n <= Len(t)
    /\ \A j \in 1 .. n : Bottom(t, j) = Bottom(s, j)

\* There is a subscription from a channel of one object to a channel of another.
Leads(n, from, m, to) ==
    [source |-> n, sourceChannel |-> from, target |-> m, targetChannel |-> to] \in Subscribed

\* A handler hears of the change m.
HeardAt(s, m) ==
    2 * m = Len(s) /\ Copies(s, m).kind = "handler" /\ ~Change(s, m).synced

\* The change m is being copied: what is left of its subscriptions is as it was,
\* and a copy under way leads to an object that the propagation has not come through.
CopiedAt(s, m) ==
    /\ Copies(s, m).kind = "sync" /\ Change(s, m).synced
    /\ Copies(s, m).source = Change(s, m).source /\ Copies(s, m).from = Change(s, m).channel
    /\ \A id \in Copies(s, m).ids :
          /\ channels[id] # NoSub
          /\ channels[id].source = Change(s, m).source
          /\ channels[id].sourceChannel = Change(s, m).channel
    /\ m + 1 \in Changes(s) =>
          Copies(s, m).phase = "choose" /\ Copies(s, m).target = Change(s, m + 1).source
    /\ Copies(s, m).phase # "choose" =>
          /\ Copies(s, m).phase # "failed"
          /\ Leads(Change(s, m).source, Change(s, m).channel,
                   Copies(s, m).target, Copies(s, m).channel)
          /\ \A l \in Changes(s) : Change(s, l).source # Copies(s, m).target

\* f is the publication of a change; once it copies, all its handlers were called.
ChangeFits(f) ==
    /\ f.kind = "publish" /\ f.type = Changed /\ f.channel # NoChannel
    /\ f.synced => f.ids = {}

\* The change m and what lies above it: a handler, or the loop that made the next change.
LevelFits(s, m) ==
    /\ ChangeFits(Change(s, m))
    /\ 2 * m <= Len(s) => HeardAt(s, m) \/ CopiedAt(s, m)
    /\ m + 1 \in Changes(s) =>
          Leads(Change(s, m).source, Change(s, m).channel,
                Change(s, m + 1).source, Change(s, m + 1).channel)

\* No object changes twice in a branch.
SourcesDiffer(s) ==
    \A l, m \in Changes(s) : Change(s, l).source = Change(s, m).source => l = m

\* The way has come through the first m changes.
Through(way, m, s) ==
    \A j \in 1 .. m - 1 :
        /\ way[j].target = Change(s, j + 1).source
        /\ way[j].targetChannel = Change(s, j + 1).channel

\* The next subscription of the way is still to be followed ...
ToFollow(way, m, s) ==
    /\ 2 * m <= Len(s) /\ Copies(s, m).kind = "sync"
    /\ \E id \in Copies(s, m).ids : channels[id] = way[m]

\* ... or is being followed.
Followed(way, m, s) ==
    /\ 2 * m <= Len(s) /\ Copies(s, m).kind = "sync"
    /\ way[m].target = Copies(s, m).target /\ way[m].targetChannel = Copies(s, m).channel
    /\ \/ Copies(s, m).phase \in {"reading", "writing"}
       \/ Copies(s, m).phase = "written" /\ m < Len(way)

\* The way agrees with the branch up to the change m, and its next subscription is
\* still ahead of m: to be announced, in what the loop has left, or being followed.
PendingAt(way, m, s) ==
    /\ m \in Changes(s) /\ Through(way, m, s)
    /\ ~Change(s, m).synced \/ ToFollow(way, m, s) \/ Followed(way, m, s)

Pending(way, s) == \E m \in 1 .. Len(way) : PendingAt(way, m, s)

\* Where a way ends, and all the ways of the outermost change.
WayEnd(way) == <<way[Len(way)].target, way[Len(way)].targetChannel>>

AllWays(s) == Ways(Change(s, 1).source, Change(s, 1).channel)

\* What holds throughout a propagation: done is the end of ways only, and the end of
\* every way of the outermost change is done or the way is pending.
Spreads(s, done) ==
    /\ s # <<>>
    /\ \A m \in Changes(s) : LevelFits(s, m)
    /\ SourcesDiffer(s)
    /\ \A way \in AllWays(s) : WayEnd(way) \in done \/ Pending(way, s)
    /\ done \subseteq {WayEnd(way) : way \in AllWays(s)}

\* The outermost call is the publish of a change.
Propagates(s) == Bottom(s, 1).kind = "publish" /\ Bottom(s, 1).channel # NoChannel

\* The invariant behind PropagationComplete.
PropagationInv ==
    undisturbed => stack # <<>> /\ (Propagates(stack) => Spreads(stack, copied))

-----------------------------------------------------------------------------
\* A position is that of a change or of what lies above one.
LEMMA Halves == \A j \in Nat : \E m \in Nat : j = 2 * m \/ j = 2 * m + 1
<1> SUFFICES ASSUME NEW j \in Nat PROVE \E m \in Nat : j = 2 * m \/ j = 2 * m + 1
  OBVIOUS
<1>1. j \div 2 \in Nat /\ (j = 2 * (j \div 2) \/ j = 2 * (j \div 2) + 1)
  OBVIOUS
<1> QED
  BY <1>1

\* What a step leaves at the bottom of the stack: a call returns, ...
LEMMA TopPopped ==
    ASSUME NEW s, IsStack(s), s # <<>>, NEW t, t = Tail(s)
    PROVE  /\ IsStack(t) /\ Len(s) \in Nat \ {0} /\ Bottom(s, Len(s)) = Head(s)
           /\ Len(t) = Len(s) - 1 /\ Shared(s, t, Len(s) - 1)
<1>1. PICK S : s \in Seq(S)
  BY DEF IsStack
<1>2. /\ t \in Seq(S) /\ Head(s) = s[1] /\ Len(s) \in Nat \ {0} /\ Len(t) = Len(s) - 1
      /\ \A i \in 1 .. Len(s) - 1 : t[i] = s[i + 1]
  BY <1>1, Popped
<1>3. Bottom(s, Len(s)) = Head(s) /\ Shared(s, t, Len(s) - 1)
  BY <1>2 DEF Bottom, Shared
<1> QED
  BY <1>2, <1>3 DEF IsStack

\* ... a call is made, ...
LEMMA TopPushed ==
    ASSUME NEW s, IsStack(s), NEW g
    PROVE  /\ IsStack(Push(g, s)) /\ Push(g, s) # <<>>
           /\ Len(s) \in Nat /\ Len(Push(g, s)) = Len(s) + 1
           /\ Shared(s, Push(g, s), Len(s)) /\ Bottom(Push(g, s), Len(s) + 1) = g
<1> DEFINE t == <<g>> \o s
<1>1. PICK S : s \in Seq(S) /\ g \in S
  <2>1. PICK T : s \in Seq(T)
    BY DEF IsStack
  <2>2. s \in Seq(T \cup {g})
    BY <2>1
  <2> QED
    BY <2>2
<1>2. /\ t \in Seq(S) /\ t # <<>> /\ Len(t) = Len(s) + 1 /\ t[1] = g
      /\ \A i \in 2 .. Len(t) : t[i] = s[i - 1]
  BY <1>1, Pushed
<1>3. Len(s) \in Nat
  BY <1>1
<1> HIDE DEF t
<1>4. Bottom(t, Len(s) + 1) = g /\ Shared(s, t, Len(s))
  BY <1>2, <1>3 DEF Bottom, Shared
<1>5. Push(g, s) = t
  BY DEF Push, t
<1> QED
  BY <1>2, <1>3, <1>4, <1>5 DEF IsStack

\* Agreement is passed on.
LEMMA SharedTwice ==
    ASSUME NEW s, NEW r, NEW t, NEW n \in Nat \ {0}, Shared(s, r, n - 1), Shared(r, t, n)
    PROVE  Shared(s, t, n - 1) /\ Bottom(t, n) = Bottom(r, n)
  BY DEF Shared

\* ... the call on top goes on as f, ...
LEMMA TopReplaced ==
    ASSUME NEW s, IsStack(s), s # <<>>, NEW f
    PROVE  LET t == Push(f, Tail(s))
           IN  /\ IsStack(t) /\ t # <<>> /\ Len(t) = Len(s) /\ Len(s) \in Nat \ {0}
               /\ Shared(s, t, Len(s) - 1) /\ Bottom(t, Len(s)) = f
<1> DEFINE r == Tail(s)
           t == Push(f, r)
<1>1. IsStack(r) /\ Len(s) \in Nat \ {0} /\ Len(r) = Len(s) - 1 /\ Shared(s, r, Len(s) - 1)
  BY TopPopped
<1> HIDE DEF r
<1>2. /\ IsStack(t) /\ t # <<>> /\ Len(t) = Len(r) + 1
      /\ Shared(r, t, Len(r)) /\ Bottom(t, Len(r) + 1) = f
  BY <1>1, TopPushed
<1> HIDE DEF t
<1>3. Shared(s, t, Len(s) - 1)
  BY <1>1, <1>2 DEF Shared
<1>4. /\ IsStack(t) /\ t # <<>> /\ Len(t) = Len(s) /\ Len(s) \in Nat \ {0}
      /\ Shared(s, t, Len(s) - 1) /\ Bottom(t, Len(s)) = f
  BY <1>1, <1>2, <1>3
<1> QED
  BY <1>4 DEF t, r

\* ... or goes on as f and makes a call.
LEMMA TopCalls ==
    ASSUME NEW s, IsStack(s), s # <<>>, NEW f, NEW g
    PROVE  LET t == Push(g, Push(f, Tail(s)))
           IN  /\ IsStack(t) /\ t # <<>> /\ Len(t) = Len(s) + 1 /\ Len(s) \in Nat \ {0}
               /\ Shared(s, t, Len(s) - 1)
               /\ Bottom(t, Len(s)) = f /\ Bottom(t, Len(s) + 1) = g
<1> DEFINE r == Push(f, Tail(s))
           t == Push(g, r)
<1>1. /\ IsStack(r) /\ Len(r) = Len(s) /\ Len(s) \in Nat \ {0}
      /\ Shared(s, r, Len(s) - 1) /\ Bottom(r, Len(s)) = f
  BY TopReplaced
<1> HIDE DEF r
<1>2. /\ IsStack(t) /\ t # <<>> /\ Len(t) = Len(s) + 1
      /\ Shared(r, t, Len(s)) /\ Bottom(t, Len(s) + 1) = g
  BY <1>1, TopPushed
<1> HIDE DEF t
<1>3. Shared(s, t, Len(s) - 1) /\ Bottom(t, Len(s)) = Bottom(r, Len(s))
  BY <1>1, <1>2, SharedTwice
<1>4. /\ IsStack(t) /\ t # <<>> /\ Len(t) = Len(s) + 1 /\ Len(s) \in Nat \ {0}
      /\ Shared(s, t, Len(s) - 1)
      /\ Bottom(t, Len(s)) = f /\ Bottom(t, Len(s) + 1) = g
  BY <1>1, <1>2, <1>3
<1> QED
  BY <1>4 DEF t, r

\* Agreement in terms of changes and loops.
LEMMA SharedLevels ==
    ASSUME NEW s, NEW t, NEW n, Shared(s, t, n), Len(s) \in Nat, Len(t) \in Nat
    PROVE  /\ \A m \in Nat \ {0} : 2 * m - 1 <= n => Change(t, m) = Change(s, m)
           /\ \A m \in Nat \ {0} : 2 * m <= n => Copies(t, m) = Copies(s, m)
  BY DEF Shared, Change, Copies

\* Every frame is a change or what is above one.
LEMMA EveryFrame ==
    ASSUME NEW s, IsStack(s), NEW i \in 1 .. Len(s)
    PROVE  \E m \in Changes(s) :
              \/ i = Len(s) + 2 - 2 * m /\ s[i] = Change(s, m)
              \/ 2 * m <= Len(s) /\ i = Len(s) + 1 - 2 * m /\ s[i] = Copies(s, m)
<1>1. Len(s) \in Nat
  BY DEF IsStack
<1>2. PICK m \in Nat : Len(s) - i = 2 * m \/ Len(s) - i = 2 * m + 1
  <2>1. Len(s) - i \in Nat
    BY <1>1
  <2> QED
    BY <2>1, Halves
<1>3. m + 1 \in Changes(s)
  BY <1>1, <1>2 DEF Changes
<1>4. CASE Len(s) - i = 2 * m
  <2>1. i = Len(s) + 2 - 2 * (m + 1) /\ i = Len(s) + 1 - (2 * (m + 1) - 1)
    BY <1>1, <1>4
  <2> QED
    BY <1>3, <2>1 DEF Change, Bottom
<1>5. CASE Len(s) - i = 2 * m + 1
  <2>1. i = Len(s) + 1 - 2 * (m + 1) /\ 2 * (m + 1) <= Len(s)
    BY <1>1, <1>5
  <2> QED
    BY <1>3, <2>1 DEF Copies, Bottom
<1> QED
  BY <1>2, <1>4, <1>5

\* The last change on the stack, with nothing or one frame above it.
LEMMA LastChange ==
    ASSUME NEW s, IsStack(s), s # <<>>
    PROVE  \E k \in Nat \ {0} :
              /\ Changes(s) = 1 .. k
              /\ \/ Len(s) = 2 * k - 1 /\ Head(s) = Change(s, k)
                 \/ Len(s) = 2 * k /\ Head(s) = Copies(s, k)
<1>1. Len(s) \in Nat \ {0} /\ Bottom(s, Len(s)) = Head(s)
  BY TopPopped
<1>2. PICK m \in Nat : Len(s) - 1 = 2 * m \/ Len(s) - 1 = 2 * m + 1
  <2>1. Len(s) - 1 \in Nat
    BY <1>1
  <2> QED
    BY <2>1, Halves
<1>3. Changes(s) = 1 .. m + 1
  BY <1>1, <1>2 DEF Changes
<1>4. CASE Len(s) - 1 = 2 * m
  <2>1. Len(s) = 2 * (m + 1) - 1
    BY <1>1, <1>4
  <2> QED
    BY <1>1, <1>3, <2>1 DEF Change
<1>5. CASE Len(s) - 1 = 2 * m + 1
  <2>1. Len(s) = 2 * (m + 1)
    BY <1>1, <1>5
  <2> QED
    BY <1>1, <1>3, <2>1 DEF Copies
<1> QED
  BY <1>2, <1>4, <1>5

\* The changes below the change k stay as they are when what is above them changes.
LEMMA LevelsKept ==
    ASSUME NEW s, NEW t, Len(s) \in Nat, Len(t) \in Nat, NEW k \in Nat \ {0},
           Changes(s) = 1 .. k, Shared(s, t, 2 * k - 2),
           \A m \in Changes(s) : LevelFits(s, m),
           k \in Changes(t) =>
               /\ Change(t, k).source = Change(s, k).source
               /\ Change(t, k).channel = Change(s, k).channel
    PROVE  \A m \in 1 .. k - 1 : LevelFits(t, m)
<1> SUFFICES ASSUME NEW m \in 1 .. k - 1 PROVE LevelFits(t, m)
  OBVIOUS
<1>1. m \in Changes(s) /\ m + 1 \in Changes(s) /\ 2 * (m + 1) - 1 <= Len(s)
  <2>1. m \in Changes(s) /\ m + 1 \in Changes(s)
    OBVIOUS
  <2> QED
    BY <2>1 DEF Changes
<1>2. LevelFits(s, m) /\ CopiedAt(s, m) /\ 2 * m <= Len(t) /\ 2 * m <= Len(s)
  BY <1>1 DEF LevelFits, HeardAt, Shared
<1>3. Change(t, m) = Change(s, m) /\ Copies(t, m) = Copies(s, m)
  BY SharedLevels
<1>4. m + 1 < k => Change(t, m + 1) = Change(s, m + 1)
  BY SharedLevels
<1>5. m + 1 \in Changes(t) =>
          /\ Change(t, m + 1).source = Change(s, m + 1).source
          /\ Change(t, m + 1).channel = Change(s, m + 1).channel
  BY <1>4
<1>6. Copies(s, m).phase = "choose"
  BY <1>1, <1>2 DEF CopiedAt
<1>7. CopiedAt(t, m)
  BY <1>1, <1>2, <1>3, <1>5, <1>6 DEF CopiedAt
<1> QED
  BY <1>1, <1>2, <1>3, <1>5, <1>7 DEF LevelFits

\* A way that is still to be followed below the change k stays so.
LEMMA PendingKept ==
    ASSUME NEW s, NEW t, Len(s) \in Nat, Len(t) \in Nat, NEW k \in Nat \ {0},
           Changes(s) = 1 .. k, Shared(s, t, 2 * k - 2),
           \A m \in Changes(s) : LevelFits(s, m),
           NEW way, NEW m \in 1 .. Len(way), PendingAt(way, m, s), m < k
    PROVE  Pending(way, t)
<1>1. m \in Changes(s) /\ m + 1 \in Changes(s) /\ m \in Nat \ {0} /\ 2 * (m + 1) - 1 <= Len(s)
  <2>1. m \in Changes(s)
    BY DEF PendingAt
  <2>2. m \in 1 .. k /\ m + 1 \in 1 .. k
    BY <2>1
  <2>3. m + 1 \in Changes(s)
    BY <2>2
  <2>4. 2 * (m + 1) - 1 <= Len(s)
    BY <2>3 DEF Changes
  <2> QED
    BY <2>2, <2>1, <2>3, <2>4
<1>2. LevelFits(s, m) /\ CopiedAt(s, m) /\ 2 * m <= Len(t) /\ 2 * m <= Len(s) /\ m \in Changes(t)
  BY <1>1 DEF LevelFits, HeardAt, Shared, Changes
<1>3. \A l \in 1 .. m : Change(t, l) = Change(s, l)
  BY <1>1, SharedLevels
<1>4. Copies(t, m) = Copies(s, m)
  BY <1>1, SharedLevels
<1>5. Through(way, m, t)
  <2>1. Through(way, m, s)
    BY DEF PendingAt
  <2>2. \A l \in 1 .. m - 1 : Change(t, l + 1) = Change(s, l + 1)
    BY <1>1, <1>3
  <2> QED
    BY <2>1, <2>2 DEF Through
<1>6. Change(s, m).synced /\ Copies(s, m).phase = "choose"
  BY <1>1, <1>2 DEF CopiedAt
<1>7. ToFollow(way, m, s)
  BY <1>6 DEF PendingAt, Followed
<1>8. ToFollow(way, m, t)
  BY <1>2, <1>4, <1>7 DEF ToFollow
<1> QED
  BY <1>2, <1>5, <1>8 DEF Pending, PendingAt

\* A step at the change k and above it: what it must see to for the invariant.
LEMMA Respread ==
    ASSUME NEW s, NEW t, Len(s) \in Nat, Len(t) \in Nat, t # <<>>, NEW k \in Nat \ {0},
           NEW done, NEW more,
           Spreads(s, done), Changes(s) = 1 .. k, Shared(s, t, 2 * k - 2), 1 \in Changes(t),
           k \in Changes(t) =>
               /\ Change(t, k).source = Change(s, k).source
               /\ Change(t, k).channel = Change(s, k).channel,
           \A m \in Changes(t) : m >= k => LevelFits(t, m),
           SourcesDiffer(t),
           done \subseteq more, more \subseteq {WayEnd(way) : way \in AllWays(s)},
           \A way \in AllWays(s) :
              k \in 1 .. Len(way) /\ PendingAt(way, k, s) => WayEnd(way) \in more \/ Pending(way, t)
    PROVE  Spreads(t, more)
<1>1. \A m \in Changes(s) : LevelFits(s, m)
  BY DEF Spreads
<1>2. ASSUME NEW m \in Changes(t)
      PROVE  LevelFits(t, m)
  <2>1. \A l \in 1 .. k - 1 : LevelFits(t, l)
    BY <1>1, LevelsKept
  <2>2. m \in Nat \ {0}
    BY DEF Changes
  <2> QED
    BY <2>1, <2>2
<1>3. AllWays(t) = AllWays(s)
  <2>1. CASE k = 1
    BY <2>1 DEF AllWays
  <2>2. CASE k # 1
    <3>1. \A m \in Nat \ {0} : 2 * m - 1 <= 2 * k - 2 => Change(t, m) = Change(s, m)
      BY SharedLevels
    <3>2. 1 \in Nat \ {0} /\ 2 * 1 - 1 <= 2 * k - 2
      BY <2>2
    <3>3. Change(t, 1) = Change(s, 1)
      BY <3>1, <3>2
    <3> QED
      BY <3>3 DEF AllWays
  <2> QED
    BY <2>1, <2>2
<1>4. ASSUME NEW way \in AllWays(s), WayEnd(way) \notin more
      PROVE  Pending(way, t)
  <2>1. PICK m \in 1 .. Len(way) : PendingAt(way, m, s)
    BY <1>4 DEF Spreads, Pending
  <2>2. m \in 1 .. k
    BY <2>1 DEF PendingAt
  <2>3. CASE m = k
    BY <1>4, <2>1, <2>3
  <2>4. CASE m < k
    BY <1>1, <2>1, <2>4, PendingKept
  <2> QED
    BY <2>2, <2>3, <2>4
<1> QED
  BY <1>2, <1>3, <1>4 DEF Spreads

\* The changes on the stack come from as many objects.
LEMMA StillDiffer ==
    ASSUME NEW s, NEW t, Len(s) \in Nat, Len(t) \in Nat, NEW k \in Nat \ {0},
           SourcesDiffer(s), Changes(s) = 1 .. k, Shared(s, t, 2 * k - 2),
           Changes(t) \subseteq 1 .. k,
           k \in Changes(t) => Change(t, k).source = Change(s, k).source
    PROVE  SourcesDiffer(t)
<1>1. ASSUME NEW m \in Changes(t)
      PROVE  m \in Changes(s) /\ Change(t, m).source = Change(s, m).source
  <2>1. CASE m = k
    BY <1>1, <2>1
  <2>2. CASE m # k
    <3>1. m \in 1 .. k /\ m \in Nat \ {0} /\ 2 * m - 1 <= 2 * k - 2
      BY <2>2
    <3> QED
      BY <3>1, SharedLevels
  <2> QED
    BY <2>1, <2>2
<1> QED
  BY <1>1 DEF SourcesDiffer

-----------------------------------------------------------------------------
(* The ways of a change. *)

\* No two subscriptions of the way lead to the same object, and none leads back.
IsWay(way, n, c) ==
    /\ way # <<>>
    /\ way[1].source = n /\ way[1].sourceChannel = c
    /\ \A i \in 1 .. Len(way) - 1 :
          /\ way[i].target = way[i + 1].source
          /\ way[i].targetChannel = way[i + 1].sourceChannel
    /\ \A i, j \in 1 .. Len(way) : i # j => way[i].target # way[j].target
    /\ \A i \in 1 .. Len(way) : way[i].target # n

\* There are finitely many identifiers, and so subscriptions.
LEMMA SubscribedIsFinite ==
    ASSUME Registry!TypeOK
    PROVE  IsFiniteSet(Subscribed) /\ Cardinality(Subscribed) \in Nat
<1> DEFINE f == [id \in Registry!Ids |-> channels[id]]
           all == {channels[id] : id \in Registry!Ids}
<1>1. IsFiniteSet(Registry!Ids)
  BY MaxIdAssumption, FS_Interval DEF Registry!Ids
<1>2. f \in Surjection(Registry!Ids, all)
  BY DEF Surjection
<1>3. IsFiniteSet(all)
  BY <1>1, <1>2, FS_Surjection
<1>4. Subscribed \in SUBSET all
  BY DEF Subscribed
<1> QED
  BY <1>3, <1>4, FS_Subset, FS_CardinalityType

\* As it comes through an object at most once, a way has no more links than there are.
LEMMA WaysAreBounded ==
    ASSUME Registry!TypeOK, NEW n \in Nodes, NEW c, NEW way \in Seq(Subscribed), IsWay(way, n, c)
    PROVE  Len(way) \in 1 .. Cardinality(Subscribed)
<1>1. Len(way) \in Nat \ {0}
  BY DEF IsWay
<1>2. \A i, j \in 1 .. Len(way) : i # j => way[i] # way[j]
  BY DEF IsWay
<1> DEFINE f == [i \in 1 .. Len(way) |-> way[i]]
<1>3. f \in Injection(1 .. Len(way), Subscribed)
  BY <1>2 DEF Injection, IsInjective
<1>4. Cardinality(1 .. Len(way)) <= Cardinality(Subscribed)
  BY <1>3, SubscribedIsFinite, FS_Injection
<1>5. Cardinality(1 .. Len(way)) = Len(way)
  BY <1>1, FS_Interval
<1> QED
  BY <1>1, <1>4, <1>5, SubscribedIsFinite

\* So the ways are what they are meant to be.
LEMMA WaysAre ==
    ASSUME Registry!TypeOK, NEW n \in Nodes, NEW c
    PROVE  Ways(n, c) = {way \in Seq(Subscribed) : IsWay(way, n, c)}
<1>1. ASSUME NEW way \in Ways(n, c)
      PROVE  way \in Seq(Subscribed) /\ IsWay(way, n, c)
  <2>1. Cardinality(Subscribed) \in Nat
    BY SubscribedIsFinite
  <2>2. PICK k \in 1 .. Cardinality(Subscribed) : way \in [1 .. k -> Subscribed]
    BY <1>1 DEF Ways
  <2>3. k \in Nat \ {0}
    BY <2>1, <2>2
  <2>4. way \in Seq(Subscribed) /\ Len(way) = k
    BY <2>2, <2>3
  <2>5. way # <<>>
    BY <2>3, <2>4
  <2> QED
    BY <1>1, <2>4, <2>5 DEF Ways, IsWay
<1>2. ASSUME NEW way \in Seq(Subscribed), IsWay(way, n, c)
      PROVE  way \in Ways(n, c)
  <2>1. Len(way) \in 1 .. Cardinality(Subscribed)
    BY <1>2, WaysAreBounded
  <2>2. way \in [1 .. Len(way) -> Subscribed]
    OBVIOUS
  <2>3. way \in UNION {[1 .. k -> Subscribed] : k \in 1 .. Cardinality(Subscribed)}
    BY <2>1, <2>2
  <2> QED
    BY <1>2, <2>3 DEF Ways, IsWay
<1> QED
  BY <1>1, <1>2

-----------------------------------------------------------------------------
(* What the state gives a propagation. *)

\* No release is in progress, so what subscriptions join is Active.
LEMMA LinksAreActive ==
    ASSUME StackInv, Inherited, Registry!SubscriptionsJoinAlive, NEW done, Spreads(stack, done),
           NEW id \in Registry!Ids, channels[id] # NoSub
    PROVE  state[channels[id].source] = "Active" /\ state[channels[id].target] = "Active"
<1>1. \A i \in 1 .. Len(stack) : stack[i].kind # "release"
  <2> SUFFICES ASSUME NEW i \in 1 .. Len(stack) PROVE stack[i].kind # "release"
    OBVIOUS
  <2>1. PICK m \in Changes(stack) :
           \/ stack[i] = Change(stack, m)
           \/ 2 * m <= Len(stack) /\ stack[i] = Copies(stack, m)
    BY StackIsStack, EveryFrame
  <2>2. LevelFits(stack, m)
    BY DEF Spreads
  <2> QED
    BY <2>1, <2>2 DEF LevelFits, ChangeFits, HeardAt, CopiedAt
<1>2. \A n \in Nodes : state[n] # "Releasing"
  BY <1>1 DEF StackInv, ReleasesMatch
<1>3. Registry!Alive(channels[id].source) /\ Registry!Alive(channels[id].target)
  BY DEF Registry!SubscriptionsJoinAlive
<1>4. channels[id].source \in Nodes /\ channels[id].target \in Nodes
  BY DEF Inherited, Registry!TypeOK, Registry!ChannelSubscription
<1> QED
  BY <1>2, <1>3, <1>4 DEF Registry!Alive

\* The frames of a change and of its loop.
LEMMA FramesTyped ==
    ASSUME StackInv, NEW done, Spreads(stack, done), NEW m \in Changes(stack)
    PROVE  /\ Change(stack, m) \in PublishFrames
           /\ 2 * m <= Len(stack) /\ Copies(stack, m).kind = "sync" =>
                 Copies(stack, m) \in SyncFrames
<1>1. Len(stack) \in Nat /\ m \in 1 .. Len(stack) /\ 2 * m - 1 <= Len(stack)
  BY StackFitsNow DEF Changes
<1>2. Change(stack, m) \in Frames /\ (2 * m <= Len(stack) => Copies(stack, m) \in Frames)
  <2>1. /\ Len(stack) + 1 - (2 * m - 1) \in 1 .. Len(stack)
        /\ 2 * m <= Len(stack) => Len(stack) + 1 - 2 * m \in 1 .. Len(stack)
    BY <1>1
  <2>2. \A i \in 1 .. Len(stack) : stack[i] \in Frames
    BY StackFitsNow
  <2> QED
    BY <2>1, <2>2 DEF Change, Copies, Bottom
<1>3. Change(stack, m).kind = "publish"
  BY DEF Spreads, LevelFits, ChangeFits
<1> QED
  BY <1>2, <1>3 DEF Frames, HandlerFrames, PublishFrames, SyncFrames, ConnectFrames, ReleaseFrames

\* The objects that the branch on top has come through are the sources of the
\* changes on the stack.
LEMMA PathIsSources ==
    ASSUME StackInv, NEW done, Spreads(stack, done), NEW k \in Nat \ {0},
           Changes(stack) = 1 .. k, Len(stack) = 2 * k
    PROVE  ChannelPath(Tail(stack)) = {Change(stack, l).source : l \in 1 .. k}
<1> DEFINE t == Tail(stack)
<1>1. stack # <<>> /\ IsStack(stack) /\ Len(stack) \in Nat /\ Len(t) \in Nat
      /\ Len(t) = 2 * k - 1 /\ Shared(stack, t, 2 * k - 1) /\ IsStack(t)
  <2>1. stack # <<>> /\ IsStack(stack) /\ Len(stack) \in Nat
    BY StackIsStack, StackFitsNow
  <2>2. Len(t) = Len(stack) - 1 /\ Shared(stack, t, Len(stack) - 1) /\ IsStack(t)
    BY <2>1, TopPopped
  <2> QED
    BY <2>1, <2>2
<1> HIDE DEF t
<1>2. \A l \in 1 .. k : Change(t, l) = Change(stack, l)
  BY <1>1, SharedLevels
<1>3. \A l \in 1 .. k - 1 : Copies(t, l) = Copies(stack, l)
  BY <1>1, SharedLevels
<1>4. \A l \in 1 .. k : ChangeFits(Change(t, l)) /\ Change(t, l).source \in Nodes
  <2> SUFFICES ASSUME NEW l \in 1 .. k
               PROVE  ChangeFits(Change(t, l)) /\ Change(t, l).source \in Nodes
    OBVIOUS
  <2>1. Change(stack, l) \in PublishFrames /\ ChangeFits(Change(stack, l))
    BY FramesTyped DEF Spreads, LevelFits
  <2> QED
    BY <1>2, <2>1 DEF PublishFrames
<1>5. \A l \in 1 .. k - 1 :
         Copies(t, l).kind = "sync" /\ Copies(t, l).target = Change(t, l + 1).source
  <2> SUFFICES ASSUME NEW l \in 1 .. k - 1
               PROVE  Copies(t, l).kind = "sync" /\ Copies(t, l).target = Change(t, l + 1).source
    OBVIOUS
  <2>1. l \in Changes(stack) /\ l + 1 \in Changes(stack) /\ 2 * l < Len(stack)
    OBVIOUS
  <2>2. CopiedAt(stack, l)
    BY <1>1, <2>1 DEF Spreads, LevelFits, HeardAt
  <2> QED
    BY <1>2, <1>3, <2>1, <2>2 DEF CopiedAt
<1>6. ASSUME NEW i \in 1 .. Len(t)
      PROVE  \/ \E l \in 1 .. k : i = 2 * k + 1 - 2 * l /\ t[i] = Change(t, l)
             \/ \E l \in 1 .. k - 1 : t[i] = Copies(t, l)
  <2>1. PICK m \in Changes(t) :
           \/ i = Len(t) + 2 - 2 * m /\ t[i] = Change(t, m)
           \/ 2 * m <= Len(t) /\ i = Len(t) + 1 - 2 * m /\ t[i] = Copies(t, m)
    BY <1>1, EveryFrame
  <2>2. m \in Nat \ {0} /\ 2 * m - 1 <= Len(t)
    BY DEF Changes
  <2>3. m \in 1 .. k
    BY <1>1, <2>2
  <2> QED
    BY <1>1, <2>1, <2>3
<1> DEFINE changes == {i \in FramesOf(t, "publish") : t[i].channel # NoChannel}
<1>7. Len(t) \in changes /\ t[Len(t)] = Change(t, 1)
  <2>1. t[Len(t)] = Change(t, 1)
    BY <1>1 DEF Change, Bottom
  <2> QED
    BY <1>1, <1>4, <2>1 DEF ChangeFits, FramesOf
<1>8. {c \in changes : \A d \in changes : d <= c} = {Len(t)}
  <2>1. \A c \in changes : c \in 1 .. Len(t)
    BY DEF FramesOf
  <2> QED
    BY <1>1, <1>7, <2>1
<1>9. {t[i].source : i \in {c \in changes : \A d \in changes : d <= c}} = {Change(t, 1).source}
  BY <1>7, <1>8
<1>10. {t[i].target : i \in FramesOf(t, "sync")} \ {NoNode} = {Change(t, l + 1).source : l \in 1 .. k - 1}
  <2>1. ASSUME NEW i \in FramesOf(t, "sync")
        PROVE  t[i].target \in {Change(t, l + 1).source : l \in 1 .. k - 1}
    <3>1. i \in 1 .. Len(t) /\ t[i].kind = "sync"
      BY DEF FramesOf
    <3>2. \A l \in 1 .. k : t[i] # Change(t, l)
      BY <1>4, <3>1 DEF ChangeFits
    <3>3. PICK l \in 1 .. k - 1 : t[i] = Copies(t, l)
      BY <1>6, <3>1, <3>2
    <3> QED
      BY <1>5, <3>3
  <2>2. ASSUME NEW l \in 1 .. k - 1
        PROVE  Change(t, l + 1).source \in {t[i].target : i \in FramesOf(t, "sync")} \ {NoNode}
    <3>1. Len(t) + 1 - 2 * l \in 1 .. Len(t) /\ l + 1 \in 1 .. k
      BY <1>1
    <3>2. Len(t) + 1 - 2 * l \in FramesOf(t, "sync")
      BY <1>5, <3>1 DEF FramesOf, Copies, Bottom
    <3>3. t[Len(t) + 1 - 2 * l].target = Change(t, l + 1).source
      BY <1>5 DEF Copies, Bottom
    <3> QED
      BY <1>4, <3>1, <3>2, <3>3, NoNodeAssumption
  <2> QED
    BY <2>1, <2>2
<1>11. {Change(t, l).source : l \in 1 .. k}
          = {Change(t, 1).source} \cup {Change(t, l + 1).source : l \in 1 .. k - 1}
  <2>1. \A l \in 1 .. k : l = 1 \/ (l - 1 \in 1 .. k - 1 /\ l = (l - 1) + 1)
    OBVIOUS
  <2>2. 1 \in 1 .. k /\ \A l \in 1 .. k - 1 : l + 1 \in 1 .. k
    OBVIOUS
  <2> QED
    BY <2>1, <2>2
<1>12. ChannelPath(t) = {Change(t, l).source : l \in 1 .. k}
  BY <1>9, <1>10, <1>11 DEF ChannelPath
<1>13. {Change(t, l).source : l \in 1 .. k} = {Change(stack, l).source : l \in 1 .. k}
  BY <1>2
<1> QED
  BY <1>12, <1>13 DEF t

\* The definitions look at the channel subscriptions only, which stand still.
LEMMA SpreadsOn ==
    ASSUME channels' = channels, Spreads(stack', copied')
    PROVE  Spreads(stack, copied)'
<1>1. Subscribed' = Subscribed
  BY DEF Subscribed, Registry!Ids
<1>2. AllWays(stack)' = AllWays(stack')
  BY <1>1 DEF AllWays, Ways, Change, Bottom
<1>3. ASSUME NEW m, LevelFits(stack', m)
      PROVE  LevelFits(stack, m)'
  <2>1. HeardAt(stack', m) => HeardAt(stack, m)'
    BY DEF HeardAt, Change, Copies, Bottom
  <2>2. CopiedAt(stack', m) => CopiedAt(stack, m)'
    BY <1>1 DEF CopiedAt, Leads, Changes, Change, Copies, Bottom
  <2> QED
    BY <1>1, <1>3, <2>1, <2>2 DEF LevelFits, ChangeFits, Leads, Changes, Change, Bottom
<1>4. ASSUME NEW way, Pending(way, stack')
      PROVE  Pending(way, stack)'
  <2>1. ASSUME NEW m, PendingAt(way, m, stack')
        PROVE  PendingAt(way, m, stack)'
    BY <2>1 DEF PendingAt, Through, ToFollow, Followed, Changes, Change, Copies, Bottom
  <2> QED
    BY <1>4, <2>1 DEF Pending
<1>5. Changes(stack)' = Changes(stack') /\ (SourcesDiffer(stack') => SourcesDiffer(stack)')
  BY DEF Changes, SourcesDiffer, Change, Bottom
<1>6. (\A m \in Changes(stack) : LevelFits(stack, m))'
  BY <1>3, <1>5 DEF Spreads
<1>7. (\A way \in AllWays(stack) : WayEnd(way) \in copied \/ Pending(way, stack))'
  BY <1>2, <1>4 DEF Spreads, WayEnd
<1>8. (copied \subseteq {WayEnd(way) : way \in AllWays(stack)})'
  BY <1>2 DEF Spreads, WayEnd
<1> QED
  BY <1>5, <1>6, <1>7, <1>8 DEF Spreads

\* The way comes through the changes that are kept.
LEMMA ThroughKept ==
    ASSUME NEW s, NEW t, Len(s) \in Nat, Len(t) \in Nat, NEW k \in Nat \ {0},
           Shared(s, t, 2 * k - 2),
           Change(t, k).source = Change(s, k).source, Change(t, k).channel = Change(s, k).channel,
           NEW way, Through(way, k, s)
    PROVE  Through(way, k, t)
<1> SUFFICES ASSUME NEW j \in 1 .. k - 1
             PROVE  /\ way[j].target = Change(t, j + 1).source
                    /\ way[j].targetChannel = Change(t, j + 1).channel
  BY DEF Through
<1>1. CASE j + 1 = k
  BY <1>1 DEF Through
<1>2. CASE j + 1 # k
  <2>1. \A m \in Nat \ {0} : 2 * m - 1 <= 2 * k - 2 => Change(t, m) = Change(s, m)
    BY SharedLevels
  <2>2. Change(t, j + 1) = Change(s, j + 1)
    BY <1>2, <2>1
  <2> QED
    BY <2>2 DEF Through
<1> QED
  BY <1>1, <1>2

\* The same, for a step that leaves the changes on the stack as many as they are.
LEMMA RespreadSame ==
    ASSUME NEW s, NEW t, Len(s) \in Nat, Len(t) \in Nat, t # <<>>, NEW k \in Nat \ {0},
           NEW done, NEW more,
           Spreads(s, done), Changes(s) = 1 .. k, Changes(t) = 1 .. k, Shared(s, t, 2 * k - 2),
           Change(t, k).source = Change(s, k).source, Change(t, k).channel = Change(s, k).channel,
           LevelFits(t, k),
           done \subseteq more, more \subseteq {WayEnd(way) : way \in AllWays(s)},
           \A way \in AllWays(s) :
              /\ k \in 1 .. Len(way) /\ PendingAt(way, k, s)
              /\ Through(way, k, t)
              => \/ WayEnd(way) \in more
                 \/ ~Change(t, k).synced \/ ToFollow(way, k, t) \/ Followed(way, k, t)
    PROVE  Spreads(t, more)
<1>1. \A m \in Changes(t) : m >= k => LevelFits(t, m)
  <2>1. \A m \in Changes(t) : m >= k => m = k
    OBVIOUS
  <2> QED
    BY <2>1
<1>2. SourcesDiffer(t)
  BY StillDiffer DEF Spreads
<1>3. ASSUME NEW way \in AllWays(s), k \in 1 .. Len(way), PendingAt(way, k, s)
      PROVE  WayEnd(way) \in more \/ Pending(way, t)
  <2>1. Through(way, k, t)
    BY <1>3, ThroughKept DEF PendingAt
  <2>2. k \in Changes(t)
    OBVIOUS
  <2> QED
    BY <1>3, <2>1, <2>2 DEF Pending, PendingAt
<1>4. 1 \in Changes(t)
  OBVIOUS
<1> QED
  BY <1>1, <1>2, <1>3, <1>4, Respread

\* What is known when a change is on top ...
LEMMA ChangeOnTop ==
    ASSUME StackInv, NEW done, Spreads(stack, done), Top("publish")
    PROVE  \E k \in Nat \ {0} :
              /\ Len(stack) = 2 * k - 1 /\ Changes(stack) = 1 .. k
              /\ stack # <<>> /\ IsStack(stack)
              /\ Head(stack) = Change(stack, k)
              /\ Head(stack) \in PublishFrames /\ ChangeFits(Head(stack))
<1>1. stack # <<>> /\ IsStack(stack) /\ Head(stack).kind = "publish"
  BY StackIsStack DEF Top
<1>2. PICK k \in Nat \ {0} :
         /\ Changes(stack) = 1 .. k
         /\ \/ Len(stack) = 2 * k - 1 /\ Head(stack) = Change(stack, k)
            \/ Len(stack) = 2 * k /\ Head(stack) = Copies(stack, k)
  BY <1>1, LastChange
<1>3. k \in Changes(stack)
  BY <1>2
<1>4. LevelFits(stack, k)
  BY <1>3 DEF Spreads
<1>5. ~(Len(stack) = 2 * k /\ Head(stack) = Copies(stack, k))
  BY <1>1, <1>4 DEF LevelFits, HeardAt, CopiedAt
<1> QED
  BY <1>1, <1>2, <1>3, <1>4, <1>5, FramesTyped DEF LevelFits

\* ... and when something is above it.
LEMMA ChangeBelowTop ==
    ASSUME StackInv, NEW done, Spreads(stack, done), stack # <<>>, Head(stack).kind # "publish"
    PROVE  \E k \in Nat \ {0} :
              /\ Len(stack) = 2 * k /\ Changes(stack) = 1 .. k /\ IsStack(stack)
              /\ Head(stack) = Copies(stack, k) /\ ChangeFits(Change(stack, k))
              /\ HeardAt(stack, k) \/ CopiedAt(stack, k)
              /\ Head(stack).kind = "sync" => Head(stack) \in SyncFrames /\ CopiedAt(stack, k)
              /\ Change(stack, k) \in PublishFrames
<1>1. IsStack(stack)
  BY StackIsStack
<1>2. PICK k \in Nat \ {0} :
         /\ Changes(stack) = 1 .. k
         /\ \/ Len(stack) = 2 * k - 1 /\ Head(stack) = Change(stack, k)
            \/ Len(stack) = 2 * k /\ Head(stack) = Copies(stack, k)
  BY <1>1, LastChange
<1>3. k \in Changes(stack)
  BY <1>2
<1>4. LevelFits(stack, k)
  BY <1>3 DEF Spreads
<1>5. Len(stack) = 2 * k /\ Head(stack) = Copies(stack, k)
  BY <1>2, <1>4 DEF LevelFits, ChangeFits
<1>6. Change(stack, k) \in PublishFrames /\ (Head(stack).kind = "sync" => Head(stack) \in SyncFrames)
  BY <1>3, <1>5, FramesTyped
<1> QED
  BY <1>1, <1>2, <1>4, <1>5, <1>6 DEF LevelFits, HeardAt

\* The changes of a branch whose last one is k.
LEMMA ChangesUpTo ==
    ASSUME NEW s, NEW k \in Nat \ {0}, Len(s) = 2 * k - 1 \/ Len(s) = 2 * k
    PROVE  Changes(s) = 1 .. k
  BY DEF Changes

-----------------------------------------------------------------------------
(* The steps of a propagation. *)

\* A handler that hears of the change on top is called, or passed over.
LEMMA DeliverSpreads ==
    ASSUME StackInv, NEW done, Spreads(stack, done), Deliver
    PROVE  Spreads(stack', done)
<1>1. Top("publish")
  BY DEF Deliver
<1>2. PICK k \in Nat \ {0} :
         /\ Len(stack) = 2 * k - 1 /\ Changes(stack) = 1 .. k
         /\ stack # <<>> /\ IsStack(stack)
         /\ Head(stack) = Change(stack, k)
         /\ Head(stack) \in PublishFrames /\ ChangeFits(Head(stack))
  BY <1>1, ChangeOnTop
<1>3. PICK id \in Head(stack).ids :
         LET rest == <<[Head(stack) EXCEPT !.ids = @ \ {id}]>> \o Tail(stack)
         IN  \/ stack' = <<[kind |-> "handler", id |-> id]>> \o rest
             \/ stack' = rest
  BY DEF Deliver
<1> DEFINE g == [Head(stack) EXCEPT !.ids = @ \ {id}]
           h == [kind |-> "handler", id |-> id]
<1>4. /\ g.kind = "publish" /\ g.type = Head(stack).type /\ g.channel = Head(stack).channel
      /\ g.source = Head(stack).source /\ ~g.synced
  BY <1>2 DEF PublishFrames, ChangeFits
<1>5. h.kind = "handler"
  OBVIOUS
<1>6. stack' = Push(h, Push(g, Tail(stack))) \/ stack' = Push(g, Tail(stack))
  BY <1>3 DEF Push
<1>7. ChangeFits(g)
  BY <1>2, <1>4 DEF ChangeFits
<1> HIDE DEF g, h
<1>8. /\ stack' # <<>> /\ Shared(stack, stack', 2 * k - 2) /\ Bottom(stack', 2 * k - 1) = g
      /\ \/ Len(stack') = 2 * k - 1
         \/ Len(stack') = 2 * k /\ Bottom(stack', 2 * k) = h
  <2>1. Len(stack) - 1 = 2 * k - 2 /\ Len(stack) + 1 = 2 * k
    BY <1>2
  <2>2. CASE stack' = Push(g, Tail(stack))
    <3>1. /\ stack' # <<>> /\ Len(stack') = Len(stack) /\ Shared(stack, stack', Len(stack) - 1)
          /\ Bottom(stack', Len(stack)) = g
      BY <1>2, <2>2, TopReplaced
    <3> QED
      BY <1>2, <2>1, <3>1
  <2>3. CASE stack' = Push(h, Push(g, Tail(stack)))
    <3>1. /\ stack' # <<>> /\ Len(stack') = Len(stack) + 1
          /\ Shared(stack, stack', Len(stack) - 1)
          /\ Bottom(stack', Len(stack)) = g /\ Bottom(stack', Len(stack) + 1) = h
      BY <1>2, <2>3, TopCalls
    <3> QED
      BY <1>2, <2>1, <3>1
  <2> QED
    BY <1>6, <2>2, <2>3
<1>9. Len(stack') \in Nat /\ Len(stack) \in Nat /\ Changes(stack') = 1 .. k
  <2>1. Len(stack') \in Nat /\ Len(stack) \in Nat
    BY <1>2, <1>8
  <2> QED
    BY <1>8, <2>1, ChangesUpTo
<1>10. Change(stack', k) = g /\ (Len(stack') = 2 * k => Copies(stack', k) = h)
  BY <1>8 DEF Change, Copies
<1>11. LevelFits(stack', k)
  <2>1. k + 1 \notin Changes(stack')
    BY <1>9
  <2>2. 2 * k <= Len(stack') => HeardAt(stack', k)
    BY <1>4, <1>5, <1>8, <1>10 DEF HeardAt
  <2> QED
    BY <1>7, <1>10, <2>1, <2>2 DEF LevelFits
<1>12. /\ Change(stack', k).source = Change(stack, k).source
       /\ Change(stack', k).channel = Change(stack, k).channel
       /\ ~Change(stack', k).synced
  BY <1>2, <1>4, <1>10
<1>13. done \subseteq {WayEnd(way) : way \in AllWays(stack)}
  BY DEF Spreads
<1> QED
  BY <1>2, <1>8, <1>9, <1>11, <1>12, <1>13, RespreadSame

\* A handler of the change returns.
LEMMA HandlerReturnSpreads ==
    ASSUME StackInv, NEW done, Spreads(stack, done), HandlerReturn
    PROVE  Spreads(stack', done)
<1>1. stack # <<>> /\ Head(stack).kind = "handler" /\ stack' = Tail(stack)
  BY DEF HandlerReturn, Top
<1>2. PICK k \in Nat \ {0} :
         /\ Len(stack) = 2 * k /\ Changes(stack) = 1 .. k /\ IsStack(stack)
         /\ Head(stack) = Copies(stack, k) /\ ChangeFits(Change(stack, k))
         /\ HeardAt(stack, k) \/ CopiedAt(stack, k)
  BY <1>1, ChangeBelowTop
<1>3. ~Change(stack, k).synced
  BY <1>1, <1>2 DEF HeardAt, CopiedAt
<1>4. Len(stack') = 2 * k - 1 /\ Shared(stack, stack', 2 * k - 1)
  <2>1. Len(stack') = Len(stack) - 1 /\ Shared(stack, stack', Len(stack) - 1)
    BY <1>1, <1>2, TopPopped
  <2> QED
    BY <1>2, <2>1
<1>5. Shared(stack, stack', 2 * k - 2)
  BY <1>4 DEF Shared
<1>6. Len(stack') \in Nat /\ Len(stack) \in Nat /\ Changes(stack') = 1 .. k /\ stack' # <<>>
  <2>1. Len(stack') \in Nat /\ Len(stack) \in Nat
    BY <1>2, <1>4
  <2> QED
    BY <1>4, <2>1, ChangesUpTo
<1>7. Change(stack', k) = Change(stack, k)
  BY <1>4, <1>6, SharedLevels
<1>8. LevelFits(stack', k)
  <2>1. k + 1 \notin Changes(stack')
    BY <1>6
  <2> QED
    BY <1>2, <1>4, <1>7, <2>1 DEF LevelFits
<1>9. done \subseteq {WayEnd(way) : way \in AllWays(stack)}
  BY DEF Spreads
<1> QED
  BY <1>2, <1>3, <1>5, <1>6, <1>7, <1>8, <1>9, RespreadSame

\* The next subscription of a way that has come through the first k changes: it
\* leads on from the last of them, to none of their objects.
LEMMA WayGoesOn ==
    ASSUME StackInv, Inherited, NEW done, Spreads(stack, done),
           NEW way \in AllWays(stack), NEW k \in Changes(stack), k \in 1 .. Len(way),
           Through(way, k, stack)
    PROVE  /\ way[k] \in Subscribed
           /\ way[k].source = Change(stack, k).source
           /\ way[k].sourceChannel = Change(stack, k).channel
           /\ \A l \in 1 .. k : way[k].target # Change(stack, l).source
<1>1. 1 \in Changes(stack) /\ k \in Nat \ {0}
  BY StackFitsNow DEF Changes
<1>2. Change(stack, 1).source \in Nodes
  BY <1>1, FramesTyped DEF PublishFrames
<1>3. way \in Seq(Subscribed) /\ IsWay(way, Change(stack, 1).source, Change(stack, 1).channel)
  BY <1>2, WaysAre DEF Inherited, AllWays
<1>4. way[k] \in Subscribed
  BY <1>3
<1>5. CASE k = 1
  <2>1. \A l \in 1 .. k : l = 1
    BY <1>5
  <2> QED
    BY <1>3, <1>4, <1>5, <2>1 DEF IsWay
<1>6. CASE k # 1
  <2>1. k - 1 \in 1 .. Len(way) - 1 /\ k - 1 + 1 = k /\ k - 1 \in 1 .. Len(way)
    BY <1>1, <1>3, <1>6
  <2>2. way[k - 1].target = way[k].source /\ way[k - 1].targetChannel = way[k].sourceChannel
    BY <1>3, <2>1 DEF IsWay
  <2>3. way[k - 1].target = Change(stack, k).source /\ way[k - 1].targetChannel = Change(stack, k).channel
    <3>1. k - 1 \in 1 .. k - 1
      BY <1>1, <1>6
    <3> QED
      BY <2>1, <3>1 DEF Through
  <2>4. ASSUME NEW l \in 1 .. k
        PROVE  way[k].target # Change(stack, l).source
    <3>1. CASE l = 1
      BY <1>3, <3>1 DEF IsWay
    <3>2. CASE l # 1
      <4>1. l - 1 \in 1 .. k - 1 /\ l - 1 + 1 = l /\ l - 1 \in 1 .. Len(way) /\ l - 1 # k
        BY <1>1, <1>3, <3>2
      <4>2. way[l - 1].target = Change(stack, l).source
        BY <4>1 DEF Through
      <4> QED
        BY <1>3, <4>1, <4>2 DEF IsWay
    <3> QED
      BY <3>1, <3>2
  <2> QED
    BY <1>4, <2>2, <2>3, <2>4
<1> QED
  BY <1>5, <1>6

\* The copies of the change on top begin: every way through it goes on by one of
\* the subscriptions in the index.
LEMMA StartSyncSpreads ==
    ASSUME StackInv, Inherited, NEW done, Spreads(stack, done), StartSync
    PROVE  Spreads(stack', done)
<1> DEFINE change == Head(stack)
           f == [kind |-> "sync", source |-> change.source, from |-> change.channel,
                 ids |-> channelsBySource[<<change.source, change.channel>>],
                 target |-> NoNode, channel |-> NoChannel, phase |-> "choose"]
           g == [change EXCEPT !.synced = TRUE]
<1>1. Top("publish") /\ change.ids = {} /\ stack' = Push(f, Push(g, Tail(stack)))
  BY DEF StartSync, Push
<1>2. PICK k \in Nat \ {0} :
         /\ Len(stack) = 2 * k - 1 /\ Changes(stack) = 1 .. k
         /\ stack # <<>> /\ IsStack(stack)
         /\ Head(stack) = Change(stack, k)
         /\ Head(stack) \in PublishFrames /\ ChangeFits(Head(stack))
  BY <1>1, ChangeOnTop
<1>3. change.source \in Nodes /\ change.channel \in Channels
  BY <1>2 DEF PublishFrames, ChangeFits
<1>4. /\ g.kind = "publish" /\ g.type = change.type /\ g.channel = change.channel
      /\ g.source = change.source /\ g.synced /\ g.ids = {}
  BY <1>1, <1>2 DEF PublishFrames
<1>5. /\ f.kind = "sync" /\ f.source = change.source /\ f.from = change.channel
      /\ f.phase = "choose" /\ f.ids = channelsBySource[<<change.source, change.channel>>]
  OBVIOUS
<1>6. \A id \in Registry!Ids :
         id \in f.ids <=> /\ channels[id] # NoSub /\ channels[id].source = change.source
                          /\ channels[id].sourceChannel = change.channel
  BY <1>3, <1>5 DEF Inherited, Registry!IndexesAgree, Registry!ChannelIndexesAgree
<1>7. f.ids \subseteq Registry!Ids
  BY <1>3, <1>5 DEF Inherited, Registry!TypeOK
<1>8. ChangeFits(g)
  BY <1>2, <1>4 DEF ChangeFits
<1> HIDE DEF f, g
<1>9. /\ stack' # <<>> /\ Shared(stack, stack', 2 * k - 2)
      /\ Bottom(stack', 2 * k - 1) = g /\ Bottom(stack', 2 * k) = f
      /\ Len(stack') = 2 * k
  <2>1. Len(stack) - 1 = 2 * k - 2 /\ Len(stack) + 1 = 2 * k
    BY <1>2
  <2>2. /\ stack' # <<>> /\ Len(stack') = Len(stack) + 1
        /\ Shared(stack, stack', Len(stack) - 1)
        /\ Bottom(stack', Len(stack)) = g /\ Bottom(stack', Len(stack) + 1) = f
    BY <1>1, <1>2, TopCalls
  <2> QED
    BY <1>2, <2>1, <2>2
<1>10. Len(stack') \in Nat /\ Len(stack) \in Nat /\ Changes(stack') = 1 .. k
  <2>1. Len(stack') \in Nat /\ Len(stack) \in Nat
    BY <1>2, <1>9
  <2> QED
    BY <1>9, <2>1, ChangesUpTo
<1>11. Change(stack', k) = g /\ Copies(stack', k) = f
  BY <1>9 DEF Change, Copies
<1>12. LevelFits(stack', k)
  <2>1. k + 1 \notin Changes(stack')
    BY <1>10
  <2>2. CopiedAt(stack', k)
    BY <1>4, <1>5, <1>6, <1>7, <1>11, <2>1 DEF CopiedAt
  <2> QED
    BY <1>8, <1>11, <2>1, <2>2 DEF LevelFits
<1>13. ASSUME NEW way \in AllWays(stack), k \in 1 .. Len(way), PendingAt(way, k, stack)
       PROVE  ToFollow(way, k, stack')
  <2>1. /\ way[k] \in Subscribed /\ way[k].source = change.source
        /\ way[k].sourceChannel = change.channel
    BY <1>2, <1>13, WayGoesOn DEF PendingAt
  <2>2. PICK id \in Registry!Ids : channels[id] = way[k] /\ channels[id] # NoSub
    BY <2>1 DEF Subscribed
  <2>3. id \in f.ids
    BY <1>6, <2>1, <2>2
  <2> QED
    BY <1>5, <1>9, <1>11, <2>2, <2>3 DEF ToFollow
<1>14. /\ Change(stack', k).source = Change(stack, k).source
       /\ Change(stack', k).channel = Change(stack, k).channel
  BY <1>2, <1>4, <1>11
<1>15. done \subseteq {WayEnd(way) : way \in AllWays(stack)}
  BY DEF Spreads
<1> QED
  BY <1>2, <1>9, <1>10, <1>12, <1>13, <1>14, <1>15, RespreadSame

\* The loop on top goes on with its frame as g.
LEMMA LoopGoesOn ==
    ASSUME StackInv, NEW done, Spreads(stack, done), NEW k \in Nat \ {0},
           stack # <<>>, IsStack(stack), Len(stack) = 2 * k, Changes(stack) = 1 .. k,
           NEW g, stack' = Push(g, Tail(stack))
    PROVE  /\ stack' # <<>> /\ Shared(stack, stack', 2 * k - 2)
           /\ Len(stack') = 2 * k /\ Len(stack) \in Nat /\ Len(stack') \in Nat
           /\ Changes(stack') = 1 .. k /\ k + 1 \notin Changes(stack')
           /\ \A l \in 1 .. k : Change(stack', l) = Change(stack, l)
           /\ Copies(stack', k) = g
<1>1. /\ stack' # <<>> /\ Len(stack') = 2 * k /\ Shared(stack, stack', 2 * k - 1)
      /\ Bottom(stack', 2 * k) = g
  <2>1. /\ stack' # <<>> /\ Len(stack') = Len(stack) /\ Shared(stack, stack', Len(stack) - 1)
        /\ Bottom(stack', Len(stack)) = g
    BY TopReplaced
  <2> QED
    BY <2>1
<1>2. Len(stack) \in Nat /\ Len(stack') \in Nat
  BY <1>1
<1>3. Changes(stack') = 1 .. k
  BY <1>1, <1>2, ChangesUpTo
<1>4. Shared(stack, stack', 2 * k - 2)
  BY <1>1 DEF Shared
<1>5. \A l \in 1 .. k : Change(stack', l) = Change(stack, l)
  BY <1>1, <1>2, SharedLevels
<1> QED
  BY <1>1, <1>2, <1>3, <1>4, <1>5 DEF Copies

\* The loop of the change on top looks at its next subscription: it follows it unless
\* that leads to an object that the propagation has come through, to which no way
\* of it leads.
LEMMA NextBranchSpreads ==
    ASSUME StackInv, Inherited, Registry!SubscriptionsJoinAlive,
           NEW done, Spreads(stack, done), NextBranch
    PROVE  Spreads(stack', done)
<1>1. Top("sync") /\ Head(stack).phase = "choose" /\ stack # <<>> /\ Head(stack).kind = "sync"
  BY DEF NextBranch, Choosing, Top
<1>2. PICK k \in Nat \ {0} :
         /\ Len(stack) = 2 * k /\ Changes(stack) = 1 .. k /\ IsStack(stack)
         /\ Head(stack) = Copies(stack, k) /\ ChangeFits(Change(stack, k))
         /\ Head(stack) \in SyncFrames /\ CopiedAt(stack, k)
  BY <1>1, ChangeBelowTop
<1>3. PICK id \in Head(stack).ids :
         LET frame == [Head(stack) EXCEPT !.ids = @ \ {id}]
         IN  stack' = <<IF Follows(frame, id)
                        THEN [frame EXCEPT !.target = channels[id].target,
                                           !.channel = channels[id].targetChannel,
                                           !.phase = "reading"]
                        ELSE [frame EXCEPT !.target = NoNode]>> \o Tail(stack)
  BY DEF NextBranch
<1> DEFINE frame == [Head(stack) EXCEPT !.ids = @ \ {id}]
           copy == [frame EXCEPT !.target = channels[id].target,
                                 !.channel = channels[id].targetChannel,
                                 !.phase = "reading"]
           none == [frame EXCEPT !.target = NoNode]
           g == IF Follows(frame, id) THEN copy ELSE none
<1>4. stack' = Push(g, Tail(stack))
  BY <1>3 DEF Push
<1>5. id \in Registry!Ids /\ channels[id] # NoSub /\ channels[id].source = Head(stack).source
      /\ channels[id].sourceChannel = Head(stack).from
  BY <1>2 DEF CopiedAt, SyncFrames
<1>6. /\ channels[id] = [source |-> Head(stack).source, sourceChannel |-> Head(stack).from,
                         target |-> channels[id].target, targetChannel |-> channels[id].targetChannel]
      /\ channels[id] \in Subscribed
  BY <1>5 DEF Inherited, Registry!TypeOK, Registry!ChannelSubscription, Subscribed
<1>7. frame.source = Head(stack).source /\ frame.ids = Head(stack).ids \ {id}
  BY <1>2 DEF SyncFrames
<1>8. Follows(frame, id) <=> channels[id].target \notin {Change(stack, l).source : l \in 1 .. k}
  <2>1. state[frame.source] = "Active" /\ state[channels[id].target] = "Active"
    BY <1>5, <1>7, LinksAreActive
  <2>2. ChannelPath(Tail(stack)) = {Change(stack, l).source : l \in 1 .. k}
    BY <1>2, PathIsSources
  <2> QED
    BY <1>5, <1>7, <2>1, <2>2 DEF Follows
<1>9. /\ g.kind = "sync" /\ g.source = Head(stack).source /\ g.from = Head(stack).from
      /\ g.ids = Head(stack).ids \ {id}
  BY <1>1, <1>2 DEF SyncFrames
<1>10. Follows(frame, id) =>
          /\ g.target = channels[id].target /\ g.channel = channels[id].targetChannel
          /\ g.phase = "reading"
  BY <1>2 DEF SyncFrames
<1>11. ~Follows(frame, id) => g.phase = "choose"
  BY <1>1, <1>2 DEF SyncFrames
<1> HIDE DEF g
<1>12. /\ stack' # <<>> /\ Shared(stack, stack', 2 * k - 2)
       /\ Len(stack') = 2 * k /\ Len(stack) \in Nat /\ Len(stack') \in Nat
       /\ Changes(stack') = 1 .. k /\ k + 1 \notin Changes(stack')
       /\ \A l \in 1 .. k : Change(stack', l) = Change(stack, l)
       /\ Copies(stack', k) = g
  BY <1>1, <1>2, <1>4, LoopGoesOn
<1>13. Change(stack', k) = Change(stack, k)
  BY <1>12
<1>14. CopiedAt(stack', k)
  <2>1. CASE Follows(frame, id)
    <3>1. Leads(Head(stack).source, Head(stack).from, g.target, g.channel)
      BY <1>6, <1>10, <2>1 DEF Leads
    <3>2. \A l \in Changes(stack') : Change(stack', l).source # g.target
      BY <1>8, <1>10, <1>12, <2>1
    <3> QED
      BY <1>2, <1>9, <1>10, <1>12, <1>13, <2>1, <3>1, <3>2 DEF CopiedAt
  <2>2. CASE ~Follows(frame, id)
    BY <1>2, <1>9, <1>11, <1>12, <1>13, <2>2 DEF CopiedAt
  <2> QED
    BY <2>1, <2>2
<1>15. LevelFits(stack', k)
  BY <1>2, <1>12, <1>13, <1>14 DEF LevelFits
<1>16. ASSUME NEW way \in AllWays(stack), k \in 1 .. Len(way), PendingAt(way, k, stack)
       PROVE  ToFollow(way, k, stack') \/ Followed(way, k, stack')
  <2>1. PICK other \in Head(stack).ids : channels[other] = way[k]
    BY <1>1, <1>2, <1>16 DEF PendingAt, CopiedAt, ToFollow, Followed
  <2>2. CASE other = id
    <3>1. \A l \in 1 .. k : way[k].target # Change(stack, l).source
      BY <1>2, <1>16, WayGoesOn DEF PendingAt
    <3>2. Follows(frame, id)
      BY <1>8, <2>1, <2>2, <3>1
    <3> QED
      BY <1>9, <1>10, <1>12, <2>1, <2>2, <3>2 DEF Followed
  <2>3. CASE other # id
    BY <1>9, <1>12, <2>1, <2>3 DEF ToFollow
  <2> QED
    BY <2>2, <2>3
<1>17. done \subseteq {WayEnd(way) : way \in AllWays(stack)}
  BY DEF Spreads
<1> QED
  BY <1>2, <1>12, <1>13, <1>15, <1>16, <1>17, RespreadSame

\* What is copied is where a way ends: the way along the changes on the stack.
LEMMA CopyIsReached ==
    ASSUME StackInv, Inherited, NEW done, Spreads(stack, done),
           Top("sync"), Head(stack).phase # "choose"
    PROVE  <<Head(stack).target, Head(stack).channel>> \in {WayEnd(way) : way \in AllWays(stack)}
<1>1. stack # <<>> /\ Head(stack).kind = "sync"
  BY DEF Top
<1>2. PICK k \in Nat \ {0} :
         /\ Len(stack) = 2 * k /\ Changes(stack) = 1 .. k /\ IsStack(stack)
         /\ Head(stack) = Copies(stack, k) /\ CopiedAt(stack, k)
  BY <1>1, ChangeBelowTop
<1>3. /\ Leads(Change(stack, k).source, Change(stack, k).channel,
               Head(stack).target, Head(stack).channel)
      /\ \A l \in 1 .. k : Change(stack, l).source # Head(stack).target
  BY <1>2 DEF CopiedAt
<1>4. \A l \in 1 .. k - 1 :
         Leads(Change(stack, l).source, Change(stack, l).channel,
               Change(stack, l + 1).source, Change(stack, l + 1).channel)
  <2> SUFFICES ASSUME NEW l \in 1 .. k - 1
               PROVE  Leads(Change(stack, l).source, Change(stack, l).channel,
                            Change(stack, l + 1).source, Change(stack, l + 1).channel)
    OBVIOUS
  <2>1. l \in Changes(stack) /\ l + 1 \in Changes(stack)
    BY <1>2
  <2> QED
    BY <2>1 DEF Spreads, LevelFits
<1> DEFINE object(l) == IF l = k THEN Head(stack).target ELSE Change(stack, l + 1).source
           to(l) == IF l = k THEN Head(stack).channel ELSE Change(stack, l + 1).channel
           link(l) == [source |-> Change(stack, l).source, sourceChannel |-> Change(stack, l).channel,
                       target |-> object(l), targetChannel |-> to(l)]
           way == [l \in 1 .. k |-> link(l)]
<1>5. ASSUME NEW l \in 1 .. k
      PROVE  link(l) \in Subscribed
  <2>1. CASE l = k
    BY <1>3, <2>1 DEF Leads
  <2>2. CASE l # k
    <3>1. l \in 1 .. k - 1
      BY <2>2
    <3> QED
      BY <1>4, <2>2, <3>1 DEF Leads
  <2> QED
    BY <2>1, <2>2
<1>6. /\ way \in Seq(Subscribed) /\ Len(way) = k /\ way # <<>>
      /\ \A l \in 1 .. k : way[l] = link(l)
  <2> HIDE DEF link
  <2>1. way \in [1 .. k -> Subscribed]
    BY <1>5
  <2>2. way \in Seq(Subscribed) /\ Len(way) = k
    BY <2>1
  <2> QED
    BY <2>2
<1> HIDE DEF way
<1>7. IsWay(way, Change(stack, 1).source, Change(stack, 1).channel)
  <2>1. way[1].source = Change(stack, 1).source /\ way[1].sourceChannel = Change(stack, 1).channel
    BY <1>6
  <2>2. \A l \in 1 .. Len(way) - 1 :
           way[l].target = way[l + 1].source /\ way[l].targetChannel = way[l + 1].sourceChannel
    <3> SUFFICES ASSUME NEW l \in 1 .. k - 1
                 PROVE  /\ way[l].target = way[l + 1].source
                        /\ way[l].targetChannel = way[l + 1].sourceChannel
      BY <1>6
    <3>1. l # k /\ l \in 1 .. k /\ l + 1 \in 1 .. k
      BY <1>2
    <3>2. way[l] = link(l) /\ way[l + 1] = link(l + 1)
      BY <1>6, <3>1
    <3> QED
      BY <3>1, <3>2
  <2>3. \A l \in 1 .. k : way[l].target = object(l)
    BY <1>6
  <2>4. \A l, m \in 1 .. k : Change(stack, l).source = Change(stack, m).source => l = m
    BY <1>2 DEF Spreads, SourcesDiffer
  <2>5. \A l, m \in 1 .. k : l # m => object(l) # object(m)
    BY <1>3, <2>4
  <2>6. \A l \in 1 .. k : object(l) # Change(stack, 1).source
    BY <1>3, <2>4
  <2> HIDE DEF object, to, link
  <2>7. \A l, m \in 1 .. Len(way) : l # m => way[l].target # way[m].target
    BY <1>6, <2>3, <2>5
  <2>8. \A l \in 1 .. Len(way) : way[l].target # Change(stack, 1).source
    BY <1>6, <2>3, <2>6
  <2> QED
    BY <1>6, <2>1, <2>2, <2>7, <2>8 DEF IsWay
<1>8. Change(stack, 1).source \in Nodes
  <2>1. 1 \in Changes(stack)
    BY <1>2
  <2> QED
    BY <2>1, FramesTyped DEF PublishFrames
<1>9. way \in AllWays(stack)
  BY <1>6, <1>7, <1>8, WaysAre DEF Inherited, AllWays
<1>10. WayEnd(way) = <<Head(stack).target, Head(stack).channel>>
  BY <1>6 DEF WayEnd
<1> QED
  BY <1>9, <1>10

\* ReadData calls the receiver, or WriteData returns: a way that ends where the data
\* has been written has been served.
LEMMA PhaseSpreads ==
    ASSUME StackInv, Inherited, NEW done, Spreads(stack, done), NEW more,
           Top("sync"), Head(stack).phase # "choose",
           NEW phase \in {"writing", "written"},
           EnterPhase(phase),
           done \subseteq more, more \subseteq {WayEnd(way) : way \in AllWays(stack)},
           phase = "written" => <<Head(stack).target, Head(stack).channel>> \in more
    PROVE  Spreads(stack', more)
<1>1. stack # <<>> /\ Head(stack).kind = "sync"
  BY DEF Top
<1>2. PICK k \in Nat \ {0} :
         /\ Len(stack) = 2 * k /\ Changes(stack) = 1 .. k /\ IsStack(stack)
         /\ Head(stack) = Copies(stack, k) /\ ChangeFits(Change(stack, k))
         /\ Head(stack) \in SyncFrames /\ CopiedAt(stack, k)
  BY <1>1, ChangeBelowTop
<1> DEFINE g == [Head(stack) EXCEPT !.phase = phase]
<1>3. /\ g.kind = "sync" /\ g.source = Head(stack).source /\ g.from = Head(stack).from
      /\ g.ids = Head(stack).ids /\ g.target = Head(stack).target
      /\ g.channel = Head(stack).channel /\ g.phase = phase
  BY <1>1, <1>2 DEF SyncFrames
<1>4. stack' = Push(g, Tail(stack))
  BY DEF Push, EnterPhase
<1> HIDE DEF g
<1>5. /\ stack' # <<>> /\ Shared(stack, stack', 2 * k - 2)
      /\ Len(stack') = 2 * k /\ Len(stack) \in Nat /\ Len(stack') \in Nat
      /\ Changes(stack') = 1 .. k /\ k + 1 \notin Changes(stack')
      /\ \A l \in 1 .. k : Change(stack', l) = Change(stack, l)
      /\ Copies(stack', k) = g
  BY <1>1, <1>2, <1>4, LoopGoesOn
<1>6. Change(stack', k) = Change(stack, k)
  BY <1>5
<1>7. CopiedAt(stack', k)
  BY <1>2, <1>3, <1>5, <1>6 DEF CopiedAt
<1>8. LevelFits(stack', k)
  BY <1>2, <1>5, <1>6, <1>7 DEF LevelFits
<1>9. ASSUME NEW way \in AllWays(stack), k \in 1 .. Len(way), PendingAt(way, k, stack)
      PROVE  WayEnd(way) \in more \/ ToFollow(way, k, stack') \/ Followed(way, k, stack')
  <2>1. ToFollow(way, k, stack) \/ Followed(way, k, stack)
    BY <1>2, <1>9 DEF PendingAt, CopiedAt
  <2>2. CASE ToFollow(way, k, stack)
    BY <1>2, <1>3, <1>5, <2>2 DEF ToFollow
  <2>3. CASE Followed(way, k, stack)
    <3>1. way[k].target = Head(stack).target /\ way[k].targetChannel = Head(stack).channel
      BY <1>2, <2>3 DEF Followed
    <3>2. CASE phase = "writing" \/ k < Len(way)
      BY <1>3, <1>5, <3>1, <3>2 DEF Followed
    <3>3. CASE phase = "written" /\ k = Len(way)
      BY <3>1, <3>3 DEF WayEnd
    <3> QED
      BY <1>9, <3>2, <3>3
  <2> QED
    BY <2>1, <2>2, <2>3
<1> QED
  BY <1>2, <1>5, <1>6, <1>8, <1>9, RespreadSame

\* The loop of a change has nothing more to follow.
LEMMA EndSyncSpreads ==
    ASSUME StackInv, NEW done, Spreads(stack, done), EndSync
    PROVE  Spreads(stack', done)
<1>1. Top("sync") /\ Head(stack).phase = "choose" /\ stack # <<>> /\ Head(stack).kind = "sync"
      /\ Head(stack).ids = {} /\ stack' = Tail(stack)
  BY DEF EndSync, Choosing, Top
<1>2. PICK k \in Nat \ {0} :
         /\ Len(stack) = 2 * k /\ Changes(stack) = 1 .. k /\ IsStack(stack)
         /\ Head(stack) = Copies(stack, k) /\ ChangeFits(Change(stack, k))
         /\ CopiedAt(stack, k)
  BY <1>1, ChangeBelowTop
<1>3. Len(stack') = 2 * k - 1 /\ Shared(stack, stack', 2 * k - 1)
  <2>1. Len(stack') = Len(stack) - 1 /\ Shared(stack, stack', Len(stack) - 1)
    BY <1>1, <1>2, TopPopped
  <2> QED
    BY <1>2, <2>1
<1>4. Shared(stack, stack', 2 * k - 2)
  BY <1>3 DEF Shared
<1>5. Len(stack') \in Nat /\ Len(stack) \in Nat /\ Changes(stack') = 1 .. k /\ stack' # <<>>
  <2>1. Len(stack') \in Nat /\ Len(stack) \in Nat
    BY <1>2, <1>3
  <2> QED
    BY <1>3, <2>1, ChangesUpTo
<1>6. Change(stack', k) = Change(stack, k)
  BY <1>3, <1>5, SharedLevels
<1>7. LevelFits(stack', k)
  <2>1. k + 1 \notin Changes(stack')
    BY <1>5
  <2> QED
    BY <1>2, <1>3, <1>6, <2>1 DEF LevelFits
<1>8. ASSUME NEW way, PendingAt(way, k, stack)
      PROVE  FALSE
  BY <1>1, <1>2, <1>8 DEF PendingAt, CopiedAt, ToFollow, Followed
<1>9. done \subseteq {WayEnd(way) : way \in AllWays(stack)}
  BY DEF Spreads
<1> QED
  BY <1>2, <1>4, <1>5, <1>6, <1>7, <1>8, <1>9, RespreadSame

\* A change that has been copied leaves no way behind that comes through it.
LEMMA NothingLeft ==
    ASSUME StackInv, NEW done, Spreads(stack, done), EndPublish
    PROVE  \E k \in Nat \ {0} :
              /\ Len(stack) = 2 * k - 1 /\ Changes(stack) = 1 .. k
              /\ IsStack(stack) /\ stack # <<>> /\ stack' = Tail(stack)
              /\ \A way : ~PendingAt(way, k, stack)
<1>1. Top("publish") /\ Head(stack).synced /\ stack' = Tail(stack)
  BY DEF EndPublish
<1>2. PICK k \in Nat \ {0} :
         /\ Len(stack) = 2 * k - 1 /\ Changes(stack) = 1 .. k
         /\ stack # <<>> /\ IsStack(stack)
         /\ Head(stack) = Change(stack, k)
  BY <1>1, ChangeOnTop
<1>3. ASSUME NEW way, PendingAt(way, k, stack)
      PROVE  FALSE
  BY <1>1, <1>2, <1>3 DEF PendingAt, ToFollow, Followed
<1> QED
  BY <1>1, <1>2, <1>3

\* The publish of a copied change ends inside of another one.
LEMMA EndPublishSpreads ==
    ASSUME StackInv, NEW done, Spreads(stack, done), EndPublish, stack' # <<>>
    PROVE  Spreads(stack', done)
<1>1. PICK k \in Nat \ {0} :
         /\ Len(stack) = 2 * k - 1 /\ Changes(stack) = 1 .. k
         /\ IsStack(stack) /\ stack # <<>> /\ stack' = Tail(stack)
         /\ \A way : ~PendingAt(way, k, stack)
  BY NothingLeft
<1>2. Len(stack') = 2 * k - 2 /\ Shared(stack, stack', 2 * k - 2) /\ IsStack(stack')
  <2>1. Len(stack') = Len(stack) - 1 /\ Shared(stack, stack', Len(stack) - 1) /\ IsStack(stack')
    BY <1>1, TopPopped
  <2> QED
    BY <1>1, <2>1
<1>3. k - 1 \in Nat \ {0} /\ Len(stack') \in Nat /\ Len(stack) \in Nat
  <2>1. Len(stack') # 0
    BY <1>2 DEF IsStack
  <2> QED
    BY <1>1, <1>2, <2>1
<1>4. Changes(stack') = 1 .. k - 1
  <2>1. Len(stack') = 2 * (k - 1)
    BY <1>2, <1>3
  <2> QED
    BY <1>3, <2>1, ChangesUpTo
<1>5. 1 \in Changes(stack') /\ k \notin Changes(stack') /\ Changes(stack') \subseteq 1 .. k
      /\ \A m \in Changes(stack') : ~(m >= k)
  BY <1>3, <1>4
<1>6. SourcesDiffer(stack')
  BY <1>1, <1>2, <1>3, <1>5, StillDiffer DEF Spreads
<1>7. done \subseteq {WayEnd(way) : way \in AllWays(stack)}
  BY DEF Spreads
<1> QED
  BY <1>1, <1>2, <1>3, <1>5, <1>6, <1>7, Respread

\* The publish of the outermost change ends when all its ways have been served.
LEMMA OutermostEnds ==
    ASSUME StackInv, NEW done, Spreads(stack, done), EndPublish, stack' = <<>>
    PROVE  done = Reached(Head(stack).source, Head(stack).channel)
<1>1. PICK k \in Nat \ {0} :
         /\ Len(stack) = 2 * k - 1 /\ Changes(stack) = 1 .. k
         /\ IsStack(stack) /\ stack # <<>> /\ stack' = Tail(stack)
         /\ \A way : ~PendingAt(way, k, stack)
  BY NothingLeft
<1>2. Len(stack') = Len(stack) - 1 /\ Bottom(stack, Len(stack)) = Head(stack)
  BY <1>1, TopPopped
<1>3. Len(stack') = 0
  OBVIOUS
<1>4. k = 1 /\ Len(stack) = 1
  BY <1>1, <1>2, <1>3
<1>5. Head(stack) = Change(stack, 1)
  BY <1>2, <1>4 DEF Change
<1>6. \A way \in AllWays(stack) : ~Pending(way, stack)
  <2>1. \A m \in Changes(stack) : m = k
    BY <1>1, <1>4
  <2> QED
    BY <1>1, <2>1 DEF Pending, PendingAt
<1>7. done = {WayEnd(way) : way \in AllWays(stack)}
  BY <1>6 DEF Spreads
<1> QED
  BY <1>5, <1>7 DEF Reached, AllWays, WayEnd

\* ReadData returns with a complete copy, and the target announces the change: the
\* ways that go on from there wait for it to be copied in turn.
LEMMA ReadSpreads ==
    ASSUME StackInv, Inherited, Registry!SubscriptionsJoinAlive,
           NEW done, Spreads(stack, done),
           ReadReturn(TRUE), Head(stack).phase = "written", ~LimitReached
    PROVE  Spreads(stack', done)
<1>1. Top("sync") /\ stack # <<>> /\ Head(stack).kind = "sync"
  BY DEF ReadReturn, InPhase, Top
<1>2. PICK k \in Nat \ {0} :
         /\ Len(stack) = 2 * k /\ Changes(stack) = 1 .. k /\ IsStack(stack)
         /\ Head(stack) = Copies(stack, k) /\ ChangeFits(Change(stack, k))
         /\ Head(stack) \in SyncFrames /\ CopiedAt(stack, k)
  BY <1>1, ChangeBelowTop
<1> DEFINE frame == Head(stack)
           f == [frame EXCEPT !.phase = "choose", !.channel = NoChannel]
           g == PublishFrame(frame.target, Changed, frame.channel, TRUE)
<1>3. /\ Leads(Change(stack, k).source, Change(stack, k).channel, frame.target, frame.channel)
      /\ \A l \in 1 .. k : Change(stack, l).source # frame.target
      /\ frame.source = Change(stack, k).source
  BY <1>2 DEF CopiedAt
<1>4. PICK id \in Registry!Ids :
         /\ channels[id] # NoSub
         /\ channels[id] = [source |-> Change(stack, k).source,
                            sourceChannel |-> Change(stack, k).channel,
                            target |-> frame.target, targetChannel |-> frame.channel]
  BY <1>3 DEF Leads, Subscribed
<1>5. state[frame.source] = "Active" /\ state[frame.target] = "Active"
  BY <1>3, <1>4, LinksAreActive
<1>6. frame.channel \in Channels
  BY <1>1, SyncOnTop
<1>7. ~Truncated(frame.target, Changed)
  <2>1. ASSUME NEW i \in FramesOf(stack, "publish")
        PROVE  stack[i].source # frame.target
    <3>1. i \in 1 .. Len(stack) /\ stack[i].kind = "publish"
      BY DEF FramesOf
    <3>2. PICK m \in Changes(stack) :
             \/ stack[i] = Change(stack, m)
             \/ 2 * m <= Len(stack) /\ stack[i] = Copies(stack, m)
      BY <1>2, <3>1, EveryFrame
    <3>3. LevelFits(stack, m)
      BY DEF Spreads
    <3>4. stack[i] = Change(stack, m)
      BY <3>1, <3>2, <3>3 DEF LevelFits, HeardAt, CopiedAt
    <3> QED
      BY <1>2, <1>3, <3>4
  <2> QED
    BY <2>1 DEF Truncated
<1>8. stack' = Push(g, Push(f, Tail(stack)))
  BY <1>5, <1>7 DEF ReadReturn, Raise, Push
<1>9. /\ f.kind = "sync" /\ f.source = frame.source /\ f.from = frame.from
      /\ f.ids = frame.ids /\ f.target = frame.target /\ f.phase = "choose"
  BY <1>1, <1>2 DEF SyncFrames
<1>10. /\ g.kind = "publish" /\ g.source = frame.target /\ g.type = Changed
       /\ g.channel = frame.channel /\ ~g.synced
  BY <1>6, ChannelsAssumption DEF PublishFrame
<1>11. ChangeFits(g)
  BY <1>6, <1>10, ChannelsAssumption DEF ChangeFits
<1> HIDE DEF f, g
<1>12. /\ stack' # <<>> /\ Shared(stack, stack', 2 * k - 1) /\ Len(stack') = 2 * k + 1
       /\ Bottom(stack', 2 * k) = f /\ Bottom(stack', 2 * k + 1) = g
  <2>1. /\ stack' # <<>> /\ Len(stack') = Len(stack) + 1
        /\ Shared(stack, stack', Len(stack) - 1)
        /\ Bottom(stack', Len(stack)) = f /\ Bottom(stack', Len(stack) + 1) = g
    BY <1>1, <1>2, <1>8, TopCalls
  <2> QED
    BY <1>2, <2>1
<1>13. Len(stack) \in Nat /\ Len(stack') \in Nat /\ k + 1 \in Nat \ {0} /\ k \in Changes(stack')
       /\ Changes(stack') = 1 .. k + 1 /\ 1 \in Changes(stack')
  <2>1. Len(stack) \in Nat /\ Len(stack') \in Nat /\ k + 1 \in Nat \ {0}
    BY <1>2, <1>12
  <2>2. Len(stack') = 2 * (k + 1) - 1
    BY <1>12
  <2>3. Changes(stack') = 1 .. k + 1
    BY <2>1, <2>2, ChangesUpTo
  <2> QED
    BY <2>1, <2>3
<1>14. Shared(stack, stack', 2 * k - 2)
  BY <1>12 DEF Shared
<1>15. \A l \in 1 .. k : Change(stack', l) = Change(stack, l)
  BY <1>12, <1>13, SharedLevels
<1>16. Copies(stack', k) = f /\ Change(stack', k + 1) = g
  <2>1. 2 * (k + 1) - 1 = 2 * k + 1
    OBVIOUS
  <2> QED
    BY <1>12, <2>1 DEF Copies, Change
<1>17. Change(stack', k) = Change(stack, k)
  BY <1>15
<1>18. LevelFits(stack', k)
  <2>1. CopiedAt(stack', k)
    BY <1>2, <1>9, <1>10, <1>16, <1>17 DEF CopiedAt
  <2>2. Leads(Change(stack', k).source, Change(stack', k).channel,
              Change(stack', k + 1).source, Change(stack', k + 1).channel)
    BY <1>3, <1>10, <1>16, <1>17
  <2> QED
    BY <1>2, <1>17, <2>1, <2>2 DEF LevelFits
<1>19. LevelFits(stack', k + 1)
  <2>1. k + 1 + 1 \notin Changes(stack')
    BY <1>13
  <2>2. ~(2 * (k + 1) <= Len(stack'))
    BY <1>12
  <2> QED
    BY <1>11, <1>16, <2>1, <2>2 DEF LevelFits
<1>20. \A m \in Changes(stack') : m >= k => LevelFits(stack', m)
  <2>1. \A m \in Changes(stack') : m >= k => m = k \/ m = k + 1
    BY <1>13
  <2> QED
    BY <1>18, <1>19, <2>1
<1>21. SourcesDiffer(stack')
  <2>1. \A m \in Changes(stack') : m = k + 1 \/ m \in 1 .. k
    BY <1>13
  <2>2. \A l \in 1 .. k : Change(stack', l).source # Change(stack', k + 1).source
    BY <1>3, <1>10, <1>15, <1>16
  <2>3. \A l, m \in 1 .. k : Change(stack', l).source = Change(stack', m).source => l = m
    BY <1>2, <1>15 DEF Spreads, SourcesDiffer
  <2> QED
    BY <2>1, <2>2, <2>3 DEF SourcesDiffer
<1>22. ASSUME NEW way \in AllWays(stack), k \in 1 .. Len(way), PendingAt(way, k, stack)
       PROVE  Pending(way, stack')
  <2>1. Through(way, k, stack')
    <3>1. Through(way, k, stack)
      BY <1>22 DEF PendingAt
    <3> QED
      BY <1>13, <1>14, <1>17, <3>1, ThroughKept
  <2>2. ToFollow(way, k, stack) \/ Followed(way, k, stack)
    BY <1>2, <1>22 DEF PendingAt, CopiedAt
  <2>3. CASE ToFollow(way, k, stack)
    <3>1. 2 * k <= Len(stack')
      BY <1>12
    <3>2. ToFollow(way, k, stack')
      BY <1>2, <1>9, <1>16, <2>3, <3>1 DEF ToFollow
    <3> QED
      BY <1>13, <1>22, <2>1, <3>2 DEF Pending, PendingAt
  <2>4. CASE Followed(way, k, stack)
    <3>1. /\ way[k].target = frame.target /\ way[k].targetChannel = frame.channel
          /\ k < Len(way)
      BY <1>2, <2>4 DEF Followed
    <3>2. Through(way, k + 1, stack')
      <4> SUFFICES ASSUME NEW j \in 1 .. k + 1 - 1
                   PROVE  /\ way[j].target = Change(stack', j + 1).source
                          /\ way[j].targetChannel = Change(stack', j + 1).channel
        BY DEF Through
      <4>1. CASE j = k
        BY <1>10, <1>16, <3>1, <4>1
      <4>2. CASE j # k
        <5>1. j \in 1 .. k - 1
          BY <4>2
        <5> QED
          BY <2>1, <5>1 DEF Through
      <4> QED
        BY <4>1, <4>2
    <3>3. k + 1 \in 1 .. Len(way) /\ k + 1 \in Changes(stack')
      BY <1>13, <1>22, <3>1
    <3>4. ~Change(stack', k + 1).synced
      BY <1>10, <1>16
    <3> QED
      BY <3>2, <3>3, <3>4 DEF Pending, PendingAt
  <2> QED
    BY <2>2, <2>3, <2>4
<1>23. done \subseteq {WayEnd(way) : way \in AllWays(stack)}
  BY DEF Spreads
<1> QED
  BY <1>2, <1>12, <1>13, <1>14, <1>17, <1>20, <1>21, <1>22, <1>23, Respread

-----------------------------------------------------------------------------
(* Every step of the kernel with its history. *)

\* The variables of the history leave the kernel its behaviours.
LEMMA HistoryIsKernel == SpecWithHistory => Spec
<1>1. InitWithHistory => Init
  BY DEF InitWithHistory
<1>2. [NextWithHistory]_varsWithHistory => [Next]_vars
  <2>1. NextWithHistory => Next
    BY DEF NextWithHistory, UserStepRemembered, Disturbance, ReceiveRemembered, WriteRemembered,
       ReadRemembered, OtherStep, Next, DataStep
  <2>2. UNCHANGED varsWithHistory => UNCHANGED vars
    BY DEF varsWithHistory
  <2> QED
    BY <2>1, <2>2
<1> QED
  BY <1>1, <1>2, PTL DEF SpecWithHistory, Spec

\* User code outside of any call begins the propagation of a change.
LEMMA UserStarts ==
    ASSUME Inherited, UserStep, stack = <<>>, stack' # <<>>, Propagates(stack')
    PROVE  channels' = channels /\ Spreads(stack', {})
<1>1. ASSUME NEW f, stack' = <<f>> \o stack
      PROVE  Len(stack') = 1 /\ Bottom(stack', 1) = f
  <2>1. stack' = Push(f, stack) /\ IsStack(stack) /\ Len(stack) = 0
    BY <1>1 DEF Push, IsStack
  <2>2. Len(stack') = Len(stack) + 1 /\ Bottom(stack', Len(stack) + 1) = f
    <3>1. Len(Push(f, stack)) = Len(stack) + 1 /\ Bottom(Push(f, stack), Len(stack) + 1) = f
      BY <2>1, TopPushed
    <3> QED
      BY <2>1, <3>1
  <2>3. Len(stack) + 1 = 1
    BY <2>1
  <2> QED
    BY <2>2, <2>3
<1>2. ASSUME NEW f, stack' = <<f>> \o stack
      PROVE  f.kind = "publish" /\ f.channel # NoChannel
  BY <1>1, <1>2 DEF Propagates
<1>3. ~(PointerOperation \/ SubscriptionOperation)
  BY DEF PointerOperation, SubscriptionOperation, SubscribeEvent, SubscribeChannel, Cancel, control
<1>4. ~EdgeOperation
  BY <1>2 DEF EdgeOperation, Connect, Disconnect
<1>5. PICK n \in Nodes, type \in UserTypes, channel \in Channels \cup {NoChannel},
           owned \in BOOLEAN : Publish(n, type, channel, owned)
  <2>1. ASSUME NEW n \in Nodes, Create(n) \/ Destroy(n)
        PROVE  stack' = stack
    BY <2>1 DEF Create, Destroy, control
  <2>2. ASSUME NEW n \in Nodes, Release(n)
        PROVE  FALSE
    BY <1>2, <2>2 DEF Release
  <2> QED
    BY <1>3, <1>4, <2>1, <2>2 DEF UserStep, NodeOperation
<1> DEFINE f == PublishFrame(n, type, channel, owned)
<1>6. stack' = <<f>> \o stack /\ channels' = channels
  BY <1>5 DEF Publish, Raise, tables, subscriptions
<1>7. ChangeFits(f) /\ ~f.synced
  <2>1. f.kind = "publish" /\ f.channel = channel /\ f.type = type /\ f.synced = (channel = NoChannel)
    BY DEF PublishFrame
  <2>2. channel # NoChannel
    BY <1>2, <1>6, <2>1
  <2>3. type = Changed
    BY <1>5, <2>2 DEF Publish
  <2> QED
    BY <2>1, <2>2, <2>3 DEF ChangeFits
<1> HIDE DEF f
<1>8. Len(stack') = 1 /\ Change(stack', 1) = f
  <2>1. Len(stack') = 1 /\ Bottom(stack', 1) = f
    BY <1>1, <1>6
  <2> QED
    BY <2>1 DEF Change
<1>9. Changes(stack') = {1}
  BY <1>8 DEF Changes
<1>10. LevelFits(stack', 1)
  BY <1>7, <1>8, <1>9 DEF LevelFits
<1>11. ASSUME NEW way \in AllWays(stack')
       PROVE  Pending(way, stack')
  <2>1. Len(way) \in Nat /\ Len(way) # 0
    <3>1. Cardinality(Subscribed) \in Nat
      BY SubscribedIsFinite DEF Inherited
    <3>2. PICK k \in 1 .. Cardinality(Subscribed) : way \in [1 .. k -> Subscribed]
      BY DEF AllWays, Ways
    <3>3. k \in Nat \ {0} /\ Len(way) = k
      BY <3>1, <3>2
    <3> QED
      BY <3>3
  <2>2. 1 \in 1 .. Len(way)
    BY <2>1
  <2>3. Through(way, 1, stack')
    BY DEF Through
  <2> QED
    BY <1>7, <1>8, <1>9, <2>2, <2>3 DEF Pending, PendingAt
<1> QED
  BY <1>6, <1>9, <1>10, <1>11 DEF Spreads, SourcesDiffer

\* The call at the bottom goes on as what it is.
LEMMA BottomStays ==
    ASSUME StackInv, stack # <<>>, stack' # <<>>,
           \/ stack' = Tail(stack)
           \/ \E f : /\ f.kind = Head(stack).kind
                     /\ f.kind = "publish" => f.channel = Head(stack).channel
                     /\ \/ stack' = Push(f, Tail(stack))
                        \/ \E g : stack' = Push(g, Push(f, Tail(stack)))
    PROVE  Propagates(stack') => Propagates(stack)
<1>1. IsStack(stack) /\ Len(stack) \in Nat \ {0} /\ Bottom(stack, Len(stack)) = Head(stack)
  BY StackIsStack, TopPopped
<1>2. CASE Len(stack) > 1
  <2>1. Shared(stack, stack', Len(stack) - 1)
    <3>1. CASE stack' = Tail(stack)
      BY <1>1, <3>1, TopPopped
    <3>2. ASSUME NEW f, stack' = Push(f, Tail(stack))
          PROVE  Shared(stack, stack', Len(stack) - 1)
      BY <1>1, <3>2, TopReplaced
    <3>3. ASSUME NEW f, NEW g, stack' = Push(g, Push(f, Tail(stack)))
          PROVE  Shared(stack, stack', Len(stack) - 1)
      BY <1>1, <3>3, TopCalls
    <3> QED
      BY <3>1, <3>2, <3>3
  <2>2. Bottom(stack', 1) = Bottom(stack, 1)
    BY <1>1, <1>2, <2>1 DEF Shared
  <2> QED
    BY <2>2 DEF Propagates
<1>3. CASE Len(stack) = 1
  <2>1. stack' # Tail(stack)
    <3>1. IsStack(Tail(stack)) /\ Len(Tail(stack)) = Len(stack) - 1
      BY <1>1, TopPopped
    <3> QED
      BY <1>3, <3>1 DEF IsStack
  <2>2. PICK f : /\ f.kind = Head(stack).kind
                 /\ f.kind = "publish" => f.channel = Head(stack).channel
                 /\ \/ stack' = Push(f, Tail(stack))
                    \/ \E g : stack' = Push(g, Push(f, Tail(stack)))
    BY <2>1
  <2>3. Bottom(stack', Len(stack)) = f
    <3>1. CASE stack' = Push(f, Tail(stack))
      BY <1>1, <3>1, TopReplaced
    <3>2. ASSUME NEW g, stack' = Push(g, Push(f, Tail(stack)))
          PROVE  Bottom(stack', Len(stack)) = f
      BY <1>1, <3>2, TopCalls
    <3> QED
      BY <2>2, <3>1, <3>2
  <2> QED
    BY <1>1, <1>3, <2>2, <2>3 DEF Propagates
<1>4. Len(stack) > 1 \/ Len(stack) = 1
  <2>1. \A n \in Nat \ {0} : n > 1 \/ n = 1
    OBVIOUS
  <2> QED
    BY <1>1, <2>1
<1> QED
  BY <1>2, <1>3, <1>4

\* A call that is no change of a channel does not become one.
LEMMA OthersStay ==
    ASSUME StackInv, stack # <<>>, stack' # <<>>, HandlerReturn \/ DataStep \/ RuntimeStep
    PROVE  Propagates(stack') => Propagates(stack)
<1>0. Head(stack) \in Frames
  BY StackFitsNow, Popped
<1>1. CASE HandlerReturn \/ EndSync \/ EndPublish \/ \E n \in Nodes : EndRelease(n)
  BY <1>1, BottomStays DEF HandlerReturn, EndSync, EndPublish, EndRelease
<1>2. ASSUME NEW f, f.kind = Head(stack).kind, f.kind = "publish" => f.channel = Head(stack).channel,
             stack' = <<f>> \o Tail(stack) \/ \E g : stack' = <<g>> \o (<<f>> \o Tail(stack))
      PROVE  Propagates(stack') => Propagates(stack)
  <2>1. stack' = Push(f, Tail(stack)) \/ \E g : stack' = Push(g, Push(f, Tail(stack)))
    BY <1>2 DEF Push
  <2> QED
    BY <1>2, <2>1, BottomStays
<1>3. CASE Deliver
  <2>1. Head(stack) \in PublishFrames
    BY <1>0, <1>3 DEF Deliver, Top, Frames, HandlerFrames, PublishFrames, SyncFrames,
       ConnectFrames, ReleaseFrames
  <2>2. PICK id \in Head(stack).ids :
           LET rest == <<[Head(stack) EXCEPT !.ids = @ \ {id}]>> \o Tail(stack)
           IN  \/ stack' = <<[kind |-> "handler", id |-> id]>> \o rest
               \/ stack' = rest
    BY <1>3 DEF Deliver
  <2> DEFINE f == [Head(stack) EXCEPT !.ids = @ \ {id}]
  <2>3. f.kind = Head(stack).kind /\ f.channel = Head(stack).channel
    BY <2>1 DEF PublishFrames
  <2>4. stack' = <<f>> \o Tail(stack) \/ \E g : stack' = <<g>> \o (<<f>> \o Tail(stack))
    BY <2>2
  <2> HIDE DEF f
  <2> QED
    BY <1>2, <2>3, <2>4
<1>4. CASE StartSync
  <2>1. Head(stack) \in PublishFrames
    BY <1>0, <1>4 DEF StartSync, Top, Frames, HandlerFrames, PublishFrames, SyncFrames,
       ConnectFrames, ReleaseFrames
  <2> DEFINE f == [Head(stack) EXCEPT !.synced = TRUE]
  <2>2. f.kind = Head(stack).kind /\ f.channel = Head(stack).channel
    BY <2>1 DEF PublishFrames
  <2>3. \E g : stack' = <<g>> \o (<<f>> \o Tail(stack))
    BY <1>4 DEF StartSync
  <2> HIDE DEF f
  <2> QED
    BY <1>2, <2>2, <2>3
<1>5. CASE NextBranch \/ DataStep
  <2>1. Head(stack) \in SyncFrames /\ Head(stack).kind = "sync"
    BY <1>5, SyncOnTop DEF NextBranch, Choosing, DataStep, Receive, WriteReturn, ReadReturn, InPhase
  <2>2. PICK f : /\ f.kind = "sync"
                 /\ stack' = <<f>> \o Tail(stack) \/ \E g : stack' = <<g>> \o (<<f>> \o Tail(stack))
    <3>1. CASE NextBranch
      <4>1. PICK id, f : /\ f = LET frame == [Head(stack) EXCEPT !.ids = @ \ {id}]
                                IN  IF Follows(frame, id)
                                    THEN [frame EXCEPT !.target = channels[id].target,
                                                       !.channel = channels[id].targetChannel,
                                                       !.phase = "reading"]
                                    ELSE [frame EXCEPT !.target = NoNode]
                         /\ stack' = <<f>> \o Tail(stack)
        BY <3>1 DEF NextBranch
      <4>2. f.kind = "sync"
        BY <2>1, <4>1 DEF SyncFrames
      <4> QED
        BY <4>1, <4>2
    <3>2. ASSUME NEW phase, EnterPhase(phase)
          PROVE  \E f : f.kind = "sync" /\ stack' = <<f>> \o Tail(stack)
      <4> DEFINE f == [Head(stack) EXCEPT !.phase = phase]
      <4>1. f.kind = "sync" /\ stack' = <<f>> \o Tail(stack)
        BY <2>1, <3>2 DEF EnterPhase, SyncFrames
      <4> QED
        BY <4>1
    <3>3. ASSUME NEW ok \in BOOLEAN, ReadReturn(ok)
          PROVE  \E f : /\ f.kind = "sync"
                        /\ stack' = <<f>> \o Tail(stack) \/ \E g : stack' = <<g>> \o (<<f>> \o Tail(stack))
      <4> DEFINE next == [Head(stack) EXCEPT !.phase = "choose", !.channel = NoChannel]
                 none == [next EXCEPT !.target = NoNode]
      <4>1. next.kind = "sync" /\ none.kind = "sync"
        BY <2>1 DEF SyncFrames
      <4>2. \/ stack' = <<next>> \o Tail(stack)
            \/ stack' = <<none>> \o Tail(stack)
            \/ \E g : stack' = <<g>> \o (<<next>> \o Tail(stack))
        BY <3>3 DEF ReadReturn, Raise
      <4> HIDE DEF next, none
      <4> QED
        BY <4>1, <4>2
    <3> QED
      BY <1>5, <3>1, <3>2, <3>3 DEF DataStep, Receive, WriteReturn
  <2> QED
    BY <1>2, <2>1, <2>2
<1>6. CASE ChildEvent
  <2>1. Head(stack) \in ConnectFrames
    BY <1>0, <1>6 DEF ChildEvent, Top, Frames, HandlerFrames, PublishFrames, SyncFrames,
       ConnectFrames, ReleaseFrames
  <2> DEFINE f == [Head(stack) EXCEPT !.todo = Tail(@)]
  <2>2. f.kind = "connect" /\ Head(stack).kind = "connect"
    BY <2>1 DEF ConnectFrames
  <2>3. \/ stack' = Tail(stack)
        \/ stack' = <<f>> \o Tail(stack)
        \/ \E g : stack' = <<g>> \o (<<f>> \o Tail(stack))
    BY <1>6 DEF ChildEvent, Raise
  <2> HIDE DEF f
  <2>4. stack' = Tail(stack) => (Propagates(stack') => Propagates(stack))
    BY BottomStays
  <2> QED
    BY <1>2, <2>2, <2>3, <2>4
<1>7. CASE ReleaseEvent
  <2>1. Head(stack) \in ReleaseFrames
    BY <1>0, <1>7 DEF ReleaseEvent, Top, Frames, HandlerFrames, PublishFrames, SyncFrames,
       ConnectFrames, ReleaseFrames
  <2>2. PICK f : /\ \/ \E e : f = [Head(stack) EXCEPT !.parents = @ \ {e}]
                    \/ \E name : f = [Head(stack) EXCEPT !.names = @ \ {name}]
                    \/ f = [Head(stack) EXCEPT !.announced = TRUE]
                 /\ stack' = <<f>> \o Tail(stack) \/ \E g : stack' = <<g>> \o (<<f>> \o Tail(stack))
    BY <1>7 DEF ReleaseEvent, Raise
  <2>3. f.kind = "release" /\ Head(stack).kind = "release"
    BY <2>1, <2>2 DEF ReleaseFrames
  <2> QED
    BY <1>2, <2>2, <2>3
<1> QED
  BY <1>1, <1>3, <1>4, <1>5, <1>6, <1>7 DEF RuntimeStep

\* Steps within a propagation.
LEMMA PropagationGoesOn ==
    ASSUME StackInv, Inherited, Registry!SubscriptionsJoinAlive,
           Spreads(stack, copied), undisturbed', stack' # <<>>,
           ReceiveRemembered \/ WriteRemembered \/ ReadRemembered \/ OtherStep
    PROVE  channels' = channels /\ Spreads(stack', copied')
<1>1. copied \subseteq {WayEnd(way) : way \in AllWays(stack)}
  BY DEF Spreads
<1>2. CASE ReceiveRemembered
  <2>1. copied' = copied /\ Receive /\ Head(stack').phase = "writing"
    BY <1>2 DEF ReceiveRemembered, Remember
  <2>2. /\ Top("sync") /\ Head(stack).phase \in {"reading", "written"} /\ channels' = channels
    BY <2>1 DEF Receive, InPhase, EnterPhase, tables, subscriptions
  <2>3. EnterPhase("writing")
    <3>1. PICK phase \in {"writing", "failed"} : EnterPhase(phase)
      BY <2>1 DEF Receive
    <3> DEFINE g == [Head(stack) EXCEPT !.phase = phase]
    <3>2. stack # <<>> /\ IsStack(stack) /\ Head(stack) \in SyncFrames
      BY <2>2, StackIsStack, SyncOnTop
    <3>3. g.phase = phase
      BY <3>2 DEF SyncFrames
    <3>4. stack' = Push(g, Tail(stack))
      BY <3>1 DEF EnterPhase, Push
    <3> HIDE DEF g
    <3>5. Head(stack') = g
      <4>1. /\ IsStack(stack') /\ stack' # <<>> /\ Len(stack') = Len(stack)
            /\ Bottom(stack', Len(stack)) = g
        BY <3>2, <3>4, TopReplaced
      <4>2. Bottom(stack', Len(stack')) = Head(stack')
        BY <4>1, TopPopped
      <4> QED
        BY <4>1, <4>2
    <3> QED
      BY <2>1, <3>1, <3>3, <3>5
  <2> QED
    BY <1>1, <2>1, <2>2, <2>3, PhaseSpreads
<1>3. CASE WriteRemembered
  <2>1. /\ copied' = copied \cup {<<Head(stack).target, Head(stack).channel>>}
        /\ WriteReturn(TRUE)
    BY <1>3 DEF WriteRemembered, Remember
  <2>2. /\ Top("sync") /\ Head(stack).phase # "choose" /\ channels' = channels
        /\ EnterPhase("written")
    BY <2>1 DEF WriteReturn, InPhase, EnterPhase, tables, subscriptions
  <2>3. <<Head(stack).target, Head(stack).channel>> \in {WayEnd(way) : way \in AllWays(stack)}
    BY <2>2, CopyIsReached
  <2>4. copied' \subseteq {WayEnd(way) : way \in AllWays(stack)} /\ copied \subseteq copied'
        /\ <<Head(stack).target, Head(stack).channel>> \in copied'
    BY <1>1, <2>1, <2>3
  <2> QED
    BY <2>2, <2>4, PhaseSpreads
<1>4. CASE ReadRemembered
  <2>1. /\ copied' = copied /\ ReadReturn(TRUE)
        /\ Head(stack).phase = "written" /\ ~LimitReached
    BY <1>4 DEF ReadRemembered, Remember
  <2>2. channels' = channels
    BY <2>1 DEF ReadReturn, tables, subscriptions
  <2> QED
    BY <2>1, <2>2, ReadSpreads
<1>5. CASE OtherStep
  <2>1. copied' = copied /\ (HandlerReturn \/ RuntimeStep)
    BY <1>5 DEF OtherStep, Remember
  <2>2. CASE HandlerReturn
    BY <2>1, <2>2, HandlerReturnSpreads DEF HandlerReturn, tables, subscriptions
  <2>3. CASE RuntimeStep
    <3>1. Top("publish") \/ Top("handler") \/ Top("sync")
      <4>1. PICK m \in Changes(stack) :
               \/ stack[1] = Change(stack, m)
               \/ 2 * m <= Len(stack) /\ stack[1] = Copies(stack, m)
        <5>1. IsStack(stack) /\ 1 \in 1 .. Len(stack)
          BY StackIsStack, TopPopped DEF Spreads
        <5> QED
          BY <5>1, EveryFrame
      <4>2. LevelFits(stack, m) /\ stack # <<>>
        BY DEF Spreads
      <4>3. Head(stack) = stack[1]
        OBVIOUS
      <4> QED
        BY <4>1, <4>2, <4>3 DEF LevelFits, ChangeFits, HeardAt, CopiedAt, Top
    <3>2. ~ChildEvent /\ ~ReleaseEvent /\ ~\E n \in Nodes : EndRelease(n)
      BY <3>1 DEF ChildEvent, ReleaseEvent, EndRelease, Top
    <3>3. channels' = channels
      BY <2>3, <3>2 DEF RuntimeStep, Deliver, StartSync, NextBranch, EndSync, EndPublish, tables,
         subscriptions
    <3> QED
      BY <2>1, <2>3, <3>2, <3>3, DeliverSpreads, StartSyncSpreads, NextBranchSpreads,
         EndSyncSpreads, EndPublishSpreads DEF RuntimeStep
  <2> QED
    BY <2>1, <2>2, <2>3
<1> QED
  BY <1>2, <1>3, <1>4, <1>5

\* Every step keeps the account of the propagation in progress.
LEMMA NextPropagation ==
    ASSUME StackInv, Inherited, Registry!SubscriptionsJoinAlive, PropagationInv,
           [NextWithHistory]_varsWithHistory
    PROVE  PropagationInv'
<1> SUFFICES ASSUME undisturbed' PROVE stack' # <<>> /\ (Propagates(stack)' => Spreads(stack, copied)')
  BY DEF PropagationInv
<1>0. Propagates(stack)' <=> Propagates(stack')
  BY DEF Propagates, Bottom
<1>1. CASE UserStepRemembered
  <2>1. stack = <<>> /\ stack' # <<>> /\ copied' = {} /\ UserStep
    BY <1>1 DEF UserStepRemembered
  <2> QED
    BY <1>0, <2>1, UserStarts, SpreadsOn
<1>2. CASE Disturbance
  BY <1>2 DEF Disturbance, Remember
<1>3. CASE ReceiveRemembered \/ WriteRemembered \/ ReadRemembered \/ OtherStep
  <2>1. undisturbed /\ stack' # <<>>
    BY <1>3 DEF ReceiveRemembered, WriteRemembered, ReadRemembered, OtherStep, Remember
  <2>2. stack # <<>> /\ (Propagates(stack) => Spreads(stack, copied))
    BY <2>1 DEF PropagationInv
  <2>3. HandlerReturn \/ DataStep \/ RuntimeStep
    BY <1>3 DEF ReceiveRemembered, WriteRemembered, ReadRemembered, OtherStep, DataStep
  <2>4. Propagates(stack') => Propagates(stack)
    BY <2>1, <2>2, <2>3, OthersStay
  <2>5. Propagates(stack) => channels' = channels /\ Spreads(stack', copied')
    BY <1>3, <2>1, <2>2, PropagationGoesOn
  <2> QED
    BY <1>0, <2>1, <2>4, <2>5, SpreadsOn
<1>4. CASE UNCHANGED varsWithHistory
  <2>1. /\ undisturbed' = undisturbed /\ copied' = copied /\ stack' = stack
        /\ channels' = channels
    BY <1>4 DEF varsWithHistory, history, vars, tables, control, subscriptions
  <2>2. stack # <<>> /\ (Propagates(stack) => Spreads(stack, copied))
    BY <2>1 DEF PropagationInv
  <2>3. Spreads(stack, copied) => Spreads(stack', copied')
    BY <2>1
  <2> QED
    BY <1>0, <2>1, <2>2, <2>3, SpreadsOn
<1> QED
  BY <1>1, <1>2, <1>3, <1>4 DEF NextWithHistory

\* The outermost publish of a change returns by its own end.
LEMMA ReturnsByItself ==
    ASSUME StackInv, NextWithHistory, ChangeReturns
    PROVE  EndPublish
<1>1. stack # <<>> /\ Head(stack).kind = "publish" /\ stack' = <<>>
  BY DEF ChangeReturns, Top
<1>2. ~InUserCode
  BY <1>1 DEF InUserCode, IsUserCode
<1>3. ~UserStep
  <2>1. ~NodeOperation
    BY <1>2 DEF NodeOperation, Create, Destroy, Release, Publish
  <2>2. ~EdgeOperation /\ ~PointerOperation
    BY <1>2 DEF EdgeOperation, Connect, Disconnect, PointerOperation
  <2>3. ~SubscriptionOperation
    BY <1>2 DEF SubscriptionOperation, SubscribeEvent, SubscribeChannel, Cancel
  <2> QED
    BY <2>1, <2>2, <2>3 DEF UserStep
<1>4. ~HandlerThrow /\ ~HandlerReturn
  BY <1>1, <1>2 DEF HandlerThrow, HandlerReturn, Top
<1>5. \A ok \in BOOLEAN : ~WriteReturn(ok) /\ ~ReadReturn(ok)
  BY <1>1 DEF WriteReturn, ReadReturn, InPhase, Top
<1>6. ~Receive /\ ~NextBranch /\ ~EndSync /\ ~ChildEvent /\ ~ReleaseEvent
      /\ ~\E n \in Nodes : EndRelease(n)
  BY <1>1 DEF Receive, InPhase, NextBranch, EndSync, Choosing, ChildEvent, ReleaseEvent,
     EndRelease, Top
<1>7. ~StartSync /\ ~Deliver
  <2>1. ASSUME NEW f, stack' = <<f>> \o Tail(stack)
        PROVE  FALSE
    <3>1. stack' = Push(f, Tail(stack))
      BY <2>1 DEF Push
    <3> QED
      BY <1>1, <3>1, StackIsStack, TopReplaced
  <2>2. ASSUME NEW f, NEW g, stack' = <<g>> \o (<<f>> \o Tail(stack))
        PROVE  FALSE
    <3>1. stack' = Push(g, Push(f, Tail(stack)))
      BY <2>2 DEF Push
    <3> QED
      BY <1>1, <3>1, StackIsStack, TopCalls
  <2> QED
    BY <2>1, <2>2 DEF StartSync, Deliver
<1> QED
  BY <1>3, <1>4, <1>5, <1>6, <1>7
     DEF NextWithHistory, UserStepRemembered, Disturbance, ReceiveRemembered, WriteRemembered,
     ReadRemembered, OtherStep, RuntimeStep

\* When the outermost change returns undisturbed, what it has written are the ends
\* of its ways.
LEMMA ReturnIsComplete ==
    ASSUME StackInv, PropagationInv, NextWithHistory, undisturbed, ChangeReturns
    PROVE  copied = Reached(Head(stack).source, Head(stack).channel)
<1>1. EndPublish /\ stack' = <<>> /\ Len(stack) = 1 /\ stack # <<>>
      /\ Head(stack).kind = "publish" /\ Head(stack).channel # NoChannel
  BY ReturnsByItself DEF ChangeReturns, Top
<1>2. Bottom(stack, 1) = Head(stack)
  BY <1>1, StackIsStack, TopPopped
<1>3. Spreads(stack, copied)
  BY <1>1, <1>2 DEF PropagationInv, Propagates
<1> QED
  BY <1>1, <1>3, OutermostEnds

\* An undisturbed change of a channel has reached, when its outermost Publish returns,
\* exactly the channels that the subscriptions lead to without passing an object
\* twice (RuntimeTopology::synchronizeChannels, DataChannelSyncScope), for any
\* subscriptions and any number of objects.
THEOREM ChangesSpreadCompletely == SpecWithHistory => PropagationComplete
<1>1. InitWithHistory => PropagationInv
  BY DEF InitWithHistory, PropagationInv
<1>2. StackInv /\ Inherited /\ Registry!SubscriptionsJoinAlive /\ PropagationInv
          /\ [NextWithHistory]_varsWithHistory => PropagationInv'
  BY NextPropagation
<1>3. StackInv /\ PropagationInv /\ [NextWithHistory]_varsWithHistory =>
          [undisturbed /\ ChangeReturns =>
              copied = Reached(Head(stack).source, Head(stack).channel)]_varsWithHistory
  BY ReturnIsComplete
<1> QED
  BY <1>1, <1>2, <1>3, HistoryIsKernel, StackInvariance, SubscriptionsAlive, PTL
     DEF SpecWithHistory, PropagationComplete
==============================================================================
