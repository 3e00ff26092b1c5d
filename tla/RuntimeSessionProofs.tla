-------------------------- MODULE RuntimeSessionProofs --------------------------
(***************************************************************************)
(* A session drives the kernel by its operations alone, so what is proved  *)
(* of the kernel holds under it.  On top of that its tables are sound: it  *)
(* owns every subscription of its relay, a handle stands on a living watch *)
(* of its object, and is gone when the client hears that the object is     *)
(* released.                                                               *)
(***************************************************************************)
EXTENDS RuntimeSession, SequenceTheorems, TLAPS

-----------------------------------------------------------------------------
(* The session uses the kernel by its operations. *)

\* What a session does to its relay and its subscriptions is an operation of user
\* code, or nothing.
LEMMA SubscribeIsKernel ==
    ASSUME NEW s \in Nodes, NEW n \in Nodes, NEW type \in Kernel!EventTypes,
           Kernel!SubscribeEvent(s, n, type)
    PROVE  Kernel!Next
  BY DEF Kernel!Next, Kernel!UserStep, Kernel!SubscriptionOperation

\* Dropping a subscription cancels it, or does nothing.
LEMMA DropIsKernel ==
    ASSUME NEW id \in Ids, Drop(id)
    PROVE  Kernel!Next \/ UNCHANGED kernelVars
  BY DEF Drop, Ids, Kernel!Registry!Ids, Kernel!Next, Kernel!UserStep,
     Kernel!SubscriptionOperation

\* Operations on one object.
LEMMA NodeIsKernel ==
    ASSUME NEW n \in Nodes,
           \/ Kernel!Create(n) \/ Kernel!Destroy(n) \/ Kernel!Release(n)
           \/ \E type \in UserTypes, owned \in BOOLEAN : Kernel!Publish(n, type, NoChannel, owned)
    PROVE  Kernel!Next
  BY DEF Kernel!Next, Kernel!UserStep, Kernel!NodeOperation

\* Operations on one edge.
LEMMA EdgeIsKernel ==
    ASSUME NEW n \in Nodes, NEW name \in Names,
           \/ Kernel!Disconnect(n, name)
           \/ \E m \in Nodes, overwrite \in BOOLEAN : Kernel!Connect(n, name, m, overwrite)
    PROVE  Kernel!Next
  BY DEF Kernel!Next, Kernel!UserStep, Kernel!EdgeOperation

\* The types that the relay subscribes to are types of the kernel.
LEMMA ReleasedIsType ==
    /\ "Released" \in Kernel!EventTypes
    /\ Kernel!EventTypes = RuntimeTypes \cup UserTypes
    /\ Heeded \subseteq Kernel!EventTypes
    /\ Relay \in Nodes /\ Root \in Nodes
  BY TypesAssumption, RootRelayAssumption
     DEF Kernel!EventTypes, Kernel!RuntimeTypes, RuntimeTypes

\* What the session holds are identifiers, or none.
SessionTypeOK ==
    /\ phase \in {"none", "opening", "open", "heard", "closing"}
    /\ watch \in [Nodes -> Ids \cup {NoId}]
    /\ entries \in Seq(Ids \cup {NoId})
    /\ unheard \in SUBSET Nodes

\* There is no session at first.
LEMMA InitTyped == Init => SessionTypeOK
  BY DEF Init, SessionTypeOK

\* An identifier that is appended to the entries, or cleared from them.
LEMMA EntriesTyped ==
    ASSUME SessionTypeOK
    PROVE  /\ \A id \in Ids : Append(entries, id) \in Seq(Ids \cup {NoId})
           /\ \A i \in 1 .. Len(entries) :
                 [entries EXCEPT ![i] = NoId] \in Seq(Ids \cup {NoId})
<1>1. entries \in Seq(Ids \cup {NoId})
  BY DEF SessionTypeOK
<1>2. \A id \in Ids : Append(entries, id) \in Seq(Ids \cup {NoId})
  BY <1>1
<1>3. NoId \in Ids \cup {NoId}
  OBVIOUS
<1> QED
  BY <1>1, <1>2, <1>3, ExceptSeq

\* Every step keeps the types.
LEMMA NextTyped == SessionTypeOK /\ [Next]_vars => SessionTypeOK'
<1> SUFFICES ASSUME SessionTypeOK, [Next]_vars PROVE SessionTypeOK'
  OBVIOUS
<1> USE DEF SessionTypeOK
<1>1. CASE OpenSession \/ Close \/ WatchReturns \/ ReleaseRelay
  BY <1>1 DEF OpenSession, Close, WatchReturns, ReleaseRelay, session
<1>10. CASE DeleteRelay
  <2>1. <<>> \in Seq(Ids \cup {NoId})
    OBVIOUS
  <2> QED
    BY <1>10, <2>1 DEF DeleteRelay
<1>2. ASSUME NEW n \in Nodes, Register(n), phase' \in {phase, "open"}
      PROVE  SessionTypeOK'
  BY <1>2 DEF Register
<1>3. CASE Construct
  BY <1>2, <1>3, ReleasedIsType DEF Construct
<1>4. ASSUME NEW n \in Nodes, Resolve(n) \/ Invalidate(n) \/ CloseHandle(n)
      PROVE  SessionTypeOK'
  BY <1>2, <1>4 DEF Resolve, Invalidate, CloseHandle, Forgotten
<1>5. ASSUME NEW n \in Nodes, NEW type, SubscribeEvent(n, type)
      PROVE  SessionTypeOK'
  BY <1>5, EntriesTyped DEF SubscribeEvent
<1>6. ASSUME NEW i \in 1 .. Len(entries), CancelEvent(i) \/ CloseEntry(i)
      PROVE  SessionTypeOK'
  BY <1>6, EntriesTyped DEF CancelEvent, CloseEntry, Cleared
<1>7. CASE UserStep \/ HandlerReturn
  BY <1>7 DEF UserStep, HandlerReturn, session
<1>8. CASE RuntimeStep \/ HandlerThrow
  BY <1>8 DEF RuntimeStep, HandlerThrow
<1>9. CASE UNCHANGED vars
  BY <1>9 DEF vars, session
<1> QED
  BY <1>1, <1>3, <1>4, <1>5, <1>6, <1>7, <1>8, <1>9, <1>10 DEF Next, SessionStep

\* The types of the session's own tables.
LEMMA SessionTyped == Spec => []SessionTypeOK
  BY InitTyped, NextTyped, PTL DEF Spec

\* Every step of the session is one of the kernel, or none.
LEMMA KernelStep == SessionTypeOK /\ [Next]_vars => [Kernel!Next]_(Kernel!vars)
<1> SUFFICES ASSUME SessionTypeOK, [Next]_vars
             PROVE  Kernel!Next \/ UNCHANGED kernelVars
  BY DEF kernelVars, Kernel!vars, Kernel!tables, Kernel!edgesAndPointers,
     Kernel!subscriptions, Kernel!control
<1>1. CASE OpenSession \/ ReleaseRelay \/ DeleteRelay
  BY <1>1, NodeIsKernel, ReleasedIsType DEF OpenSession, ReleaseRelay, DeleteRelay
<1>2. ASSUME NEW n \in Nodes, Register(n)
      PROVE  Kernel!Next
  BY <1>2, SubscribeIsKernel, ReleasedIsType DEF Register
<1>3. CASE Construct
  BY <1>2, <1>3, ReleasedIsType DEF Construct
<1>4. CASE Close
  BY <1>4 DEF Close
<1>5. CASE WatchReturns \/ HandlerReturn
  BY <1>5 DEF WatchReturns, HandlerReturn, Kernel!Next
<1>6. ASSUME NEW n \in Nodes, Resolve(n)
      PROVE  Kernel!Next
  BY <1>2, <1>6 DEF Resolve
<1>7. ASSUME NEW n \in Nodes, Invalidate(n) \/ CloseHandle(n)
      PROVE  Kernel!Next \/ UNCHANGED kernelVars
  <2>1. Registered(n) /\ Drop(watch[n])
    BY <1>7 DEF Invalidate, CloseHandle, Called
  <2>2. watch[n] \in Ids
    BY <2>1 DEF Registered, SessionTypeOK
  <2> QED
    BY <2>1, <2>2, DropIsKernel
<1>8. ASSUME NEW n \in Nodes, NEW type \in Kernel!EventTypes, SubscribeEvent(n, type)
      PROVE  Kernel!Next
  BY <1>8, SubscribeIsKernel, ReleasedIsType DEF SubscribeEvent
<1>9. ASSUME NEW i \in 1 .. Len(entries), CancelEvent(i) \/ CloseEntry(i)
      PROVE  Kernel!Next \/ UNCHANGED kernelVars
  <2>1. entries[i] # NoId /\ Drop(entries[i])
    BY <1>9 DEF CancelEvent, CloseEntry
  <2>2. entries[i] \in Ids
    BY <2>1 DEF SessionTypeOK
  <2> QED
    BY <2>1, <2>2, DropIsKernel
<1>10. CASE UserStep
  <2>1. ASSUME NEW id \in Listeners, Kernel!Cancel(id)
        PROVE  Kernel!Next
    BY <2>1, DropIsKernel DEF Listeners, Ids, Kernel!Registry!Ids, Kernel!Next,
       Kernel!UserStep, Kernel!SubscriptionOperation
  <2>2. ASSUME NEW n \in Nodes, NEW m \in Nodes, NEW type \in Heeded,
               Kernel!SubscribeEvent(n, m, type)
        PROVE  Kernel!Next
    BY <2>2, SubscribeIsKernel, ReleasedIsType
  <2> QED
    BY <1>10, <2>1, <2>2, NodeIsKernel, EdgeIsKernel DEF UserStep
<1>11. CASE RuntimeStep \/ HandlerThrow
  BY <1>11 DEF RuntimeStep, HandlerThrow, Kernel!Next
<1>12. CASE UNCHANGED vars
  BY <1>12 DEF vars
<1> QED
  BY <1>1, <1>3, <1>4, <1>5, <1>6, <1>7, <1>8, <1>9, <1>10, <1>11, <1>12 DEF Next, SessionStep

\* Whatever a session does in the middle of events and releases, it does by the
\* operations of the kernel (RuntimeSession, RuntimeBridgeRoot).
THEOREM SessionImplementsKernel == Spec => ImplementsKernel
<1>1. Init => Kernel!Init
  BY DEF Init
<1> QED
  BY <1>1, KernelStep, SessionTyped, PTL DEF Spec, ImplementsKernel, Kernel!Spec

-----------------------------------------------------------------------------
(* What is proved of the kernel holds under a session.  The history of a propagation
   plays no part in it. *)

KernelProofs == INSTANCE RuntimeKernelProofs
    WITH Links <- {}, Heard <- {}, MaxNested <- 0,
         undisturbed <- FALSE, copied <- {}, nested <- 0

\* The two instances of the kernel are the same specification, piece by piece.
LEMMA SameCount ==
    /\ KernelProofs!LimitReached <=> Kernel!LimitReached
    /\ \A owned : Kernel!DataDies(owned) => KernelProofs!DataDies(owned)
    /\ \A s : KernelProofs!CountFor(s) = Kernel!CountFor(s)
<1>1. KernelProofs!LimitReached <=> Kernel!LimitReached
  BY Zenon DEF Kernel!LimitReached, KernelProofs!LimitReached, Kernel!FramesOf,
     KernelProofs!FramesOf, Kernel!Cardinality, KernelProofs!Cardinality
<1>2. ASSUME NEW owned
      PROVE  Kernel!DataDies(owned) => KernelProofs!DataDies(owned)
  BY <1>1, Zenon DEF Kernel!DataDies, KernelProofs!DataDies, Kernel!FramesOf, KernelProofs!FramesOf
<1>3. ASSUME NEW s
      PROVE  KernelProofs!CountFor(s) = Kernel!CountFor(s)
  BY Zenon DEF Kernel!CountFor, KernelProofs!CountFor, Kernel!OwnersLeft, KernelProofs!OwnersLeft,
     Kernel!FramesOf, KernelProofs!FramesOf, Kernel!Cardinality, KernelProofs!Cardinality
<1> QED
  BY <1>1, <1>2, <1>3

LEMMA SameRaise ==
    ASSUME NEW source, NEW type, NEW channel, NEW owned, NEW below,
           Kernel!Raise(source, type, channel, owned, below)
    PROVE  KernelProofs!Raise(source, type, channel, owned, below)
<1>1. KernelProofs!Truncated(source, type) <=> Kernel!Truncated(source, type)
  BY SameCount, Zenon DEF Kernel!Truncated, KernelProofs!Truncated, Kernel!FramesOf,
     KernelProofs!FramesOf
<1>2. KernelProofs!PublishFrame(source, type, channel, owned)
          = Kernel!PublishFrame(source, type, channel, owned)
  BY Zenon DEF Kernel!PublishFrame, KernelProofs!PublishFrame
<1> QED
  BY <1>1, <1>2, SameCount, Zenon DEF Kernel!Raise, KernelProofs!Raise

\* Operations of user code on objects, edges and pointers.
LEMMA SameNodeAndEdge ==
    /\ Kernel!NodeOperation => KernelProofs!NodeOperation
    /\ Kernel!EdgeOperation => KernelProofs!EdgeOperation
    /\ Kernel!PointerOperation => KernelProofs!PointerOperation
<1>1. Kernel!NodeOperation => KernelProofs!NodeOperation
  BY SameRaise, SameCount, Zenon
     DEF Kernel!NodeOperation, KernelProofs!NodeOperation, Kernel!Create, KernelProofs!Create,
     Kernel!InUserCode, KernelProofs!InUserCode, Kernel!IsUserCode, KernelProofs!IsUserCode,
     Kernel!Topology!Create, KernelProofs!Topology!Create, Kernel!Topology!Active,
     KernelProofs!Topology!Active, Kernel!Topology!tables, KernelProofs!Topology!tables,
     Kernel!Topology!bindings, KernelProofs!Topology!bindings, Kernel!Registry!Create,
     KernelProofs!Registry!Create, Kernel!Registry!Active, KernelProofs!Registry!Active,
     Kernel!Registry!registry, KernelProofs!Registry!registry, Kernel!Registry!eventTables,
     KernelProofs!Registry!eventTables, Kernel!Registry!channelTables,
     KernelProofs!Registry!channelTables, Kernel!control, KernelProofs!control, Kernel!Destroy,
     KernelProofs!Destroy, Kernel!InUse, KernelProofs!InUse, Kernel!Topology!Destroy,
     KernelProofs!Topology!Destroy, Kernel!Registry!Destroy, KernelProofs!Registry!Destroy,
     Kernel!Release, KernelProofs!Release, Kernel!Topology!BeginRelease,
     KernelProofs!Topology!BeginRelease, Kernel!Topology!UnbindPointers,
     KernelProofs!Topology!UnbindPointers, Kernel!Topology!DetachTopology,
     KernelProofs!Topology!DetachTopology, Kernel!Topology!RebuildIncoming,
     KernelProofs!Topology!RebuildIncoming, Kernel!Registry!BeginRelease,
     KernelProofs!Registry!BeginRelease, Kernel!Publish, KernelProofs!Publish, Kernel!Changed,
     KernelProofs!Changed, Kernel!RuntimeTypes, KernelProofs!RuntimeTypes, Kernel!EventTypes,
     KernelProofs!EventTypes, Kernel!tables, KernelProofs!tables, Kernel!edgesAndPointers,
     KernelProofs!edgesAndPointers, Kernel!subscriptions, KernelProofs!subscriptions
<1>2. Kernel!EdgeOperation => KernelProofs!EdgeOperation
  BY Zenon
     DEF Kernel!EdgeOperation, KernelProofs!EdgeOperation, Kernel!Disconnect,
     KernelProofs!Disconnect, Kernel!InUserCode, KernelProofs!InUserCode, Kernel!IsUserCode,
     KernelProofs!IsUserCode, Kernel!Topology!Disconnect, KernelProofs!Topology!Disconnect,
     Kernel!Topology!Active, KernelProofs!Topology!Active, Kernel!Topology!ChildItem,
     KernelProofs!Topology!ChildItem, Kernel!Topology!RebuildIncoming,
     KernelProofs!Topology!RebuildIncoming, Kernel!Topology!bindings,
     KernelProofs!Topology!bindings, Kernel!subscriptions, KernelProofs!subscriptions,
     Kernel!Connect, KernelProofs!Connect, Kernel!Topology!Connect,
     KernelProofs!Topology!Connect, Kernel!Topology!Resolve, KernelProofs!Topology!Resolve,
     Kernel!Topology!WouldCreateCycle, KernelProofs!Topology!WouldCreateCycle,
     Kernel!Topology!ChildClosed, KernelProofs!Topology!ChildClosed, Kernel!Topology!ChildrenOf,
     KernelProofs!Topology!ChildrenOf
<1>3. Kernel!PointerOperation => KernelProofs!PointerOperation
  BY Zenon
     DEF Kernel!PointerOperation, KernelProofs!PointerOperation, Kernel!InUserCode,
     KernelProofs!InUserCode, Kernel!IsUserCode, KernelProofs!IsUserCode,
     Kernel!Topology!PointerNext, KernelProofs!Topology!PointerNext, Kernel!Topology!Unbind,
     KernelProofs!Topology!Unbind, Kernel!Topology!UnbindTarget,
     KernelProofs!Topology!UnbindTarget, Kernel!Topology!tables, KernelProofs!Topology!tables,
     Kernel!Topology!ReleasePointer, KernelProofs!Topology!ReleasePointer, Kernel!Topology!Bind,
     KernelProofs!Topology!Bind, Kernel!Topology!Active, KernelProofs!Topology!Active,
     Kernel!subscriptions, KernelProofs!subscriptions, Kernel!control, KernelProofs!control
<1> QED
  BY <1>1, <1>2, <1>3

\* Its operations on subscriptions, and how it ends.
LEMMA SameSubscription ==
    /\ Kernel!SubscriptionOperation => KernelProofs!SubscriptionOperation
    /\ Kernel!HandlerReturn => KernelProofs!HandlerReturn
    /\ Kernel!HandlerThrow => KernelProofs!HandlerThrow
<1>1. Kernel!SubscriptionOperation => KernelProofs!SubscriptionOperation
  BY Zenon
     DEF Kernel!SubscriptionOperation, KernelProofs!SubscriptionOperation, Kernel!EventTypes,
     KernelProofs!EventTypes, Kernel!RuntimeTypes, KernelProofs!RuntimeTypes,
     Kernel!SubscribeEvent, KernelProofs!SubscribeEvent, Kernel!Topology!Resolve,
     KernelProofs!Topology!Resolve, Kernel!Topology!Active, KernelProofs!Topology!Active,
     Kernel!InUserCode, KernelProofs!InUserCode, Kernel!IsUserCode, KernelProofs!IsUserCode,
     Kernel!IdsRemain, KernelProofs!IdsRemain, Kernel!Registry!SubscribeEvent,
     KernelProofs!Registry!SubscribeEvent, Kernel!Registry!Active, KernelProofs!Registry!Active,
     Kernel!Registry!Ids, KernelProofs!Registry!Ids, Kernel!Registry!Allocated,
     KernelProofs!Registry!Allocated, Kernel!Registry!Free, KernelProofs!Registry!Free,
     Kernel!Registry!Distance, KernelProofs!Registry!Distance, Kernel!Registry!Following,
     KernelProofs!Registry!Following, Kernel!Registry!channelTables,
     KernelProofs!Registry!channelTables, Kernel!edgesAndPointers,
     KernelProofs!edgesAndPointers, Kernel!control, KernelProofs!control,
     Kernel!SubscribeChannel, KernelProofs!SubscribeChannel, Kernel!Registry!SubscribeChannel,
     KernelProofs!Registry!SubscribeChannel, Kernel!Registry!eventTables,
     KernelProofs!Registry!eventTables, Kernel!Cancel, KernelProofs!Cancel,
     Kernel!Registry!Cancel, KernelProofs!Registry!Cancel, Kernel!Registry!RemoveEvents,
     KernelProofs!Registry!RemoveEvents, Kernel!Registry!RemoveChannels,
     KernelProofs!Registry!RemoveChannels
<1>2. Kernel!HandlerReturn => KernelProofs!HandlerReturn
  BY Zenon
     DEF Kernel!HandlerReturn, KernelProofs!HandlerReturn, Kernel!Top, KernelProofs!Top,
     Kernel!tables, KernelProofs!tables, Kernel!edgesAndPointers, KernelProofs!edgesAndPointers,
     Kernel!subscriptions, KernelProofs!subscriptions
<1>3. Kernel!HandlerThrow => KernelProofs!HandlerThrow
  BY SameCount, Zenon
     DEF Kernel!HandlerThrow, KernelProofs!HandlerThrow, Kernel!InUserCode, KernelProofs!InUserCode,
     Kernel!IsUserCode, KernelProofs!IsUserCode, Kernel!tables, KernelProofs!tables,
     Kernel!edgesAndPointers, KernelProofs!edgesAndPointers, Kernel!subscriptions,
     KernelProofs!subscriptions
<1> QED
  BY <1>1, <1>2, <1>3

\* The copies of channels.
LEMMA SameCopies ==
    /\ Kernel!DataStep => KernelProofs!DataStep
    /\ Kernel!StartSync => KernelProofs!StartSync
    /\ Kernel!NextBranch => KernelProofs!NextBranch
    /\ Kernel!EndSync => KernelProofs!EndSync
<1>1. Kernel!DataStep => KernelProofs!DataStep
  BY SameRaise, SameCount, Zenon
     DEF Kernel!DataStep, KernelProofs!DataStep, Kernel!Receive, KernelProofs!Receive,
     Kernel!InPhase, KernelProofs!InPhase, Kernel!Top, KernelProofs!Top, Kernel!EnterPhase,
     KernelProofs!EnterPhase, Kernel!tables, KernelProofs!tables, Kernel!edgesAndPointers,
     KernelProofs!edgesAndPointers, Kernel!subscriptions, KernelProofs!subscriptions,
     Kernel!WriteReturn, KernelProofs!WriteReturn, Kernel!ReadReturn, KernelProofs!ReadReturn,
     Kernel!Changed, KernelProofs!Changed, Kernel!RuntimeTypes, KernelProofs!RuntimeTypes,
     Kernel!EventTypes, KernelProofs!EventTypes
<1>2. Kernel!StartSync => KernelProofs!StartSync
  BY Zenon
     DEF Kernel!StartSync, KernelProofs!StartSync, Kernel!Top, KernelProofs!Top, Kernel!tables,
     KernelProofs!tables, Kernel!edgesAndPointers, KernelProofs!edgesAndPointers,
     Kernel!subscriptions, KernelProofs!subscriptions
<1>3. Kernel!NextBranch => KernelProofs!NextBranch
  BY Zenon
     DEF Kernel!NextBranch, KernelProofs!NextBranch, Kernel!Choosing, KernelProofs!Choosing,
     Kernel!Top, KernelProofs!Top, Kernel!Follows, KernelProofs!Follows, Kernel!ChannelPath,
     KernelProofs!ChannelPath, Kernel!FramesOf, KernelProofs!FramesOf, Kernel!tables,
     KernelProofs!tables, Kernel!edgesAndPointers, KernelProofs!edgesAndPointers,
     Kernel!subscriptions, KernelProofs!subscriptions
<1>4. Kernel!EndSync => KernelProofs!EndSync
  BY Zenon
     DEF Kernel!EndSync, KernelProofs!EndSync, Kernel!Choosing, KernelProofs!Choosing, Kernel!Top,
     KernelProofs!Top, Kernel!tables, KernelProofs!tables, Kernel!edgesAndPointers,
     KernelProofs!edgesAndPointers, Kernel!subscriptions, KernelProofs!subscriptions
<1> QED
  BY <1>1, <1>2, <1>3, <1>4

\* The events of the runtime.
LEMMA SameRuntime ==
    /\ Kernel!Deliver => KernelProofs!Deliver
    /\ Kernel!EndPublish => KernelProofs!EndPublish
    /\ Kernel!ChildEvent => KernelProofs!ChildEvent
    /\ Kernel!ReleaseEvent => KernelProofs!ReleaseEvent
<1>1. Kernel!Deliver => KernelProofs!Deliver
  BY Zenon
     DEF Kernel!Deliver, KernelProofs!Deliver, Kernel!Top, KernelProofs!Top, Kernel!tables,
     KernelProofs!tables, Kernel!edgesAndPointers, KernelProofs!edgesAndPointers,
     Kernel!subscriptions, KernelProofs!subscriptions
<1>2. Kernel!EndPublish => KernelProofs!EndPublish
  BY SameCount, Zenon
     DEF Kernel!EndPublish, KernelProofs!EndPublish, Kernel!Top, KernelProofs!Top, Kernel!tables,
     KernelProofs!tables, Kernel!edgesAndPointers, KernelProofs!edgesAndPointers,
     Kernel!subscriptions, KernelProofs!subscriptions
<1>3. Kernel!ChildEvent => KernelProofs!ChildEvent
  BY SameRaise, Zenon
     DEF Kernel!ChildEvent, KernelProofs!ChildEvent, Kernel!Top, KernelProofs!Top, Kernel!tables,
     KernelProofs!tables, Kernel!edgesAndPointers, KernelProofs!edgesAndPointers,
     Kernel!subscriptions, KernelProofs!subscriptions
<1>4. Kernel!ReleaseEvent => KernelProofs!ReleaseEvent
  BY SameRaise, Zenon
     DEF Kernel!ReleaseEvent, KernelProofs!ReleaseEvent, Kernel!Top, KernelProofs!Top,
     Kernel!tables, KernelProofs!tables, Kernel!edgesAndPointers, KernelProofs!edgesAndPointers,
     Kernel!subscriptions, KernelProofs!subscriptions
<1> QED
  BY <1>1, <1>2, <1>3, <1>4

\* The end of a release.
LEMMA SameEndRelease ==
    ASSUME NEW n \in Nodes, Kernel!EndRelease(n)
    PROVE  KernelProofs!EndRelease(n)
  BY Zenon
     DEF Kernel!EndRelease, KernelProofs!EndRelease, Kernel!Top, KernelProofs!Top,
     Kernel!Topology!EndRelease, KernelProofs!Topology!EndRelease, Kernel!Topology!tables,
     KernelProofs!Topology!tables, Kernel!Topology!bindings, KernelProofs!Topology!bindings,
     Kernel!Registry!EndRelease, KernelProofs!Registry!EndRelease, Kernel!Registry!RemoveEvents,
     KernelProofs!Registry!RemoveEvents, Kernel!Registry!Ids, KernelProofs!Registry!Ids,
     Kernel!Registry!EventsOf, KernelProofs!Registry!EventsOf, Kernel!Registry!RemoveChannels,
     KernelProofs!Registry!RemoveChannels, Kernel!Registry!ChannelsOf,
     KernelProofs!Registry!ChannelsOf, Kernel!EventTypes, KernelProofs!EventTypes,
     Kernel!RuntimeTypes, KernelProofs!RuntimeTypes

\* So the kernel under a session is the kernel of the proofs.
LEMMA SameKernel == Kernel!Spec => KernelProofs!Spec
<1>1. Kernel!Init => KernelProofs!Init
  BY Zenon
     DEF Kernel!Init, KernelProofs!Init, Kernel!Topology!Init, KernelProofs!Topology!Init,
     Kernel!Topology!RebuildIncoming, KernelProofs!Topology!RebuildIncoming,
     Kernel!Registry!Init, KernelProofs!Registry!Init, Kernel!Registry!Ids,
     KernelProofs!Registry!Ids, Kernel!EventTypes, KernelProofs!EventTypes, Kernel!RuntimeTypes,
     KernelProofs!RuntimeTypes
<1>2. Kernel!Next => KernelProofs!Next
  BY SameNodeAndEdge, SameSubscription, SameCopies, SameRuntime, SameEndRelease
     DEF Kernel!Next, KernelProofs!Next, Kernel!UserStep, KernelProofs!UserStep,
     Kernel!RuntimeStep, KernelProofs!RuntimeStep
<1>3. [Kernel!Next]_(Kernel!vars) => [KernelProofs!Next]_(KernelProofs!vars)
  BY <1>2
     DEF Kernel!vars, KernelProofs!vars, Kernel!tables, KernelProofs!tables,
     Kernel!edgesAndPointers, KernelProofs!edgesAndPointers, Kernel!subscriptions,
     KernelProofs!subscriptions, Kernel!control, KernelProofs!control
<1> QED
  BY <1>1, <1>3, PTL DEF Kernel!Spec, KernelProofs!Spec

-----------------------------------------------------------------------------
(* What the session has to know of the kernel. *)

EventRecords == [subscriber : Nodes, source : Nodes, type : Kernel!EventTypes]

\* The calls that can be in progress: without channels nothing is copied.
Calls == Kernel!HandlerFrames \cup Kernel!PublishFrames
             \cup Kernel!ConnectFrames \cup Kernel!ReleaseFrames

TablesKnown ==
    /\ nextId \in Ids
    /\ state \in [Nodes -> {"Absent", "Active", "Releasing", "Released"}]
    /\ events \in [Ids -> EventRecords \cup {NoSub}]
    /\ \A id \in Ids : channels[id] = NoSub
    /\ \A id \in Ids : id >= nextId => events[id] = NoSub

IndexesKnown ==
    /\ \A id \in Ids, n \in Nodes :
          id \in eventsBySubscriber[n] <=> events[id] # NoSub /\ events[id].subscriber = n
    /\ \A id \in Ids, n \in Nodes, type \in Kernel!EventTypes :
          id \in eventsBySource[<<n, type>>] <=>
              events[id] # NoSub /\ events[id].source = n /\ events[id].type = type

\* A publish follows a snapshot of subscriptions to its own event, a release its
\* object, and the announcement of a release lies on top of that release.
CallsKnown ==
    /\ stack \in Seq(Calls)
    /\ \A i \in 1 .. Len(stack) : stack[i].kind = "publish" => stack[i].synced
    /\ \A i \in 1 .. Len(stack) : stack[i].kind = "publish" =>
          \A id \in stack[i].ids :
              events[id] # NoSub =>
                  events[id].source = stack[i].source /\ events[id].type = stack[i].type
    /\ \A i \in 1 .. Len(stack) :
          stack[i].kind = "release" => state[stack[i].node] = "Releasing"
    /\ \A i \in 1 .. Len(stack) :
          stack[i].kind = "publish" /\ stack[i].type = "Released" =>
              /\ i + 1 \in 1 .. Len(stack)
              /\ stack[i + 1].kind = "release"
              /\ stack[i + 1].node = stack[i].source

KernelFacts == TablesKnown /\ IndexesKnown /\ CallsKnown

\* The tables: from what the kernel inherits of its registry.
LEMMA TablesFollow ==
    ASSUME KernelProofs!StackInv, KernelProofs!Inherited
    PROVE  TablesKnown /\ IndexesKnown
<1>1. /\ nextId \in Ids
      /\ state \in [Nodes -> {"Absent", "Active", "Releasing", "Released"}]
      /\ events \in [Ids -> EventRecords \cup {NoSub}]
      /\ channels \in [Ids -> KernelProofs!Registry!ChannelSubscription \cup {NoSub}]
  BY DEF KernelProofs!Inherited, KernelProofs!Registry!TypeOK, KernelProofs!Registry!Ids,
     KernelProofs!Registry!States, KernelProofs!Registry!EventSubscription, Ids, EventRecords,
     Kernel!EventTypes, KernelProofs!EventTypes, Kernel!RuntimeTypes, KernelProofs!RuntimeTypes
<1>2. KernelProofs!Registry!ChannelSubscription = {}
  BY DEF KernelProofs!Registry!ChannelSubscription, Channels
<1>3. \A id \in Ids : channels[id] = NoSub
  BY <1>1, <1>2
<1>4. \A id \in Ids : id >= nextId => events[id] = NoSub
  BY DEF KernelProofs!StackInv, KernelProofs!NextIsFresh, KernelProofs!Registry!Ids, Ids
<1>5. IndexesKnown
  BY DEF IndexesKnown, KernelProofs!Inherited, KernelProofs!Registry!IndexesAgree,
     KernelProofs!Registry!EventIndexesAgree, KernelProofs!Registry!Ids, Ids,
     Kernel!EventTypes, KernelProofs!EventTypes, Kernel!RuntimeTypes, KernelProofs!RuntimeTypes
<1> QED
  BY <1>1, <1>3, <1>4, <1>5 DEF TablesKnown

\* The calls: from the invariant of its stack.
LEMMA CallsFollow ==
    ASSUME KernelProofs!StackInv
    PROVE  CallsKnown
<1> DEFINE F == KernelProofs!OwnFrames(events, channels, nextId)
<1>1. stack \in Seq(F)
  BY DEF KernelProofs!StackInv
<1>2. ASSUME NEW f \in F
      PROVE  /\ f \in Calls
             /\ f.kind = "publish" => f.synced
             /\ f.kind = "publish" => \A id \in f.ids :
                    events[id] # NoSub =>
                        events[id].source = f.source /\ events[id].type = f.type
  <2>1. f \in KernelProofs!Frames
    BY DEF KernelProofs!OwnFrames
  <2>2. KernelProofs!SyncFrames = {}
    BY DEF KernelProofs!SyncFrames, Channels
  <2>3. /\ KernelProofs!HandlerFrames = Kernel!HandlerFrames
        /\ KernelProofs!PublishFrames = Kernel!PublishFrames
        /\ KernelProofs!ConnectFrames = Kernel!ConnectFrames
        /\ KernelProofs!ReleaseFrames = Kernel!ReleaseFrames
    BY DEF KernelProofs!HandlerFrames, KernelProofs!PublishFrames, KernelProofs!ConnectFrames,
       KernelProofs!ReleaseFrames, Kernel!HandlerFrames, Kernel!PublishFrames,
       Kernel!ConnectFrames, Kernel!ReleaseFrames, KernelProofs!Registry!Ids,
       Kernel!Registry!Ids, Kernel!EventTypes, KernelProofs!EventTypes, Kernel!RuntimeTypes,
       KernelProofs!RuntimeTypes, Kernel!Edges, KernelProofs!Edges
  <2>4. f \in Calls
    BY <2>1, <2>2, <2>3 DEF KernelProofs!Frames, Calls
  <2>5. f.kind = "publish" => f.channel = NoChannel
    BY <2>4 DEF Calls, Kernel!HandlerFrames, Kernel!PublishFrames, Kernel!ConnectFrames,
       Kernel!ReleaseFrames, Channels
  <2> QED
    BY <2>4, <2>5 DEF KernelProofs!OwnFrames
<1>3. F \subseteq Calls
  BY <1>2
<1> HIDE DEF F
<1>4. stack \in Seq(Calls) /\ \A i \in 1 .. Len(stack) : stack[i] \in F
  BY <1>1, <1>3
<1>5. /\ \A i \in 1 .. Len(stack) :
            stack[i].kind = "release" => state[stack[i].node] = "Releasing"
      /\ \A i \in 1 .. Len(stack) :
            stack[i].kind = "publish" /\ stack[i].type = "Released" =>
                /\ i < Len(stack)
                /\ stack[i + 1].kind = "release"
                /\ stack[i + 1].node = stack[i].source
  BY DEF KernelProofs!StackInv, KernelProofs!ReleasesMatch, KernelProofs!ReleasedUnderRelease,
     KernelProofs!Announces
<1>6. \A i \in 1 .. Len(stack) : i < Len(stack) => i + 1 \in 1 .. Len(stack)
  BY <1>4
<1> QED
  BY <1>2, <1>4, <1>5, <1>6 DEF CallsKnown

\* It holds under every session, because a session drives the kernel by its
\* operations.
LEMMA KernelFactsAlways == Spec => []KernelFacts
<1>1. KernelProofs!StackInv /\ KernelProofs!Inherited => KernelFacts
  BY TablesFollow, CallsFollow DEF KernelFacts
<1>2. /\ Nodes \cap Pointers = {}
      /\ UserTypes \cap KernelProofs!RuntimeTypes = {}
      /\ NoChannel \notin Channels /\ (Channels # {} => KernelProofs!Changed \in UserTypes)
      /\ NoSub \notin [subscriber : Nodes, source : Nodes, type : KernelProofs!EventTypes]
                 \cup [source : Nodes, sourceChannel : Channels,
                       target : Nodes, targetChannel : Channels]
  BY TypesAssumption, NoSubAssumption
     DEF Pointers, Channels, KernelProofs!RuntimeTypes, KernelProofs!EventTypes, RuntimeTypes
<1>3. KernelProofs!Spec => [](KernelProofs!StackInv /\ KernelProofs!Inherited)
  BY <1>2, NoNodeAssumption, MaxIdAssumption, LimitsAssumption, KernelProofs!StackInvariance
<1> QED
  BY <1>1, <1>3, SameKernel, SessionImplementsKernel, PTL DEF ImplementsKernel

-----------------------------------------------------------------------------
(* The invariant of a session. *)

\* There are entries only while there is a session, and handles only while its
\* relay is Active.
PhaseInv ==
    /\ \A n \in Nodes : Registered(n) =>
          phase \in {"open", "heard", "closing"} /\ state[Relay] = "Active"
    /\ phase \in {"none", "opening"} => entries = <<>>
    /\ phase \in {"opening", "open", "heard"} => state[Relay] = "Active"
    /\ phase = "closing" /\ state[Relay] # "Active" => EntriesCleared

\* The identifiers that a session holds have been given out.
IdsGiven ==
    /\ \A n \in Nodes : watch[n] < nextId
    /\ \A j \in 1 .. Len(entries) : entries[j] < nextId

\* A watch serves one handle, and nothing else.
WatchesDistinct ==
    /\ \A m, n \in Nodes : Registered(m) /\ watch[m] = watch[n] => m = n
    /\ \A n \in Nodes, j \in 1 .. Len(entries) : Registered(n) => watch[n] # entries[j]

\* The subscription behind the handle of n.
WatchOf(n) == [subscriber |-> Relay, source |-> n, type |-> "Released"]

\* While a subscription with the identifier of a watch lives, it is that watch, also
\* behind a handle that has gone stale.
WatchesNameOwn ==
    \A n \in Nodes :
        Registered(n) /\ events[watch[n]] # NoSub => events[watch[n]] = WatchOf(n)

LivesFor(id, n) == id # NoId /\ events[id] # NoSub /\ events[id].source = n

\* The client subscribes to events of an object by its handle: a subscription that
\* has outlived the handle ends with the release in progress ...
EntriesHaveHandles ==
    \A j \in 1 .. Len(entries), n \in Nodes :
        LivesFor(entries[j], n) => Registered(n) \/ state[n] = "Releasing"

\* ... and the watch has been made before any other.
WatchFirst ==
    \A j \in 1 .. Len(entries), n \in Nodes :
        LivesFor(entries[j], n) /\ Registered(n) => watch[n] < entries[j]

\* The part of the invariant that speaks of the tables alone ...
TablePart ==
    /\ IdsGiven
    /\ WatchesDistinct
    /\ WatchesNameOwn
    /\ EntriesHaveHandles
    /\ WatchFirst
    /\ RelaySubscriptionsOwned
    /\ WatchesStand

IsReleased(f, n) == f.kind = "publish" /\ f.source = n /\ f.type = "Released"

\* ... and that which speaks of the calls in progress.  A watch that has been called
\* is on top, called by the Released of its object: the session runs first.
HandlerFits(i) ==
    stack[i].kind = "handler" =>
        /\ stack[i].id < nextId
        /\ \A n \in Nodes : Registered(n) /\ stack[i].id = watch[n] =>
              i = 1 /\ phase = "open" /\ 2 \in 1 .. Len(stack) /\ IsReleased(stack[2], n)

\* A handle that is there while its object announces its release will be dropped:
\* its watch is among the handlers yet to be called, or is being called.
PublishFits(i) ==
    \A n \in Nodes \ unheard :
        Registered(n) /\ IsReleased(stack[i], n) => watch[n] \in stack[i].ids \/ Called(n)

\* A handle that is there after its object has begun the announcement is there only
\* while that goes on.
ReleaseFits(i) ==
    \A n \in Nodes \ unheard :
        Registered(n) /\ stack[i].kind = "release" /\ stack[i].node = n /\ stack[i].announced =>
            i - 1 \in 1 .. Len(stack) /\ IsReleased(stack[i - 1], n)

\* The client is told by a handler of the announcement when its handle is gone.
ToldFits(i) ==
    \A n \in Nodes \ unheard :
        /\ i + 1 \in 1 .. Len(stack)
        /\ stack[i].kind = "handler" /\ IsReleased(stack[i + 1], n)
        /\ \E j \in 1 .. Len(entries) : entries[j] = stack[i].id
        => ~Registered(n)

CallFits(i) == HandlerFits(i) /\ PublishFits(i) /\ ReleaseFits(i) /\ ToldFits(i)

CallPart == \A i \in 1 .. Len(stack) : CallFits(i)

SessionInv == SessionTypeOK /\ PhaseInv /\ TablePart /\ CallPart

-----------------------------------------------------------------------------
(* What the operations of the kernel do to what the session sees. *)

\* A subscription gets the identifier that the counter stands at.
LEMMA Subscribing ==
    ASSUME KernelFacts, NEW s \in Nodes, NEW n \in Nodes, NEW type \in Kernel!EventTypes,
           Kernel!SubscribeEvent(s, n, type)
    PROVE  /\ state[s] = "Active" /\ state[n] = "Active"
           /\ nextId \in Ids /\ nextId' = nextId + 1 /\ events[nextId] = NoSub
           /\ events' = [events EXCEPT ![nextId] =
                            [subscriber |-> s, source |-> n, type |-> type]]
           /\ \A id \in Ids : Subscribed(id) => id = nextId
           /\ UNCHANGED <<state, stack>>
<1>1. Kernel!Topology!Resolve(n) = n
  BY DEF Kernel!Topology!Resolve, Pointers
<1>2. Kernel!Registry!SubscribeEvent(s, n, type) /\ nextId < MaxId /\ UNCHANGED stack
  BY <1>1 DEF Kernel!SubscribeEvent, Kernel!IdsRemain, Kernel!control
<1>3. nextId \in Ids /\ nextId \in Nat /\ MaxId \in Nat /\ events \in [Ids -> EventRecords \cup {NoSub}]
      /\ events[nextId] = NoSub /\ channels[nextId] = NoSub
  BY MaxIdAssumption DEF KernelFacts, TablesKnown, Ids
<1>4. ASSUME NEW id \in Ids, Kernel!Registry!Allocated(id)
      PROVE  id = nextId /\ Kernel!Registry!Following(id) = nextId + 1
  <2>1. Kernel!Registry!Free(nextId) /\ Kernel!Registry!Distance(nextId) = 0
    BY <1>3 DEF Kernel!Registry!Free, Kernel!Registry!Distance
  <2>2. Kernel!Registry!Distance(id) <= 0
    BY <1>3, <1>4, <2>1 DEF Kernel!Registry!Allocated, Kernel!Registry!Ids, Ids
  <2>3. id = nextId
    BY <1>2, <1>3, <2>2 DEF Kernel!Registry!Distance, Ids
  <2> QED
    BY <1>2, <1>3, <2>3 DEF Kernel!Registry!Following
<1>5. PICK id \in Ids :
         /\ Kernel!Registry!Allocated(id)
         /\ nextId' = Kernel!Registry!Following(id)
         /\ events' = [events EXCEPT ![id] = [subscriber |-> s, source |-> n, type |-> type]]
  BY <1>2 DEF Kernel!Registry!SubscribeEvent, Kernel!Registry!Ids, Ids
<1>6. id = nextId /\ nextId' = nextId + 1
  BY <1>4, <1>5
<1>7. \A other \in Ids : Subscribed(other) => other = nextId
  BY <1>3, <1>5, <1>6 DEF Subscribed
<1> QED
  BY <1>2, <1>3, <1>5, <1>6, <1>7 DEF Kernel!Registry!SubscribeEvent, Kernel!Registry!Active

\* A subscription that is dropped is gone; nothing else changes.
LEMMA Dropping ==
    ASSUME KernelFacts, NEW id \in Ids, Drop(id)
    PROVE  /\ events' = [i \in Ids |-> IF i = id THEN NoSub ELSE events[i]]
           /\ UNCHANGED <<state, nextId, stack>>
<1>1. CASE Kernel!Cancel(id)
  BY <1>1 DEF Kernel!Cancel, Kernel!Registry!Cancel, Kernel!Registry!RemoveEvents,
     Kernel!Registry!Ids, Ids, Kernel!control
<1>2. CASE events[id] = NoSub /\ UNCHANGED kernelVars
  BY <1>2 DEF KernelFacts, TablesKnown, kernelVars
<1> QED
  BY <1>1, <1>2 DEF Drop

\* The calls of user code that are neither a handler nor speak of a Released.
QuietFrame(f) ==
    \/ f.kind = "connect"
    \/ f.kind = "release" /\ ~f.announced
    \/ f.kind = "publish" /\ f.type # "Released"

Quiet(s) == s = stack \/ \E f : QuietFrame(f) /\ s = <<f>> \o stack

\* What user code does to an object and its edges.
LEMMA UserCalls ==
    ASSUME NEW n \in Nodes,
           \/ Kernel!Create(n) \/ Kernel!Destroy(n) \/ Kernel!Release(n)
           \/ \E type \in UserTypes, owned \in BOOLEAN : Kernel!Publish(n, type, NoChannel, owned)
           \/ \E name \in Names : Kernel!Disconnect(n, name)
           \/ \E m \in Nodes, name \in Names, overwrite \in BOOLEAN :
                  Kernel!Connect(n, name, m, overwrite)
    PROVE  /\ UNCHANGED <<events, nextId>> /\ Quiet(stack')
           /\ state' = state \/ \E s : state[n] # "Releasing" /\ state' = [state EXCEPT ![n] = s]
<1>1. CASE Kernel!Create(n) \/ Kernel!Destroy(n)
  BY <1>1 DEF Kernel!Create, Kernel!Destroy, Kernel!Registry!Create, Kernel!Registry!Destroy,
     Kernel!Registry!registry, Kernel!Registry!eventTables, Kernel!control, Quiet
<1>2. CASE Kernel!Release(n)
  BY <1>2 DEF Kernel!Release, Kernel!Registry!BeginRelease, Kernel!Registry!Active,
     Kernel!Registry!registry, Kernel!Registry!eventTables, Quiet, QuietFrame
<1>3. ASSUME NEW type \in UserTypes, NEW owned \in BOOLEAN, Kernel!Publish(n, type, NoChannel, owned)
      PROVE  /\ UNCHANGED <<events, nextId, state>> /\ Quiet(stack')
  <2>1. type # "Released"
    BY TypesAssumption DEF RuntimeTypes
  <2>2. UNCHANGED <<events, nextId, state>>
    BY <1>3 DEF Kernel!Publish, Kernel!tables, Kernel!subscriptions
  <2>3. Quiet(stack')
    BY <1>3, <2>1 DEF Kernel!Publish, Kernel!Raise, Kernel!PublishFrame, Quiet, QuietFrame
  <2> QED
    BY <2>2, <2>3
<1>4. ASSUME NEW name \in Names, Kernel!Disconnect(n, name)
      PROVE  /\ UNCHANGED <<events, nextId, state>> /\ Quiet(stack')
  BY <1>4 DEF Kernel!Disconnect, Kernel!Topology!Disconnect, Kernel!subscriptions, Quiet, QuietFrame
<1>5. ASSUME NEW m \in Nodes, NEW name \in Names, NEW overwrite \in BOOLEAN,
             Kernel!Connect(n, name, m, overwrite)
      PROVE  /\ UNCHANGED <<events, nextId, state>> /\ Quiet(stack')
  BY <1>5 DEF Kernel!Connect, Kernel!Topology!Connect, Kernel!subscriptions, Quiet, QuietFrame
<1> QED
  BY <1>1, <1>2, <1>3, <1>4, <1>5

\* What user code other than the session does: the relay is none of its business.
LEMMA OthersDo ==
    ASSUME KernelFacts, UserStep
    PROVE  /\ UNCHANGED session /\ Quiet(stack')
           /\ state'[Relay] = state[Relay]
           /\ \A m \in Nodes : state[m] = "Releasing" => state'[m] = "Releasing"
           /\ nextId' \in {nextId, nextId + 1}
           /\ \A id \in Ids :
                 \/ events'[id] = events[id]
                 \/ events'[id] = NoSub /\ events[id] # NoSub /\ events[id].subscriber # Relay
                 \/ id >= nextId /\ events'[id] # NoSub /\ events'[id].subscriber # Relay
<1>0. /\ UNCHANGED session
      /\ state \in [Nodes -> {"Absent", "Active", "Releasing", "Released"}]
      /\ events \in [Ids -> EventRecords \cup {NoSub}] /\ nextId \in Ids
      /\ Relay \in Nodes /\ Root \in Nodes
  BY ReleasedIsType DEF UserStep, KernelFacts, TablesKnown
<1> DEFINE Calm ==
       /\ Quiet(stack') /\ UNCHANGED <<events, nextId>>
       /\ state'[Relay] = state[Relay]
       /\ \A m \in Nodes : state[m] = "Releasing" => state'[m] = "Releasing"
<1>1. ASSUME NEW n \in Nodes \ {Relay},
             \/ Kernel!Create(n) \/ Kernel!Destroy(n) \/ Kernel!Release(n)
             \/ \E type \in UserTypes, owned \in BOOLEAN : Kernel!Publish(n, type, NoChannel, owned)
             \/ \E name \in Names : Kernel!Disconnect(n, name)
             \/ \E m \in Nodes, name \in Names, overwrite \in BOOLEAN :
                    Kernel!Connect(n, name, m, overwrite)
      PROVE  Calm
  <2>1. /\ UNCHANGED <<events, nextId>> /\ Quiet(stack')
        /\ \/ state' = state
           \/ \E s : state[n] # "Releasing" /\ state' = [state EXCEPT ![n] = s]
    BY <1>1, UserCalls
  <2> QED
    BY <1>0, <2>1
<1>2. ASSUME NEW n \in Nodes \ {Relay}, NEW m \in Nodes, NEW type \in Heeded,
             Kernel!SubscribeEvent(n, m, type)
      PROVE  /\ Quiet(stack') /\ UNCHANGED state /\ nextId' = nextId + 1
             /\ \A id \in Ids :
                   \/ events'[id] = events[id]
                   \/ id >= nextId /\ events'[id] # NoSub /\ events'[id].subscriber # Relay
  <2>1. type \in Kernel!EventTypes
    BY ReleasedIsType
  <2> DEFINE r == [subscriber |-> n, source |-> m, type |-> type]
  <2>2. /\ UNCHANGED <<state, stack>> /\ nextId' = nextId + 1 /\ nextId \in Ids
        /\ events' = [events EXCEPT ![nextId] = r]
    BY <1>2, <2>1, Subscribing
  <2>3. r # NoSub /\ r.subscriber # Relay
    BY <2>1, NoSubAssumption, ReleasedIsType
  <2> HIDE DEF r
  <2>4. \A id \in Ids : events'[id] = IF id = nextId THEN r ELSE events[id]
    BY <1>0, <2>2
  <2>5. nextId >= nextId
    BY <1>0 DEF Ids
  <2> QED
    BY <2>2, <2>3, <2>4, <2>5 DEF Quiet
<1>3. ASSUME NEW id \in Listeners, Kernel!Cancel(id)
      PROVE  /\ Quiet(stack') /\ UNCHANGED <<state, nextId>>
             /\ \A i \in Ids :
                   \/ events'[i] = events[i]
                   \/ events'[i] = NoSub /\ events[i] # NoSub /\ events[i].subscriber # Relay
  <2>1. id \in Ids /\ events[id] # NoSub /\ events[id].subscriber # Relay
    BY DEF Listeners
  <2>2. events' = [i \in Ids |-> IF i = id THEN NoSub ELSE events[i]]
        /\ UNCHANGED <<state, nextId, stack>>
    BY <1>3, <2>1, Dropping DEF Drop
  <2> QED
    BY <2>1, <2>2 DEF Quiet
<1>4. \/ \E n \in Nodes \ {Relay} :
            \/ Kernel!Create(n) \/ Kernel!Destroy(n) \/ Kernel!Release(n)
            \/ \E type \in UserTypes, owned \in BOOLEAN : Kernel!Publish(n, type, NoChannel, owned)
            \/ \E name \in Names : Kernel!Disconnect(n, name)
            \/ \E m \in Nodes, name \in Names, overwrite \in BOOLEAN :
                   Kernel!Connect(n, name, m, overwrite)
      \/ \E n \in Nodes \ {Relay}, m \in Nodes, type \in Heeded : Kernel!SubscribeEvent(n, m, type)
      \/ \E id \in Listeners : Kernel!Cancel(id)
  BY DEF UserStep
<1>5. CASE Calm
  BY <1>0, <1>5
<1> HIDE DEF Calm
<1>6. CASE \E n \in Nodes \ {Relay}, m \in Nodes, type \in Heeded : Kernel!SubscribeEvent(n, m, type)
  BY <1>0, <1>2, <1>6
<1>7. CASE \E id \in Listeners : Kernel!Cancel(id)
  BY <1>0, <1>3, <1>7
<1> QED
  BY <1>1, <1>4, <1>5, <1>6, <1>7

\* The steps of the runtime under a session: there is nothing to copy.
LEMMA RuntimeDoes ==
    ASSUME KernelFacts, Kernel!RuntimeStep
    PROVE  \/ /\ UNCHANGED Kernel!tables
              /\ Kernel!Deliver \/ Kernel!EndPublish \/ Kernel!ChildEvent \/ Kernel!ReleaseEvent
           \/ \E n \in Nodes : Kernel!EndRelease(n)
<1>1. stack # <<>> => Head(stack) = stack[1] /\ 1 \in 1 .. Len(stack) /\ Head(stack) \in Calls
  BY DEF KernelFacts, CallsKnown
<1>2. ~Kernel!Top("sync")
  BY <1>1 DEF Kernel!Top, Calls, Kernel!HandlerFrames, Kernel!PublishFrames,
     Kernel!ConnectFrames, Kernel!ReleaseFrames
<1>3. ~Kernel!NextBranch /\ ~Kernel!EndSync
  BY <1>2 DEF Kernel!NextBranch, Kernel!EndSync, Kernel!Choosing
<1>4. ~Kernel!StartSync
  BY <1>1 DEF Kernel!StartSync, Kernel!Top, KernelFacts, CallsKnown
<1>5. Kernel!Deliver \/ Kernel!EndPublish \/ Kernel!ChildEvent \/ Kernel!ReleaseEvent
          => UNCHANGED Kernel!tables
  BY DEF Kernel!Deliver, Kernel!EndPublish, Kernel!ChildEvent, Kernel!ReleaseEvent
<1> QED
  BY <1>3, <1>4, <1>5 DEF Kernel!RuntimeStep

\* The end of a release takes the subscriptions of the object with it.
LEMMA Ending ==
    ASSUME KernelFacts, NEW n \in Nodes, Kernel!EndRelease(n)
    PROVE  /\ stack # <<>> /\ stack[1].kind = "release" /\ stack[1].node = n /\ stack[1].announced
           /\ stack' = Tail(stack) /\ UNCHANGED nextId
           /\ state[n] = "Releasing" /\ state' = [state EXCEPT ![n] = "Released"]
           /\ \A id \in Ids :
                 IF events[id] # NoSub /\ n \in {events[id].subscriber, events[id].source}
                 THEN events'[id] = NoSub
                 ELSE events'[id] = events[id]
<1> DEFINE D == Kernel!Registry!EventsOf(n)
<1>1. /\ stack # <<>> /\ Head(stack).kind = "release" /\ Head(stack).node = n
      /\ Head(stack).announced /\ stack' = Tail(stack)
      /\ Kernel!Registry!EndRelease(n)
  BY DEF Kernel!EndRelease, Kernel!Top
<1>2. Head(stack) = stack[1]
  BY <1>1 DEF KernelFacts, CallsKnown
<1>3. /\ UNCHANGED nextId
      /\ state[n] = "Releasing" /\ state' = [state EXCEPT ![n] = "Released"]
      /\ events' = [id \in Ids |-> IF id \in D THEN NoSub ELSE events[id]]
  BY <1>1 DEF Kernel!Registry!EndRelease, Kernel!Registry!RemoveEvents, Kernel!Registry!Ids, Ids
<1>4. ASSUME NEW id \in Ids
      PROVE  id \in D <=> events[id] # NoSub /\ n \in {events[id].subscriber, events[id].source}
  <2>1. events[id] # NoSub => events[id].type \in Kernel!EventTypes
    BY DEF KernelFacts, TablesKnown, EventRecords
  <2>2. id \in eventsBySubscriber[n] <=> events[id] # NoSub /\ events[id].subscriber = n
    BY DEF KernelFacts, IndexesKnown
  <2>3. \A type \in Kernel!EventTypes :
           id \in eventsBySource[<<n, type>>] <=>
               events[id] # NoSub /\ events[id].source = n /\ events[id].type = type
    BY DEF KernelFacts, IndexesKnown
  <2>4. (\E type \in Kernel!EventTypes : id \in eventsBySource[<<n, type>>])
            <=> events[id] # NoSub /\ events[id].source = n
    BY <2>1, <2>3
  <2> QED
    BY <2>2, <2>4 DEF Kernel!Registry!EventsOf, Kernel!Registry!Ids, Ids
<1> HIDE DEF D
<1> QED
  BY <1>1, <1>2, <1>3, <1>4

-----------------------------------------------------------------------------
(* The tables. *)

\* The ranges that the numbers of a session lie in.
LEMMA Numbers ==
    ASSUME KernelFacts, SessionTypeOK
    PROVE  /\ nextId \in Nat /\ nextId \in Ids
           /\ \A n \in Nodes : watch[n] \in Nat /\ (Registered(n) => watch[n] \in Ids)
           /\ \A j \in 1 .. Len(entries) :
                 entries[j] \in Nat /\ (entries[j] # NoId => entries[j] \in Ids)
           /\ Len(entries) \in Nat
<1>1. \A j \in 1 .. Len(entries) : entries[j] \in Ids \cup {NoId}
  BY DEF SessionTypeOK
<1>2. \A n \in Nodes : watch[n] \in Ids \cup {NoId}
  BY DEF SessionTypeOK
<1>3. Ids \subseteq Nat
  BY DEF Ids
<1>4. entries \in Seq(Ids \cup {NoId})
  BY DEF SessionTypeOK
<1>5. Len(entries) \in Nat
  BY <1>4
<1>6. nextId \in Ids
  BY DEF KernelFacts, TablesKnown
<1>7. \A id \in Ids \cup {NoId} : id \in Nat /\ (id # NoId => id \in Ids)
  BY <1>3 DEF NoId
<1> QED
  BY <1>1, <1>2, <1>3, <1>5, <1>6, <1>7 DEF Registered

\* A step that leaves the tables of the session alone, and of the subscriptions of its
\* relay ends none behind a handle that is still heard of, keeps their invariant.
LEMMA TablesKept ==
    ASSUME KernelFacts, SessionTypeOK, TablePart,
           UNCHANGED <<watch, entries>>, unheard \subseteq unheard',
           nextId' \in {nextId, nextId + 1},
           \A id \in Ids :
              \/ events'[id] = events[id]
              \/ events'[id] = NoSub
              \/ id >= nextId /\ events'[id].subscriber # Relay,
           \A n \in Nodes \ unheard' :
              Registered(n) => events'[watch[n]] = events[watch[n]],
           \A n \in Nodes :
              state[n] = "Releasing" =>
                  \/ state'[n] = "Releasing"
                  \/ \A id \in Ids : events'[id] # NoSub => events'[id].source # n
    PROVE  TablePart'
<1>0. \A n \in Nodes : Registered(n)' <=> Registered(n)
  BY DEF Registered
<1>1. IdsGiven'
  BY Numbers DEF TablePart, IdsGiven
<1>2. WatchesDistinct'
  BY <1>0 DEF TablePart, WatchesDistinct
<1>3. ASSUME NEW id \in Ids, id < nextId
      PROVE  events'[id] = events[id] \/ events'[id] = NoSub
  BY <1>3, Numbers DEF Ids
<1>4. WatchesNameOwn'
  BY <1>0, <1>3, Numbers DEF TablePart, IdsGiven, WatchesNameOwn, WatchOf
<1>5. ASSUME NEW j \in 1 .. Len(entries), NEW n \in Nodes, LivesFor(entries[j], n)'
      PROVE  LivesFor(entries[j], n) /\ entries[j] \in Ids
  BY <1>3, <1>5, Numbers DEF TablePart, IdsGiven, LivesFor
<1>6. EntriesHaveHandles'
  BY <1>0, <1>5 DEF TablePart, EntriesHaveHandles, LivesFor
<1>7. WatchFirst'
  BY <1>0, <1>5 DEF TablePart, WatchFirst
<1>8. RelaySubscriptionsOwned'
  <2> SUFFICES ASSUME NEW id \in Ids, events'[id] # NoSub, events'[id].subscriber = Relay
               PROVE  events[id] # NoSub /\ events[id].subscriber = Relay
    BY DEF TablePart, RelaySubscriptionsOwned
  <2> QED
    OBVIOUS
<1>9. WatchesStand'
  BY <1>0 DEF TablePart, WatchesStand
<1> QED
  BY <1>1, <1>2, <1>4, <1>6, <1>7, <1>8, <1>9 DEF TablePart

\* A handle is registered: its watch is made while the object is Active, so no
\* subscription of the client to an object that was there before is left.
LEMMA RegisterTables ==
    ASSUME KernelFacts, SessionTypeOK, TablePart, NEW n \in Nodes, Register(n)
    PROVE  TablePart' /\ ~Registered(n) /\ watch' = [watch EXCEPT ![n] = nextId]
           /\ state[n] = "Active" /\ UNCHANGED <<state, stack, entries, unheard>>
           /\ nextId' = nextId + 1 /\ nextId \in Ids
<1> DEFINE r == WatchOf(n)
<1>1. /\ state[n] = "Active"
      /\ nextId \in Ids /\ nextId' = nextId + 1 /\ events[nextId] = NoSub
      /\ events' = [events EXCEPT ![nextId] = r]
      /\ \A id \in Ids : Subscribed(id) => id = nextId
      /\ UNCHANGED <<state, stack>>
  BY Subscribing, ReleasedIsType DEF Register, WatchOf
<1>2. ~Registered(n) /\ watch' = [watch EXCEPT ![n] = nextId] /\ UNCHANGED <<entries, unheard>>
  BY <1>1 DEF Register
<1>3. watch \in [Nodes -> Ids \cup {NoId}] /\ events \in [Ids -> EventRecords \cup {NoSub}]
  BY DEF SessionTypeOK, KernelFacts, TablesKnown
<1>4. r # NoSub
  BY NoSubAssumption, ReleasedIsType DEF WatchOf
<1>5. \A id \in Ids : events'[id] = IF id = nextId THEN r ELSE events[id]
  BY <1>1, <1>3
<1>6. \A m \in Nodes : watch'[m] = IF m = n THEN nextId ELSE watch[m]
  BY <1>2, <1>3
<1>7. \A m \in Nodes : Registered(m)' <=> Registered(m) \/ m = n
  BY <1>1, <1>6 DEF Registered, NoId, Ids
<1>8. IdsGiven'
  BY <1>1, <1>2, <1>6, Numbers DEF TablePart, IdsGiven
<1>9. WatchesDistinct'
  <2>1. \A m \in Nodes : watch[m] # nextId
    BY Numbers DEF TablePart, IdsGiven
  <2>2. \A j \in 1 .. Len(entries) : entries[j] # nextId
    BY Numbers DEF TablePart, IdsGiven
  <2> QED
    BY <1>2, <1>6, <1>7, <2>1, <2>2 DEF TablePart, WatchesDistinct
<1>10. ASSUME NEW m \in Nodes, m # n, Registered(m)
       PROVE  watch[m] \in Ids /\ watch'[m] = watch[m] /\ events'[watch[m]] = events[watch[m]]
  BY <1>5, <1>6, <1>10, Numbers DEF TablePart, IdsGiven
<1>11. WatchesNameOwn' /\ WatchesStand'
  <2>1. events'[watch'[n]] = r
    BY <1>1, <1>5, <1>6
  <2> QED
    BY <1>2, <1>7, <1>10, <2>1 DEF TablePart, WatchesNameOwn, WatchesStand, WatchOf
<1>12. ASSUME NEW j \in 1 .. Len(entries), NEW m \in Nodes, LivesFor(entries[j], m)'
       PROVE  LivesFor(entries[j], m) /\ entries'[j] = entries[j]
  <2>1. entries[j] # NoId
    BY <1>2, <1>12 DEF LivesFor
  <2>2. entries[j] \in Ids /\ entries[j] # nextId
    BY <2>1, Numbers DEF TablePart, IdsGiven
  <2> QED
    BY <1>2, <1>5, <1>12, <2>1, <2>2 DEF LivesFor
<1>13. EntriesHaveHandles'
  BY <1>1, <1>2, <1>7, <1>12 DEF TablePart, EntriesHaveHandles
<1>14. WatchFirst'
  <2>1. ASSUME NEW j \in 1 .. Len(entries), LivesFor(entries[j], n)
        PROVE  FALSE
    BY <1>1, <1>2, <2>1 DEF TablePart, EntriesHaveHandles
  <2> QED
    BY <1>2, <1>6, <1>7, <1>12, <2>1 DEF TablePart, WatchFirst
<1>15. RelaySubscriptionsOwned'
  <2> SUFFICES ASSUME NEW id \in Ids, events'[id] # NoSub, events'[id].subscriber = Relay
               PROVE  \/ \E m \in Nodes : watch'[m] = id
                      \/ \E j \in 1 .. Len(entries') : entries'[j] = id
    BY DEF RelaySubscriptionsOwned
  <2>1. CASE id = nextId
    BY <1>6, <2>1
  <2>2. CASE id # nextId
    <3>1. \/ \E m \in Nodes : watch[m] = id
          \/ \E j \in 1 .. Len(entries) : entries[j] = id
      BY <1>5, <2>2 DEF TablePart, RelaySubscriptionsOwned
    <3>2. watch[n] # id
      BY <1>2 DEF Registered, NoId, Ids
    <3> QED
      BY <1>2, <1>6, <3>1, <3>2
  <2> QED
    BY <2>1, <2>2
<1> QED
  BY <1>1, <1>2, <1>8, <1>9, <1>11, <1>13, <1>14, <1>15 DEF TablePart

\* The client subscribes, by a handle: its subscription comes after the watch.
LEMMA SubscribeTables ==
    ASSUME KernelFacts, SessionTypeOK, TablePart,
           NEW n \in Nodes, NEW type \in Kernel!EventTypes, SubscribeEvent(n, type)
    PROVE  /\ TablePart' /\ entries' = Append(entries, nextId)
           /\ UNCHANGED <<state, stack, phase, watch, unheard>> /\ nextId' = nextId + 1
<1> DEFINE r == [subscriber |-> Relay, source |-> n, type |-> type]
<1>1. /\ nextId \in Ids /\ nextId' = nextId + 1
      /\ events' = [events EXCEPT ![nextId] = r]
      /\ \A id \in Ids : Subscribed(id) => id = nextId
      /\ UNCHANGED <<state, stack>>
  BY Subscribing, ReleasedIsType DEF SubscribeEvent
<1>2. Registered(n) /\ entries' = Append(entries, nextId) /\ UNCHANGED <<phase, watch, unheard>>
  BY <1>1 DEF SubscribeEvent
<1>3. entries \in Seq(Ids \cup {NoId}) /\ events \in [Ids -> EventRecords \cup {NoSub}]
  BY DEF SessionTypeOK, KernelFacts, TablesKnown
<1>4. r # NoSub
  BY NoSubAssumption, ReleasedIsType
<1>5. r.subscriber = Relay /\ r.source = n
  OBVIOUS
<1> HIDE DEF r
<1>6. \A id \in Ids : events'[id] = IF id = nextId THEN r ELSE events[id]
  BY <1>1, <1>3
<1>7. /\ Len(entries') = Len(entries) + 1
      /\ \A j \in 1 .. Len(entries) : j \in 1 .. Len(entries') /\ entries'[j] = entries[j]
      /\ entries'[Len(entries')] = nextId /\ Len(entries') \in 1 .. Len(entries')
      /\ \A j \in 1 .. Len(entries') : j \in 1 .. Len(entries) \/ j = Len(entries')
  BY <1>1, <1>2, <1>3
<1>8. \A m \in Nodes : (Registered(m)' <=> Registered(m)) /\ watch'[m] = watch[m]
  BY <1>2 DEF Registered
<1>9. IdsGiven'
  <2>1. \A m \in Nodes : watch'[m] < nextId'
    BY <1>1, <1>8, Numbers DEF TablePart, IdsGiven
  <2>2. ASSUME NEW j \in 1 .. Len(entries') PROVE entries'[j] < nextId'
    <3>1. CASE j = Len(entries')
      BY <1>1, <1>7, <3>1, Numbers
    <3>2. CASE j \in 1 .. Len(entries)
      BY <1>1, <1>7, <3>2, Numbers DEF TablePart, IdsGiven
    <3> QED
      BY <1>7, <2>2, <3>1, <3>2
  <2> QED
    BY <2>1, <2>2 DEF IdsGiven
<1>10. \A m \in Nodes : Registered(m) => watch[m] \in Ids /\ watch[m] < nextId
  BY Numbers DEF TablePart, IdsGiven
<1>11. WatchesDistinct'
  <2>1. \A m \in Nodes : Registered(m) => watch[m] # nextId
    BY <1>10, Numbers
  <2> QED
    BY <1>7, <1>8, <2>1 DEF TablePart, WatchesDistinct
<1>12. \A m \in Nodes : Registered(m) => events'[watch[m]] = events[watch[m]]
  BY <1>6, <1>10, Numbers
<1>13. WatchesNameOwn' /\ WatchesStand'
  BY <1>2, <1>8, <1>12 DEF TablePart, WatchesNameOwn, WatchesStand, WatchOf
<1>14. ASSUME NEW j \in 1 .. Len(entries'), NEW m \in Nodes, LivesFor(entries[j], m)'
       PROVE  \/ j \in 1 .. Len(entries) /\ LivesFor(entries[j], m) /\ entries'[j] = entries[j]
              \/ entries'[j] = nextId /\ m = n
  <2>1. CASE j = Len(entries')
    BY <1>1, <1>5, <1>6, <1>7, <1>14, <2>1 DEF LivesFor
  <2>2. CASE j \in 1 .. Len(entries)
    <3>1. entries[j] # NoId /\ entries'[j] = entries[j]
      BY <1>7, <1>14, <2>2 DEF LivesFor
    <3>2. entries[j] \in Ids /\ entries[j] # nextId
      BY <2>2, <3>1, Numbers DEF TablePart, IdsGiven
    <3> QED
      BY <1>6, <1>14, <2>2, <3>1, <3>2 DEF LivesFor
  <2> QED
    BY <1>7, <2>1, <2>2
<1>15. EntriesHaveHandles'
  BY <1>1, <1>2, <1>8, <1>14 DEF TablePart, EntriesHaveHandles
<1>16. WatchFirst'
  BY <1>8, <1>10, <1>14 DEF TablePart, WatchFirst
<1>17. RelaySubscriptionsOwned'
  <2> SUFFICES ASSUME NEW id \in Ids, events'[id] # NoSub, events'[id].subscriber = Relay
               PROVE  \/ \E m \in Nodes : watch'[m] = id
                      \/ \E j \in 1 .. Len(entries') : entries'[j] = id
    BY DEF RelaySubscriptionsOwned
  <2>1. CASE id = nextId
    BY <1>7, <2>1
  <2>2. CASE id # nextId
    <3>1. \/ \E m \in Nodes : watch[m] = id
          \/ \E j \in 1 .. Len(entries) : entries[j] = id
      BY <1>6, <2>2 DEF TablePart, RelaySubscriptionsOwned
    <3> QED
      BY <1>7, <1>8, <3>1
  <2> QED
    BY <2>1, <2>2
<1> QED
  BY <1>1, <1>2, <1>9, <1>11, <1>13, <1>15, <1>16, <1>17 DEF TablePart

\* A subscription of the client ends, or its handle is destroyed after that.
LEMMA ClearTables ==
    ASSUME KernelFacts, SessionTypeOK, TablePart,
           NEW i \in 1 .. Len(entries), entries[i] # NoId, Drop(entries[i]), Cleared(i),
           UNCHANGED <<watch, unheard>>
    PROVE  /\ TablePart' /\ UNCHANGED <<state, stack, nextId>>
           /\ \A j \in 1 .. Len(entries) : entries'[j] = IF j = i THEN NoId ELSE entries[j]
           /\ Len(entries') = Len(entries)
<1> DEFINE id == entries[i]
<1>1. id \in Ids
  BY Numbers
<1>2. /\ events' = [d \in Ids |-> IF d = id THEN NoSub ELSE events[d]]
      /\ UNCHANGED <<state, nextId, stack>>
  BY <1>1, Dropping
<1>3. entries \in Seq(Ids \cup {NoId}) /\ entries' = [entries EXCEPT ![i] = NoId]
  BY DEF SessionTypeOK, Cleared
<1>4. /\ Len(entries') = Len(entries)
      /\ \A j \in 1 .. Len(entries) : entries'[j] = IF j = i THEN NoId ELSE entries[j]
  BY <1>3, ExceptSeq
<1>5. \A m \in Nodes : (Registered(m)' <=> Registered(m)) /\ watch'[m] = watch[m]
  BY DEF Registered
<1>6. \A d \in Ids : events'[d] = IF d = id THEN NoSub ELSE events[d]
  BY <1>2
<1> HIDE DEF id
<1>7. IdsGiven'
  <2>1. 0 < nextId
    BY Numbers DEF Ids
  <2> QED
    BY <1>2, <1>4, <1>5, <2>1, Numbers DEF TablePart, IdsGiven, NoId
<1>8. WatchesDistinct'
  BY <1>4, <1>5 DEF TablePart, WatchesDistinct, Registered
<1>9. \A m \in Nodes : Registered(m) => watch[m] \in Ids /\ events'[watch[m]] = events[watch[m]]
  BY <1>6, Numbers DEF TablePart, WatchesDistinct, id
<1>10. WatchesNameOwn' /\ WatchesStand'
  BY <1>5, <1>9 DEF TablePart, WatchesNameOwn, WatchesStand, WatchOf
<1>11. ASSUME NEW j \in 1 .. Len(entries), NEW m \in Nodes, LivesFor(entries[j], m)'
       PROVE  LivesFor(entries[j], m) /\ entries'[j] = entries[j]
  <2>1. entries'[j] = entries[j] /\ entries[j] # NoId
    BY <1>4, <1>11 DEF LivesFor
  <2>2. entries[j] \in Ids
    BY <2>1, Numbers
  <2> QED
    BY <1>6, <1>11, <2>1, <2>2 DEF LivesFor
<1>12. EntriesHaveHandles'
  BY <1>2, <1>4, <1>5, <1>11 DEF TablePart, EntriesHaveHandles
<1>13. WatchFirst'
  BY <1>4, <1>5, <1>11 DEF TablePart, WatchFirst
<1>14. RelaySubscriptionsOwned'
  <2> SUFFICES ASSUME NEW d \in Ids, events'[d] # NoSub, events'[d].subscriber = Relay
               PROVE  \/ \E m \in Nodes : watch'[m] = d
                      \/ \E j \in 1 .. Len(entries') : entries'[j] = d
    BY DEF RelaySubscriptionsOwned
  <2>1. d # id /\ events'[d] = events[d]
    BY <1>6
  <2>2. \/ \E m \in Nodes : watch[m] = d
        \/ \E j \in 1 .. Len(entries) : entries[j] = d
    BY <2>1 DEF TablePart, RelaySubscriptionsOwned
  <2> QED
    BY <1>4, <1>5, <2>1, <2>2 DEF id
<1> QED
  BY <1>2, <1>4, <1>7, <1>8, <1>10, <1>12, <1>13, <1>14 DEF TablePart

\* A handle is dropped with its watch.  The client has no subscriptions to its object
\* left, or the object is being released.
LEMMA ForgetTables ==
    ASSUME KernelFacts, SessionTypeOK, TablePart,
           NEW n \in Nodes, Registered(n), Drop(watch[n]), Forgotten(n),
           EntriesCleared \/ state[n] = "Releasing",
           UNCHANGED <<entries, unheard>>
    PROVE  /\ TablePart' /\ UNCHANGED <<state, stack, nextId>>
           /\ \A m \in Nodes : watch'[m] = IF m = n THEN NoId ELSE watch[m]
<1> DEFINE id == watch[n]
<1>1. id \in Ids
  BY Numbers
<1>2. /\ events' = [d \in Ids |-> IF d = id THEN NoSub ELSE events[d]]
      /\ UNCHANGED <<state, nextId, stack>>
  BY <1>1, Dropping
<1>3. \A m \in Nodes : watch'[m] = IF m = n THEN NoId ELSE watch[m]
  BY DEF SessionTypeOK, Forgotten
<1>4. \A m \in Nodes : Registered(m)' <=> Registered(m) /\ m # n
  BY <1>3 DEF Registered
<1>5. \A d \in Ids : events'[d] = IF d = id THEN NoSub ELSE events[d]
  BY <1>2
<1> HIDE DEF id
<1>6. IdsGiven'
  <2>1. 0 < nextId
    BY Numbers DEF Ids
  <2> QED
    BY <1>2, <1>3, <2>1, Numbers DEF TablePart, IdsGiven, NoId
<1>7. WatchesDistinct'
  <2>1. ASSUME NEW m \in Nodes, NEW k \in Nodes, Registered(m)', watch'[m] = watch'[k]
        PROVE  m = k
    <3>1. k # n /\ m # n /\ Registered(m)
      BY <1>3, <1>4, <2>1 DEF Registered
    <3> QED
      BY <1>3, <2>1, <3>1 DEF TablePart, WatchesDistinct
  <2>2. UNCHANGED entries
    OBVIOUS
  <2>3. ASSUME NEW m \in Nodes, NEW j \in 1 .. Len(entries), Registered(m)'
        PROVE  watch'[m] # entries[j]
    <3>1. m # n /\ Registered(m) /\ watch'[m] = watch[m]
      BY <1>3, <1>4, <2>3
    <3> QED
      BY <3>1 DEF TablePart, WatchesDistinct
  <2> QED
    BY <2>1, <2>2, <2>3 DEF WatchesDistinct
<1>8. ASSUME NEW m \in Nodes, Registered(m), m # n
      PROVE  watch[m] \in Ids /\ watch'[m] = watch[m] /\ events'[watch[m]] = events[watch[m]]
  BY <1>3, <1>5, <1>8, Numbers DEF TablePart, WatchesDistinct, id
<1>9. WatchesNameOwn' /\ WatchesStand'
  BY <1>4, <1>8 DEF TablePart, WatchesNameOwn, WatchesStand, WatchOf
<1>10. ASSUME NEW j \in 1 .. Len(entries), NEW m \in Nodes, LivesFor(entries[j], m)'
       PROVE  LivesFor(entries[j], m) /\ entries'[j] = entries[j]
  <2>1. entries[j] # NoId /\ entries[j] \in Ids
    BY <1>10, Numbers DEF LivesFor
  <2> QED
    BY <1>5, <1>10, <2>1 DEF LivesFor
<1>11. EntriesHaveHandles'
  BY <1>2, <1>4, <1>10 DEF TablePart, EntriesHaveHandles, EntriesCleared, LivesFor
<1>12. WatchFirst'
  BY <1>4, <1>8, <1>10 DEF TablePart, WatchFirst
<1>13. RelaySubscriptionsOwned'
  <2> SUFFICES ASSUME NEW d \in Ids, events'[d] # NoSub, events'[d].subscriber = Relay
               PROVE  \/ \E m \in Nodes : watch'[m] = d
                      \/ \E j \in 1 .. Len(entries') : entries'[j] = d
    BY DEF RelaySubscriptionsOwned
  <2>1. d # id /\ events'[d] = events[d]
    BY <1>5
  <2>2. \/ \E m \in Nodes : watch[m] = d
        \/ \E j \in 1 .. Len(entries) : entries[j] = d
    BY <2>1 DEF TablePart, RelaySubscriptionsOwned
  <2> QED
    BY <1>3, <2>1, <2>2 DEF id
<1> QED
  BY <1>2, <1>3, <1>6, <1>7, <1>9, <1>11, <1>12, <1>13 DEF TablePart

-----------------------------------------------------------------------------
(* Where the session stands. *)

\* The life of the relay is in the hands of the session.
LEMMA RelayDoes ==
    ASSUME KernelFacts
    PROVE  /\ Kernel!Create(Relay) =>
                  /\ state[Relay] = "Absent" /\ state' = [state EXCEPT ![Relay] = "Active"]
                  /\ UNCHANGED <<events, nextId, stack>>
           /\ Kernel!Release(Relay) =>
                  /\ state[Relay] = "Active" /\ state' = [state EXCEPT ![Relay] = "Releasing"]
                  /\ UNCHANGED <<events, nextId>>
                  /\ \E f : QuietFrame(f) /\ stack' = <<f>> \o stack
           /\ Kernel!Destroy(Relay) =>
                  /\ state[Relay] = "Released" /\ state' = [state EXCEPT ![Relay] = "Absent"]
                  /\ UNCHANGED <<events, nextId, stack>>
<1>1. ASSUME Kernel!Release(Relay) PROVE \E f : QuietFrame(f) /\ stack' = <<f>> \o stack
  BY <1>1 DEF Kernel!Release, QuietFrame
<1> QED
  BY <1>1 DEF Kernel!Create, Kernel!Release, Kernel!Destroy, Kernel!control,
     Kernel!Registry!Create, Kernel!Registry!BeginRelease, Kernel!Registry!Destroy,
     Kernel!Registry!Active, Kernel!Registry!registry, Kernel!Registry!eventTables

\* Returns of handlers, exceptions and the events of the runtime change no table.
LEMMA TablesStay ==
    ASSUME Kernel!HandlerReturn \/ Kernel!HandlerThrow \/ UNCHANGED Kernel!tables
    PROVE  UNCHANGED <<state, events, nextId>>
  BY DEF Kernel!HandlerReturn, Kernel!HandlerThrow, Kernel!tables, Kernel!subscriptions

\* Every step leaves the session and its relay in agreement.
LEMMA PhaseKept ==
    ASSUME KernelFacts, SessionTypeOK, PhaseInv, Next
    PROVE  PhaseInv'
<1> USE DEF PhaseInv, Registered
<1>0. Relay \in Nodes /\ Root \in Nodes
      /\ state \in [Nodes -> {"Absent", "Active", "Releasing", "Released"}]
  BY ReleasedIsType DEF KernelFacts, TablesKnown
<1>1. CASE OpenSession
  BY <1>0, <1>1, RelayDoes DEF OpenSession
<1>2. ASSUME NEW n \in Nodes, Register(n)
      PROVE  state[Relay] = "Active" /\ UNCHANGED <<state, entries>>
  BY <1>0, <1>2, Subscribing, ReleasedIsType DEF Register
<1>3. CASE Construct
  BY <1>0, <1>2, <1>3 DEF Construct
<1>4. ASSUME NEW n \in Nodes, Resolve(n)
      PROVE  PhaseInv'
  BY <1>2, <1>4 DEF Resolve, Operation
<1>5. ASSUME NEW n \in Nodes, Registered(n), Drop(watch[n]), Forgotten(n)
      PROVE  /\ UNCHANGED state
             /\ \A m \in Nodes : Registered(m)' => Registered(m)
  BY <1>5, Dropping, Numbers DEF Forgotten, SessionTypeOK
<1>6. ASSUME NEW n \in Nodes, Invalidate(n)
      PROVE  PhaseInv'
  BY <1>5, <1>6 DEF Invalidate, Called
<1>7. ASSUME NEW n \in Nodes, CloseHandle(n)
      PROVE  PhaseInv'
  BY <1>5, <1>7 DEF CloseHandle, EntriesCleared
<1>8. ASSUME NEW n \in Nodes, NEW type \in Kernel!EventTypes, SubscribeEvent(n, type)
      PROVE  PhaseInv'
  BY <1>0, <1>8, Subscribing DEF SubscribeEvent, Operation
<1>9. ASSUME NEW i \in 1 .. Len(entries), CancelEvent(i) \/ CloseEntry(i)
      PROVE  PhaseInv'
  <2>1. UNCHANGED <<state, phase, watch>> /\ entries[i] # NoId
    BY <1>9, Dropping, Numbers DEF CancelEvent, CloseEntry
  <2> QED
    BY <1>9, <2>1 DEF CancelEvent, CloseEntry, Operation, EntriesCleared
<1>10. CASE WatchReturns
  BY <1>10, TablesStay DEF WatchReturns
<1>11. CASE Close
  BY <1>11 DEF Close, Operation, kernelVars
<1>12. CASE ReleaseRelay
  BY <1>0, <1>12, RelayDoes DEF ReleaseRelay, session, EntriesCleared
<1>13. CASE DeleteRelay
  BY <1>0, <1>13, RelayDoes DEF DeleteRelay
<1>14. CASE UserStep
  BY <1>14, OthersDo DEF session, EntriesCleared
<1>15. CASE HandlerReturn \/ HandlerThrow
  BY <1>15, TablesStay DEF HandlerReturn, HandlerThrow, session, EntriesCleared
<1>16. CASE RuntimeStep
  <2>1. UNCHANGED <<phase, watch, entries>>
    BY <1>16 DEF RuntimeStep
  <2>2. UNCHANGED state \/ \E n \in Nodes :
            state[n] = "Releasing" /\ state' = [state EXCEPT ![n] = "Released"]
    BY <1>16, RuntimeDoes, TablesStay, Ending DEF RuntimeStep
  <2> QED
    BY <1>0, <2>1, <2>2 DEF EntriesCleared
<1> QED
  BY <1>1, <1>3, <1>4, <1>6, <1>7, <1>8, <1>9, <1>10, <1>11, <1>12, <1>13, <1>14, <1>15, <1>16
     DEF Next, SessionStep

-----------------------------------------------------------------------------
(* The tables, step by step. *)

\* A watch that has been called was called by the release of its object.
LEMMA CalledFacts ==
    ASSUME KernelFacts, CallPart, NEW n \in Nodes, Called(n)
    PROVE  /\ 1 \in 1 .. Len(stack) /\ stack[1].kind = "handler" /\ stack[1].id = watch[n]
           /\ 2 \in 1 .. Len(stack) /\ IsReleased(stack[2], n)
           /\ phase = "open" /\ state[n] = "Releasing"
<1>1. stack \in Seq(Calls) /\ stack # <<>> /\ Registered(n)
  BY DEF Called, Kernel!Top, KernelFacts, CallsKnown
<1>2. Head(stack) = stack[1] /\ 1 \in 1 .. Len(stack)
  BY <1>1
<1>3. stack[1].kind = "handler" /\ stack[1].id = watch[n]
  BY <1>2 DEF Called, Kernel!Top
<1>4. 2 \in 1 .. Len(stack) /\ IsReleased(stack[2], n) /\ phase = "open"
  BY <1>1, <1>2, <1>3 DEF CallPart, CallFits, HandlerFits
<1>5. 3 \in 1 .. Len(stack) /\ stack[3].kind = "release" /\ stack[3].node = n
  <2>1. /\ 2 + 1 \in 1 .. Len(stack)
        /\ stack[2 + 1].kind = "release" /\ stack[2 + 1].node = stack[2].source
    BY <1>4 DEF KernelFacts, CallsKnown, IsReleased
  <2> QED
    BY <1>4, <2>1 DEF IsReleased
<1>6. state[n] = "Releasing"
  BY <1>5 DEF KernelFacts, CallsKnown
<1> QED
  BY <1>2, <1>3, <1>4, <1>6

\* The runtime ends subscriptions only with the release of one of their objects, and a
\* release that ends has been heard of.
LEMMA RuntimeTables ==
    ASSUME KernelFacts, SessionTypeOK, PhaseInv, TablePart, CallPart,
           RuntimeStep
    PROVE  TablePart'
<1>0. UNCHANGED <<watch, entries>> /\ unheard \subseteq unheard' /\ nextId \in Nat
  BY Numbers DEF RuntimeStep
<1>1. CASE UNCHANGED Kernel!tables
  BY <1>0, <1>1, TablesStay, TablesKept
<1>2. ASSUME NEW n \in Nodes, Kernel!EndRelease(n)
      PROVE  TablePart'
  <2>1. /\ stack # <<>> /\ stack[1].kind = "release" /\ stack[1].node = n /\ stack[1].announced
        /\ nextId' = nextId
        /\ state[n] = "Releasing" /\ state' = [state EXCEPT ![n] = "Released"]
        /\ \A id \in Ids :
              IF events[id] # NoSub /\ n \in {events[id].subscriber, events[id].source}
              THEN events'[id] = NoSub
              ELSE events'[id] = events[id]
    BY <1>2, Ending
  <2>2. 1 \in 1 .. Len(stack)
    BY <2>1 DEF KernelFacts, CallsKnown
  <2>3. ASSUME NEW m \in Nodes \ unheard, Registered(m)
        PROVE  events'[watch[m]] = events[watch[m]]
    <3>1. watch[m] \in Ids /\ events[watch[m]] = WatchOf(m)
      BY <2>3, Numbers DEF TablePart, WatchesStand, WatchOf
    <3>2. n # Relay
      BY <2>1, <2>3 DEF PhaseInv
    <3>3. n # m
      BY <2>1, <2>2, <2>3 DEF CallPart, CallFits, ReleaseFits
    <3> QED
      BY <2>1, <3>1, <3>2, <3>3 DEF WatchOf
  <2>4. \A id \in Ids : events'[id] = events[id] \/ events'[id] = NoSub
    BY <2>1
  <2>5. ASSUME NEW m \in Nodes, state[m] = "Releasing"
        PROVE  \/ state'[m] = "Releasing"
               \/ \A id \in Ids : events'[id] # NoSub => events'[id].source # m
    BY <2>1, <2>5 DEF KernelFacts, TablesKnown
  <2> QED
    BY <1>0, <2>1, <2>3, <2>4, <2>5, TablesKept
<1> QED
  BY <1>1, <1>2, RuntimeDoes DEF RuntimeStep

\* Closing leaves nothing behind.
LEMMA DeleteTables ==
    ASSUME KernelFacts, SessionTypeOK, PhaseInv, TablePart, DeleteRelay
    PROVE  TablePart' /\ \A n \in Nodes : ~Registered(n)
<1>1. /\ state[Relay] = "Released" /\ UNCHANGED <<events, nextId, watch>>
      /\ phase = "closing" /\ entries' = <<>> /\ unheard' = {}
  BY RelayDoes DEF DeleteRelay
<1>2. \A n \in Nodes : ~Registered(n) /\ ~Registered(n)'
  BY <1>1 DEF PhaseInv, Registered
<1>3. EntriesCleared
  BY <1>1 DEF PhaseInv
<1>4. \A j \in 1 .. Len(entries') : FALSE
  BY <1>1
<1>5. \A id \in Ids : events[id] # NoSub => events[id].subscriber # Relay
  BY <1>2, <1>3 DEF TablePart, RelaySubscriptionsOwned, EntriesCleared, NoId, Ids, Registered
<1> QED
  BY <1>1, <1>2, <1>4, <1>5 DEF TablePart, IdsGiven, WatchesDistinct, WatchesNameOwn,
     EntriesHaveHandles, WatchFirst, RelaySubscriptionsOwned, WatchesStand

\* Every step keeps the tables.
LEMMA TablesStep ==
    ASSUME KernelFacts, SessionTypeOK, PhaseInv, TablePart, CallPart, Next
    PROVE  TablePart'
<1>0. nextId \in Nat /\ Relay \in Nodes
  BY Numbers, ReleasedIsType
<1>1. CASE OpenSession \/ ReleaseRelay
  <2>1. UNCHANGED <<events, nextId, watch, entries, unheard>>
    BY <1>1, RelayDoes DEF OpenSession, ReleaseRelay, session
  <2>2. \A n \in Nodes : state[n] = "Releasing" => state'[n] = "Releasing"
    BY <1>1, RelayDoes DEF OpenSession, ReleaseRelay, KernelFacts, TablesKnown
  <2> QED
    BY <1>0, <2>1, <2>2, TablesKept
<1>2. CASE Construct
  BY <1>0, <1>2, RegisterTables, RootRelayAssumption DEF Construct
<1>3. ASSUME NEW n \in Nodes, Resolve(n)
      PROVE  TablePart'
  BY <1>3, RegisterTables DEF Resolve
<1>4. ASSUME NEW n \in Nodes, Invalidate(n)
      PROVE  TablePart'
  BY <1>4, CalledFacts, ForgetTables DEF Invalidate, Called
<1>5. ASSUME NEW n \in Nodes, CloseHandle(n)
      PROVE  TablePart'
  BY <1>5, ForgetTables DEF CloseHandle
<1>6. ASSUME NEW n \in Nodes, NEW type \in Kernel!EventTypes, SubscribeEvent(n, type)
      PROVE  TablePart'
  BY <1>6, SubscribeTables
<1>7. ASSUME NEW i \in 1 .. Len(entries), CancelEvent(i) \/ CloseEntry(i)
      PROVE  TablePart'
  BY <1>7, ClearTables DEF CancelEvent, CloseEntry
<1>8. CASE WatchReturns \/ HandlerReturn \/ HandlerThrow
  <2>1. UNCHANGED <<watch, entries, state, events, nextId>> /\ unheard \subseteq unheard'
    BY <1>8, TablesStay DEF WatchReturns, HandlerReturn, HandlerThrow, session
  <2> QED
    BY <1>0, <2>1, TablesKept
<1>9. CASE Close
  <2>1. UNCHANGED <<watch, entries, state, events, nextId, unheard>>
    BY <1>9 DEF Close, kernelVars
  <2> QED
    BY <1>0, <2>1, TablesKept
<1>10. CASE DeleteRelay
  BY <1>10, DeleteTables
<1>11. CASE UserStep
  <2>1. /\ UNCHANGED <<watch, entries, unheard>> /\ nextId' \in {nextId, nextId + 1}
        /\ \A n \in Nodes : state[n] = "Releasing" => state'[n] = "Releasing"
        /\ \A id \in Ids :
              \/ events'[id] = events[id]
              \/ events'[id] = NoSub /\ events[id] # NoSub /\ events[id].subscriber # Relay
              \/ id >= nextId /\ events'[id] # NoSub /\ events'[id].subscriber # Relay
    BY <1>11, OthersDo DEF session
  <2>2. ASSUME NEW n \in Nodes \ unheard, Registered(n)
        PROVE  events'[watch[n]] = events[watch[n]]
    <3>1. watch[n] \in Ids /\ watch[n] < nextId /\ events[watch[n]] = WatchOf(n)
      BY <2>2, Numbers DEF TablePart, IdsGiven, WatchesStand, WatchOf
    <3>2. ~(watch[n] >= nextId) /\ events[watch[n]].subscriber = Relay
      BY <1>0, <3>1, Numbers DEF WatchOf
    <3> QED
      BY <2>1, <3>1, <3>2
  <2> QED
    BY <1>0, <2>1, <2>2, TablesKept
<1>12. CASE RuntimeStep
  BY <1>12, RuntimeTables
<1> QED
  BY <1>1, <1>2, <1>3, <1>4, <1>5, <1>6, <1>7, <1>8, <1>9, <1>10, <1>11, <1>12
     DEF Next, SessionStep

-----------------------------------------------------------------------------
(* The calls in progress. *)

\* Frames put on a stack, or taken off it.
LEMMA OneOnTop ==
    ASSUME NEW S, NEW s \in Seq(S), NEW f
    PROVE  LET t == <<f>> \o s
           IN  /\ Len(t) = Len(s) + 1 /\ Len(t) \in Nat /\ t[1] = f
               /\ \A i \in 2 .. Len(t) : i - 1 \in 1 .. Len(s) /\ t[i] = s[i - 1]
<1> DEFINE T == S \cup {f}
<1>1. s \in Seq(T) /\ f \in T
  OBVIOUS
<1> HIDE DEF T
<1> QED
  BY <1>1

\* One frame in the place of the top one.
LEMMA OneForTop ==
    ASSUME NEW S, NEW s \in Seq(S), s # <<>>, NEW f
    PROVE  LET t == <<f>> \o Tail(s)
           IN  /\ Len(t) = Len(s) /\ Len(t) \in Nat /\ t[1] = f
               /\ \A i \in 2 .. Len(t) : i \in 1 .. Len(s) /\ t[i] = s[i]
<1>1. Tail(s) \in Seq(S) /\ Len(Tail(s)) = Len(s) - 1
      /\ \A i \in 1 .. Len(s) - 1 : Tail(s)[i] = s[i + 1]
  OBVIOUS
<1>2. Len(s) \in Nat
  OBVIOUS
<1> QED
  BY <1>1, <1>2, OneOnTop

\* Two frames in the place of the top one.
LEMMA TwoForTop ==
    ASSUME NEW S, NEW s \in Seq(S), s # <<>>, NEW f, NEW g
    PROVE  LET t == <<g>> \o (<<f>> \o Tail(s))
           IN  /\ Len(t) = Len(s) + 1 /\ Len(t) \in Nat /\ t[1] = g /\ t[2] = f
               /\ \A i \in 3 .. Len(t) : i - 1 \in 1 .. Len(s) /\ t[i] = s[i - 1]
<1> DEFINE r == <<f>> \o Tail(s)
           T == S \cup {f}
<1>1. s \in Seq(T) /\ f \in T
  OBVIOUS
<1>2. Tail(s) \in Seq(T)
  BY <1>1
<1>3. r \in Seq(T)
  BY <1>1, <1>2
<1>4. Len(r) = Len(s) /\ r[1] = f /\ \A i \in 2 .. Len(r) : i \in 1 .. Len(s) /\ r[i] = s[i]
  BY OneForTop
<1>5. Len(s) \in Nat /\ Len(s) >= 1
  OBVIOUS
<1> HIDE DEF r, T
<1>6. LET t == <<g>> \o r
      IN  /\ Len(t) = Len(r) + 1 /\ Len(t) \in Nat /\ t[1] = g
          /\ \A i \in 2 .. Len(t) : i - 1 \in 1 .. Len(r) /\ t[i] = r[i - 1]
  BY <1>3, OneOnTop
<1>7. LET t == <<g>> \o r
      IN  /\ Len(t) = Len(s) + 1 /\ Len(t) \in Nat /\ t[1] = g /\ t[2] = f
          /\ \A i \in 3 .. Len(t) : i - 1 \in 1 .. Len(s) /\ t[i] = s[i - 1]
  BY <1>4, <1>5, <1>6
<1> QED
  BY <1>7 DEF r

\* A call stack that is the old one shifted by d, below the top p frames ...
Shifted(p, d) ==
    \A i \in p + 1 .. Len(stack') : i + d \in 1 .. Len(stack) /\ stack'[i] = stack[i + d]

\* ... which fit, as does what lies right below them.
Settled(p) ==
    /\ \A i \in 1 .. p : CallFits(i)'
    /\ p + 1 \in 1 .. Len(stack') => ReleaseFits(p + 1)'

\* The calls of a step of user code or of the runtime: no watch has been called.
StepOutside ==
    /\ \A n \in Nodes : ~Called(n)
    /\ UNCHANGED <<watch, entries>>
    /\ unheard \subseteq unheard'
    /\ nextId \in Nat /\ nextId' \in Nat /\ nextId' >= nextId

\* What is known of the calls by their kinds.
LEMMA CallTyped ==
    ASSUME KernelFacts, NEW k \in 1 .. Len(stack)
    PROVE  /\ stack[k].kind \in {"handler", "publish", "connect", "release"}
           /\ stack[k].kind = "handler" => stack[k].id \in Ids /\ stack[k].id \in Nat
           /\ stack[k].kind = "publish" =>
                 stack[k].ids \subseteq Ids /\ stack[k].source \in Nodes
           /\ stack[k].kind = "connect" =>
                 stack[k].todo \in {<<>>, <<"ChildConnected">>, <<"ChildDisconnected">>,
                                    <<"ChildDisconnected", "ChildConnected">>}
<1>1. stack[k] \in Calls
  BY DEF KernelFacts, CallsKnown
<1>2. Ids = Kernel!Registry!Ids /\ Ids \subseteq Nat
  BY DEF Ids, Kernel!Registry!Ids
<1> QED
  BY <1>1, <1>2 DEF Calls, Kernel!HandlerFrames, Kernel!PublishFrames,
     Kernel!ConnectFrames, Kernel!ReleaseFrames

\* Where the watch of an object is a handler in progress, it has been called.
LEMMA NoWatchRuns ==
    ASSUME KernelFacts, SessionTypeOK, CallPart, \A n \in Nodes : ~Called(n),
           NEW k \in 1 .. Len(stack), stack[k].kind = "handler",
           NEW n \in Nodes, Registered(n)
    PROVE  stack[k].id # watch[n]
<1> SUFFICES ASSUME stack[k].id = watch[n] PROVE FALSE
  OBVIOUS
<1>1. k = 1
  BY DEF CallPart, CallFits, HandlerFits
<1>2. stack # <<>> /\ Head(stack) = stack[1]
  BY <1>1 DEF KernelFacts, CallsKnown
<1> QED
  BY <1>1, <1>2 DEF Called, Kernel!Top

\* Then all of the calls fit.
LEMMA CallsKept ==
    ASSUME KernelFacts, SessionTypeOK, CallPart, StepOutside, Len(stack') \in Nat,
           NEW p \in Nat, NEW d \in Int, Shifted(p, d), Settled(p)
    PROVE  CallPart'
<1>0. Len(stack) \in Nat
  BY DEF KernelFacts, CallsKnown
<1>1. \A n \in Nodes : (Registered(n)' <=> Registered(n)) /\ watch'[n] = watch[n]
  BY DEF StepOutside, Registered
<1> SUFFICES ASSUME NEW i \in p + 1 .. Len(stack') PROVE CallFits(i)'
  BY <1>0 DEF CallPart, Settled
<1> DEFINE k == i + d
<1>2. k \in 1 .. Len(stack) /\ stack'[i] = stack[k]
  BY DEF Shifted
<1>3. HandlerFits(k) /\ PublishFits(k) /\ ReleaseFits(k) /\ ToldFits(k)
  BY <1>2 DEF CallPart, CallFits
<1> HIDE DEF k
<1>4. HandlerFits(i)'
  <2>1. CASE stack[k].kind = "handler"
    <3>1. \A n \in Nodes : Registered(n) => stack[k].id # watch[n]
      BY <1>2, <2>1, NoWatchRuns DEF StepOutside
    <3>2. stack[k].id \in Nat /\ stack[k].id < nextId
      BY <1>2, <1>3, <2>1, CallTyped DEF HandlerFits
    <3>3. stack[k].id < nextId'
      BY <3>2 DEF StepOutside
    <3> QED
      BY <1>1, <1>2, <3>1, <3>3 DEF HandlerFits
  <2>2. CASE stack[k].kind # "handler"
    BY <1>2, <2>2 DEF HandlerFits
  <2> QED
    BY <2>1, <2>2
<1>5. PublishFits(i)'
  BY <1>1, <1>2, <1>3 DEF PublishFits, StepOutside, IsReleased
<1>6. ReleaseFits(i)'
  <2>1. CASE i = p + 1
    BY <1>0, <2>1 DEF Settled
  <2>2. CASE i # p + 1
    <3>1. i - 1 \in p + 1 .. Len(stack')
      BY <2>2
    <3>2. (i - 1) + d = k - 1
      BY DEF k
    <3>3. k - 1 \in 1 .. Len(stack) /\ stack'[i - 1] = stack[k - 1] /\ i - 1 \in 1 .. Len(stack')
      BY <3>1, <3>2 DEF Shifted
    <3> QED
      BY <1>1, <1>2, <1>3, <3>3 DEF ReleaseFits, StepOutside, IsReleased
  <2> QED
    BY <2>1, <2>2
<1>7. ToldFits(i)'
  <2>1. CASE i + 1 \in 1 .. Len(stack')
    <3>1. i + 1 \in p + 1 .. Len(stack')
      BY <2>1
    <3>2. (i + 1) + d = k + 1
      BY DEF k
    <3>3. k + 1 \in 1 .. Len(stack) /\ stack'[i + 1] = stack[k + 1]
      BY <3>1, <3>2 DEF Shifted
    <3> QED
      BY <1>1, <1>2, <1>3, <3>3 DEF ToldFits, StepOutside, IsReleased
  <2>2. CASE i + 1 \notin 1 .. Len(stack')
    BY <2>2 DEF ToldFits
  <2> QED
    BY <2>1, <2>2
<1> QED
  BY <1>4, <1>5, <1>6, <1>7 DEF CallFits

\* Such steps are those of user code and of the runtime.
LEMMA Outside ==
    ASSUME KernelFacts, KernelFacts', SessionTypeOK, PhaseInv,
           UserStep \/ HandlerReturn \/ RuntimeStep \/ HandlerThrow
    PROVE  /\ StepOutside
           /\ \A n \in Nodes : Registered(n) => phase = "open" /\ state[Relay] = "Active"
           /\ Len(stack') \in Nat /\ Len(stack) \in Nat
<1>1. ~SessionRuns \/ RelayReleases
  BY DEF UserStep, HandlerReturn, RuntimeStep, HandlerThrow
<1>2. \A n \in Nodes : Registered(n) => phase = "open" /\ state[Relay] = "Active"
  BY <1>1 DEF SessionRuns, RelayReleases, PhaseInv
<1>3. \A n \in Nodes : ~Called(n)
  BY <1>1 DEF SessionRuns, RelayReleases, PhaseInv, Called
<1>4. UNCHANGED <<watch, entries>> /\ unheard \subseteq unheard'
  BY DEF UserStep, HandlerReturn, RuntimeStep, HandlerThrow, session
<1>5. nextId \in Nat /\ nextId' \in Nat
  BY DEF KernelFacts, TablesKnown, Ids
<1>6. nextId' \in {nextId, nextId + 1}
  <2>1. CASE UserStep
    BY <2>1, OthersDo
  <2>2. CASE HandlerReturn \/ HandlerThrow
    BY <2>2, TablesStay DEF HandlerReturn, HandlerThrow
  <2>3. CASE RuntimeStep
    BY <2>3, RuntimeDoes, TablesStay, Ending DEF RuntimeStep
  <2> QED
    BY <2>1, <2>2, <2>3
<1>7. Len(stack') \in Nat /\ Len(stack) \in Nat
  BY DEF KernelFacts, CallsKnown
<1> QED
  BY <1>2, <1>3, <1>4, <1>5, <1>6, <1>7 DEF StepOutside

\* What lies on top of the stack announces no release whose handle is still there.
Silent(k) ==
    \A n \in Nodes \ unheard :
        ~ (Registered(n) /\ stack[k].kind = "release" /\ stack[k].node = n /\ stack[k].announced)

\* A frame below the top that is not an announcement.
LEMMA SilentBelow ==
    ASSUME KernelFacts, CallPart, NEW k \in 1 .. Len(stack),
           k = 1 \/ \A n \in Nodes \ unheard :
                        Registered(n) => ~IsReleased(stack[k - 1], n)
    PROVE  Silent(k)
<1>1. ReleaseFits(k) /\ Len(stack) \in Nat
  BY DEF CallPart, CallFits, KernelFacts, CallsKnown
<1>2. k = 1 => k - 1 \notin 1 .. Len(stack)
  OBVIOUS
<1> QED
  BY <1>1, <1>2 DEF Silent, ReleaseFits

\* What is silent needs no announcement on top of it.
LEMMA SilentFits ==
    ASSUME StepOutside, NEW i, NEW k, Silent(k), stack'[i] = stack[k]
    PROVE  ReleaseFits(i)'
  BY DEF Silent, ReleaseFits, StepOutside, Registered

\* Frames that are neither a handler nor part of a release under way.
LEMMA QuietFits ==
    ASSUME NEW i, QuietFrame(stack'[i])
    PROVE  CallFits(i)'
  BY DEF QuietFrame, CallFits, HandlerFits, PublishFits, ReleaseFits, ToldFits, IsReleased

\* A step outside the session that leaves the calls as they are.
LEMMA SameCalls ==
    ASSUME KernelFacts, SessionTypeOK, CallPart, StepOutside, UNCHANGED stack
    PROVE  CallPart'
<1>1. Len(stack) \in Nat
  BY DEF KernelFacts, CallsKnown
<1>2. Shifted(0, 0)
  BY <1>1 DEF Shifted
<1>3. 1 \in 1 .. Len(stack') => ReleaseFits(1)'
  BY <1>1, SilentBelow, SilentFits
<1>4. Settled(0)
  BY <1>3 DEF Settled
<1> QED
  BY <1>1, <1>2, <1>4, CallsKept

\* User code adds no call that a session has to do with.
LEMMA UserStepCalls ==
    ASSUME KernelFacts, KernelFacts', SessionTypeOK, PhaseInv, CallPart, UserStep
    PROVE  CallPart'
<1>1. StepOutside /\ Len(stack') \in Nat /\ Len(stack) \in Nat /\ Quiet(stack')
  BY Outside, OthersDo
<1>2. CASE stack' = stack
  BY <1>1, <1>2, SameCalls
<1>3. ASSUME NEW f, QuietFrame(f), stack' = <<f>> \o stack
      PROVE  CallPart'
  <2>1. /\ stack'[1] = f
        /\ \A i \in 2 .. Len(stack') : i - 1 \in 1 .. Len(stack) /\ stack'[i] = stack[i - 1]
    BY <1>3, OneOnTop DEF KernelFacts, CallsKnown
  <2>2. Shifted(1, -1)
    BY <2>1 DEF Shifted
  <2>3. CallFits(1)'
    BY <1>3, <2>1, QuietFits
  <2>4. 2 \in 1 .. Len(stack') => ReleaseFits(2)'
    <3> SUFFICES ASSUME 2 \in 1 .. Len(stack') PROVE ReleaseFits(2)'
      OBVIOUS
    <3>1. 1 \in 1 .. Len(stack) /\ stack'[2] = stack[1]
      BY <1>1, <2>1
    <3> QED
      BY <1>1, <3>1, SilentBelow, SilentFits
  <2>5. Settled(1)
    BY <2>3, <2>4 DEF Settled
  <2> QED
    BY <1>1, <2>2, <2>5, CallsKept
<1> QED
  BY <1>1, <1>2, <1>3 DEF Quiet

\* A frame is popped that announces no release whose handle is still there.
LEMMA PopCalls ==
    ASSUME KernelFacts, KernelFacts', SessionTypeOK, CallPart, StepOutside,
           stack # <<>>, stack' = Tail(stack),
           \A n \in Nodes \ unheard : Registered(n) => ~IsReleased(stack[1], n)
    PROVE  CallPart'
<1>1. /\ Len(stack') \in Nat /\ Len(stack) \in Nat /\ Len(stack') = Len(stack) - 1
      /\ \A i \in 1 .. Len(stack') : i + 1 \in 1 .. Len(stack) /\ stack'[i] = stack[i + 1]
  BY DEF KernelFacts, CallsKnown
<1>2. Shifted(0, 1)
  BY <1>1 DEF Shifted
<1>3. ASSUME 1 \in 1 .. Len(stack')
      PROVE  ReleaseFits(1)'
  <2>1. 2 \in 1 .. Len(stack) /\ stack'[1] = stack[2] /\ 2 - 1 = 1
    BY <1>1, <1>3
  <2>2. Silent(2)
    BY <2>1, SilentBelow
  <2> QED
    BY <2>1, <2>2, SilentFits
<1>4. Settled(0)
  BY <1>3 DEF Settled
<1> QED
  BY <1>1, <1>2, <1>4, CallsKept

\* A handler is no announcement.
LEMMA HandlerReturnCalls ==
    ASSUME KernelFacts, KernelFacts', SessionTypeOK, PhaseInv, CallPart, HandlerReturn
    PROVE  CallPart'
<1>1. StepOutside
  BY Outside
<1>2. stack # <<>> /\ Head(stack).kind = "handler" /\ stack' = Tail(stack)
  BY DEF HandlerReturn, Kernel!HandlerReturn, Kernel!Top
<1>3. stack[1].kind = "handler"
  BY <1>2 DEF KernelFacts, CallsKnown
<1> QED
  BY <1>1, <1>2, <1>3, PopCalls DEF IsReleased

\* An exception that leaves the announcement of a release is the end of what was heard
\* of it.
LEMMA HandlerThrowCalls ==
    ASSUME KernelFacts, KernelFacts', SessionTypeOK, PhaseInv, CallPart, HandlerThrow
    PROVE  CallPart'
<1>1. StepOutside /\ Len(stack') \in Nat /\ Len(stack) \in Nat
  BY Outside
<1>2. PICK c \in 2 .. Len(stack) + 1 : stack' = SubSeq(stack, c, Len(stack))
  BY DEF HandlerThrow, Kernel!HandlerThrow
<1>3. /\ Len(stack') = Len(stack) - c + 1
      /\ \A i \in 1 .. Len(stack') :
            i + (c - 1) \in 1 .. Len(stack) /\ stack'[i] = stack[i + (c - 1)]
  BY <1>1, <1>2 DEF KernelFacts, CallsKnown
<1>4. c - 1 \in Int /\ c - 1 \in 1 .. Len(stack)
  BY <1>1
<1>5. Shifted(0, c - 1)
  BY <1>3 DEF Shifted
<1>6. ASSUME 1 \in 1 .. Len(stack')
      PROVE  ReleaseFits(1)'
  <2>1. c \in 1 .. Len(stack) /\ stack'[1] = stack[c]
    BY <1>3, <1>6
  <2> SUFFICES ASSUME NEW n \in Nodes \ unheard', Registered(n), stack[c].kind = "release",
                      stack[c].node = n, stack[c].announced
               PROVE  FALSE
    BY <1>1, <2>1 DEF ReleaseFits, StepOutside, Registered
  <2>2. n \notin unheard
    BY <1>1 DEF StepOutside
  <2>3. IsReleased(stack[c - 1], n)
    BY <2>1, <2>2 DEF CallPart, CallFits, ReleaseFits
  <2>4. watch[n] \in stack[c - 1].ids
    BY <1>1, <1>4, <2>2, <2>3 DEF CallPart, CallFits, PublishFits, StepOutside
  <2>5. c - 1 \in 1 .. Len(stack) - Len(stack')
    BY <1>1, <1>3
  <2>6. Lost(n)
    BY <2>3, <2>4, <2>5 DEF Lost, IsReleased
  <2> QED
    BY <2>6 DEF HandlerThrow
<1>7. Settled(0)
  BY <1>6 DEF Settled
<1> QED
  BY <1>1, <1>4, <1>5, <1>7, CallsKept

\* The next handler: the watch of an object is older than what the client has
\* subscribed to, so of the announcement of a release it hears first.
LEMMA DeliverCalls ==
    ASSUME KernelFacts, KernelFacts', SessionTypeOK, PhaseInv, TablePart, CallPart,
           RuntimeStep, Kernel!Deliver
    PROVE  CallPart'
<1>1. /\ StepOutside /\ Len(stack') \in Nat /\ Len(stack) \in Nat
      /\ \A n \in Nodes : Registered(n) => phase = "open" /\ state[Relay] = "Active"
  BY Outside
<1>2. /\ stack # <<>> /\ Head(stack) = stack[1] /\ stack[1].kind = "publish"
      /\ 1 \in 1 .. Len(stack) /\ stack \in Seq(Calls)
  <2>1. stack # <<>> /\ Head(stack).kind = "publish"
    BY DEF Kernel!Deliver, Kernel!Top
  <2>2. stack \in Seq(Calls)
    BY DEF KernelFacts, CallsKnown
  <2>3. Head(stack) = stack[1] /\ 1 \in 1 .. Len(stack)
    BY <2>1, <2>2
  <2> QED
    BY <2>1, <2>2, <2>3
<1> DEFINE f == stack[1]
<1>3. PICK id \in f.ids :
         LET rest == <<[f EXCEPT !.ids = @ \ {id}]>> \o Tail(stack)
         IN  /\ \A other \in f.ids : id <= other
             /\ stack' = IF events[id] # NoSub /\ state[events[id].subscriber] = "Active"
                         THEN <<[kind |-> "handler", id |-> id]>> \o rest
                         ELSE rest
  BY <1>2 DEF Kernel!Deliver
<1> DEFINE g == [f EXCEPT !.ids = @ \ {id}]
           h == [kind |-> "handler", id |-> id]
<1>4. g.kind = "publish" /\ g.source = f.source /\ g.type = f.type /\ g.ids = f.ids \ {id}
  <2>1. f \in Calls
    BY <1>2
  <2>2. f \in Kernel!PublishFrames
    BY <1>2, <2>1 DEF Calls, Kernel!HandlerFrames, Kernel!ConnectFrames, Kernel!ReleaseFrames
  <2> QED
    BY <2>2 DEF Kernel!PublishFrames
<1>5. id \in Ids /\ id \in Nat
  BY <1>2, CallTyped DEF Ids
<1>6. \A n \in Nodes : IsReleased(g, n) <=> IsReleased(f, n)
  BY <1>2, <1>4 DEF IsReleased
<1>7. h.kind = "handler" /\ h.id = id
  OBVIOUS
\* The watch of the object is called before it is taken from the snapshot.
<1>8. ASSUME NEW n \in Nodes \ unheard, Registered(n), IsReleased(f, n)
      PROVE  /\ watch[n] \in f.ids /\ id <= watch[n]
             /\ watch[n] = id => events[id] # NoSub /\ state[events[id].subscriber] = "Active"
  <2>1. watch[n] \in f.ids
    BY <1>1, <1>2, <1>8 DEF CallPart, CallFits, PublishFits, StepOutside
  <2>2. events[watch[n]] = WatchOf(n)
    BY <1>8 DEF TablePart, WatchesStand, WatchOf
  <2>3. WatchOf(n) # NoSub
    BY NoSubAssumption, ReleasedIsType DEF WatchOf
  <2> QED
    BY <1>1, <1>3, <1>8, <2>1, <2>2, <2>3 DEF WatchOf
<1>9. CASE events[id] # NoSub /\ state[events[id].subscriber] = "Active"
  <2>1. stack' = <<h>> \o (<<g>> \o Tail(stack))
    BY <1>3, <1>9
  <2>2. /\ stack'[1] = h /\ stack'[2] = g /\ Len(stack') = Len(stack) + 1
        /\ \A i \in 3 .. Len(stack') : i - 1 \in 1 .. Len(stack) /\ stack'[i] = stack[i - 1]
    BY <1>2, <2>1, TwoForTop
  <2> HIDE DEF f, g, h
  <2>3. Shifted(2, -1)
    BY <2>2 DEF Shifted
  <2>4. 1 \in 1 .. Len(stack') /\ 2 \in 1 .. Len(stack')
    BY <1>1, <1>2, <2>2
  <2>5. events[id].source = f.source /\ events[id].type = f.type
    BY <1>2, <1>9 DEF KernelFacts, CallsKnown, f
  <2>6. HandlerFits(1)'
    <3>1. id < nextId'
      BY <1>1, <1>5, <1>9 DEF KernelFacts, TablesKnown, StepOutside
    <3>2. ASSUME NEW n \in Nodes, Registered(n), id = watch[n]
          PROVE  phase' = "open" /\ IsReleased(g, n)
      <4>1. events[id] = WatchOf(n)
        BY <1>9, <3>2 DEF TablePart, WatchesNameOwn
      <4>2. IsReleased(f, n)
        BY <1>2, <2>5, <4>1 DEF WatchOf, IsReleased, f
      <4> QED
        BY <1>1, <1>6, <3>2, <4>2 DEF RuntimeStep
    <3> QED
      BY <1>1, <1>7, <2>2, <2>4, <3>1, <3>2 DEF HandlerFits, StepOutside, Registered
  <2>7. PublishFits(1)' /\ ReleaseFits(1)' /\ HandlerFits(2)' /\ ReleaseFits(2)' /\ ToldFits(2)'
    BY <1>4, <1>7, <2>2
       DEF PublishFits, ReleaseFits, HandlerFits, ToldFits, IsReleased
  <2>8. ToldFits(1)'
    <3> SUFFICES ASSUME NEW n \in Nodes \ unheard, IsReleased(f, n), Registered(n),
                        NEW j \in 1 .. Len(entries), entries[j] = id
                 PROVE  FALSE
      BY <1>1, <1>6, <1>7, <2>2 DEF ToldFits, StepOutside, Registered
    <3>1. LivesFor(entries[j], n)
      BY <1>5, <1>9, <2>5 DEF LivesFor, IsReleased, NoId, Ids
    <3>2. watch[n] < id /\ watch[n] \in Nat
      BY <3>1, Numbers DEF TablePart, WatchFirst
    <3> QED
      BY <1>5, <1>8, <3>2
  <2>9. PublishFits(2)'
    <3> SUFFICES ASSUME NEW n \in Nodes \ unheard, IsReleased(f, n), Registered(n)
                 PROVE  watch[n] \in g.ids \/ Called(n)'
      BY <1>1, <1>6, <2>2 DEF PublishFits, StepOutside, Registered
    <3>1. CASE watch[n] = id
      <4>1. Head(stack') = h /\ stack' # <<>>
        BY <2>1
      <4> QED
        BY <1>1, <1>7, <3>1, <4>1 DEF Called, Kernel!Top, StepOutside, Registered
    <3>2. CASE watch[n] # id
      BY <1>4, <1>8, <3>2
    <3> QED
      BY <3>1, <3>2
  <2>10. 3 \in 1 .. Len(stack') => ReleaseFits(3)'
    <3> SUFFICES ASSUME 3 \in 1 .. Len(stack') PROVE ReleaseFits(3)'
      OBVIOUS
    <3>1. 2 \in 1 .. Len(stack) /\ stack'[3] = stack[2]
      BY <1>1, <2>2
    <3>2. \A n \in Nodes \ unheard :
             Registered(n) /\ stack[2].kind = "release" /\ stack[2].node = n /\ stack[2].announced =>
                IsReleased(f, n)
      BY <3>1 DEF CallPart, CallFits, ReleaseFits, f
    <3> QED
      BY <1>1, <1>6, <2>2, <2>4, <3>1, <3>2 DEF ReleaseFits, StepOutside, Registered
  <2>11. Settled(2)
    BY <2>6, <2>7, <2>8, <2>9, <2>10 DEF Settled, CallFits
  <2> QED
    BY <1>1, <2>3, <2>11, CallsKept
<1>10. CASE ~(events[id] # NoSub /\ state[events[id].subscriber] = "Active")
  <2>1. stack' = <<g>> \o Tail(stack)
    BY <1>3, <1>10
  <2>2. /\ stack'[1] = g /\ Len(stack') = Len(stack)
        /\ \A i \in 2 .. Len(stack') : i \in 1 .. Len(stack) /\ stack'[i] = stack[i]
    BY <1>2, <2>1, OneForTop
  <2> HIDE DEF f, g, h
  <2>3. Shifted(1, 0)
    BY <1>1, <2>2 DEF Shifted
  <2>4. HandlerFits(1)' /\ ReleaseFits(1)' /\ ToldFits(1)'
    BY <1>4, <2>2 DEF ReleaseFits, HandlerFits, ToldFits
  <2>5. PublishFits(1)'
    <3> SUFFICES ASSUME NEW n \in Nodes \ unheard, IsReleased(f, n), Registered(n)
                 PROVE  watch[n] \in g.ids
      BY <1>1, <1>6, <2>2 DEF PublishFits, StepOutside, Registered
    <3> QED
      BY <1>4, <1>8, <1>10
  <2>6. 2 \in 1 .. Len(stack') => ReleaseFits(2)'
    <3> SUFFICES ASSUME 2 \in 1 .. Len(stack') PROVE ReleaseFits(2)'
      OBVIOUS
    <3>1. 2 \in 1 .. Len(stack) /\ stack'[2] = stack[2] /\ 1 \in 1 .. Len(stack')
      BY <1>1, <2>2
    <3>2. \A n \in Nodes \ unheard :
             Registered(n) /\ stack[2].kind = "release" /\ stack[2].node = n /\ stack[2].announced =>
                IsReleased(f, n)
      BY <3>1 DEF CallPart, CallFits, ReleaseFits, f
    <3> QED
      BY <1>1, <1>6, <2>2, <3>1, <3>2 DEF ReleaseFits, StepOutside, Registered
  <2>7. Settled(1)
    BY <2>4, <2>5, <2>6 DEF Settled, CallFits
  <2> QED
    BY <1>1, <2>3, <2>7, CallsKept
<1> QED
  BY <1>9, <1>10

\* An event of a change or of a release, which goes on below it as g.
LEMMA RaiseCalls ==
    ASSUME KernelFacts, KernelFacts', SessionTypeOK, CallPart, StepOutside,
           stack # <<>>, stack[1].kind \in {"connect", "release"},
           NEW g, g.kind = stack[1].kind,
           NEW source, NEW type, NEW owned,
           Kernel!Raise(source, type, NoChannel, owned, <<g>> \o Tail(stack)),
           type = "Released" =>
               \A n \in Nodes \ unheard' :
                   Registered(n) /\ n = source => watch[n] \in eventsBySource[<<source, type>>],
           g.kind = "release" /\ g.announced =>
               \A n \in Nodes \ unheard' :
                   Registered(n) /\ n = g.node =>
                       type = "Released" /\ source = n /\ ~Kernel!Truncated(source, type)
    PROVE  CallPart'
<1> DEFINE e == Kernel!PublishFrame(source, type, NoChannel, owned)
<1>1. /\ e.kind = "publish" /\ e.source = source /\ e.type = type
      /\ e.ids = eventsBySource[<<source, type>>]
  BY DEF Kernel!PublishFrame
<1>2. \/ stack' = <<g>> \o Tail(stack) /\ Kernel!Truncated(source, type)
      \/ stack' = <<e>> \o (<<g>> \o Tail(stack))
  BY DEF Kernel!Raise
<1> HIDE DEF e
<1>3. /\ stack \in Seq(Calls) /\ Len(stack) \in Nat /\ Len(stack') \in Nat
      /\ 1 \in 1 .. Len(stack)
  BY DEF KernelFacts, CallsKnown
<1>4. ASSUME 2 \in 1 .. Len(stack)
      PROVE  Silent(2)
  <2>1. \A n \in Nodes : ~IsReleased(stack[2 - 1], n)
    BY DEF IsReleased
  <2> QED
    BY <1>4, <2>1, SilentBelow
<1>5. CASE stack' = <<g>> \o Tail(stack) /\ Kernel!Truncated(source, type)
  <2>1. /\ stack'[1] = g /\ Len(stack') = Len(stack)
        /\ \A i \in 2 .. Len(stack') : i \in 1 .. Len(stack) /\ stack'[i] = stack[i]
    BY <1>3, <1>5, OneForTop
  <2>2. Shifted(1, 0)
    BY <1>3, <2>1 DEF Shifted
  <2>3. HandlerFits(1)' /\ PublishFits(1)' /\ ToldFits(1)'
    BY <2>1 DEF HandlerFits, PublishFits, ToldFits, IsReleased
  <2>4. ReleaseFits(1)'
    BY <1>5, <2>1 DEF ReleaseFits, StepOutside, Registered
  <2>5. 2 \in 1 .. Len(stack') => ReleaseFits(2)'
    BY <1>4, <2>1, SilentFits
  <2>6. Settled(1)
    BY <2>3, <2>4, <2>5 DEF Settled, CallFits
  <2> QED
    BY <1>3, <2>2, <2>6, CallsKept
<1>6. CASE stack' = <<e>> \o (<<g>> \o Tail(stack))
  <2>1. /\ stack'[1] = e /\ stack'[2] = g /\ Len(stack') = Len(stack) + 1
        /\ \A i \in 3 .. Len(stack') : i - 1 \in 1 .. Len(stack) /\ stack'[i] = stack[i - 1]
    BY <1>3, <1>6, TwoForTop
  <2>2. Shifted(2, -1)
    BY <2>1 DEF Shifted
  <2>3. HandlerFits(1)' /\ ReleaseFits(1)' /\ ToldFits(1)'
    BY <1>1, <2>1 DEF HandlerFits, ReleaseFits, ToldFits
  <2>4. PublishFits(1)'
    BY <1>1, <2>1 DEF PublishFits, StepOutside, Registered, IsReleased
  <2>5. HandlerFits(2)' /\ PublishFits(2)' /\ ToldFits(2)'
    BY <2>1 DEF HandlerFits, PublishFits, ToldFits, IsReleased
  <2>6. ReleaseFits(2)'
    BY <1>1, <1>3, <2>1 DEF ReleaseFits, StepOutside, Registered, IsReleased
  <2>7. 3 \in 1 .. Len(stack') => ReleaseFits(3)'
    <3> SUFFICES ASSUME 3 \in 1 .. Len(stack') PROVE ReleaseFits(3)'
      OBVIOUS
    <3>1. 2 \in 1 .. Len(stack) /\ stack'[3] = stack[2]
      BY <1>3, <2>1
    <3> QED
      BY <1>4, <3>1, SilentFits
  <2>8. Settled(2)
    BY <2>3, <2>4, <2>5, <2>6, <2>7 DEF Settled, CallFits
  <2> QED
    BY <1>3, <2>2, <2>8, CallsKept
<1> QED
  BY <1>2, <1>5, <1>6

\* The events of a changed edge.
LEMMA ChildEventCalls ==
    ASSUME KernelFacts, KernelFacts', SessionTypeOK, CallPart, StepOutside, Kernel!ChildEvent
    PROVE  CallPart'
<1>1. /\ stack # <<>> /\ Head(stack) = stack[1] /\ stack[1].kind = "connect"
      /\ 1 \in 1 .. Len(stack)
  BY DEF Kernel!ChildEvent, Kernel!Top, KernelFacts, CallsKnown
<1>2. CASE stack[1].todo = <<>>
  BY <1>1, <1>2, PopCalls DEF Kernel!ChildEvent, IsReleased
<1>3. CASE stack[1].todo # <<>>
  <2> DEFINE g == [stack[1] EXCEPT !.todo = Tail(@)]
  <2>1. Kernel!Raise(stack[1].node, Head(stack[1].todo), NoChannel, TRUE, <<g>> \o Tail(stack))
    BY <1>1, <1>3 DEF Kernel!ChildEvent
  <2>2. g.kind = "connect"
    <3>1. stack[1] \in Kernel!ConnectFrames
      BY <1>1 DEF KernelFacts, CallsKnown, Calls, Kernel!HandlerFrames, Kernel!PublishFrames,
         Kernel!ReleaseFrames
    <3> QED
      BY <1>1, <3>1 DEF Kernel!ConnectFrames
  <2>3. Head(stack[1].todo) # "Released"
    BY <1>1, <1>3, CallTyped
  <2> HIDE DEF g
  <2> QED
    BY <1>1, <2>1, <2>2, <2>3, RaiseCalls
<1> QED
  BY <1>2, <1>3

\* A release announces itself to the watch, or the limits drop that for all to see.
LEMMA ReleaseEventCalls ==
    ASSUME KernelFacts, KernelFacts', SessionTypeOK, TablePart, CallPart, StepOutside,
           RuntimeStep, Kernel!ReleaseEvent
    PROVE  CallPart'
<1> DEFINE f == stack[1]
<1>1. /\ stack # <<>> /\ Head(stack) = f /\ f.kind = "release" /\ 1 \in 1 .. Len(stack)
      /\ f \in Kernel!ReleaseFrames
  BY DEF Kernel!ReleaseEvent, Kernel!Top, KernelFacts, CallsKnown, Calls,
     Kernel!HandlerFrames, Kernel!PublishFrames, Kernel!ConnectFrames
<1>2. Silent(1)
  BY <1>1, SilentBelow
<1>3. \A n \in Nodes \ unheard' : Registered(n) /\ n = f.node => ~f.announced
  BY <1>1, <1>2 DEF Silent, StepOutside
\* The removed edges.
<1>4. ASSUME NEW g, NEW source,
             g.kind = "release" /\ g.node = f.node /\ g.announced = f.announced,
             Kernel!Raise(source, "ChildDisconnected", NoChannel, TRUE, <<g>> \o Tail(stack))
      PROVE  CallPart'
  <2>1. stack[1].kind = "release" /\ g.kind = stack[1].kind
    BY <1>1, <1>4
  <2>2. \A n \in Nodes \ unheard' : Registered(n) /\ n = g.node => ~g.announced
    BY <1>3, <1>4
  <2> HIDE DEF f
  <2>3. "ChildDisconnected" # "Released" /\ stack[1].kind \in {"connect", "release"}
    BY <2>1
  <2> QED
    BY <1>1, <1>4, <2>1, <2>2, <2>3, RaiseCalls
<1>5. ASSUME NEW e \in f.parents,
             Kernel!Raise(e[1], "ChildDisconnected", NoChannel, TRUE,
                          <<[f EXCEPT !.parents = @ \ {e}]>> \o Tail(stack))
      PROVE  CallPart'
  <2> DEFINE g == [f EXCEPT !.parents = @ \ {e}]
  <2>1. g.kind = "release" /\ g.node = f.node /\ g.announced = f.announced
    BY <1>1 DEF Kernel!ReleaseFrames
  <2> HIDE DEF g
  <2> QED
    BY <1>4, <1>5, <2>1 DEF g
<1>6. ASSUME NEW name \in f.names,
             Kernel!Raise(f.node, "ChildDisconnected", NoChannel, TRUE,
                          <<[f EXCEPT !.names = @ \ {name}]>> \o Tail(stack))
      PROVE  CallPart'
  <2> DEFINE g == [f EXCEPT !.names = @ \ {name}]
  <2>1. g.kind = "release" /\ g.node = f.node /\ g.announced = f.announced
    BY <1>1 DEF Kernel!ReleaseFrames
  <2> HIDE DEF g
  <2> QED
    BY <1>4, <1>6, <2>1 DEF g
\* The release itself.
<1>7. ASSUME ~f.announced,
             Kernel!Raise(f.node, "Released", NoChannel, FALSE,
                          <<[f EXCEPT !.announced = TRUE]>> \o Tail(stack))
      PROVE  CallPart'
  <2> DEFINE g == [f EXCEPT !.announced = TRUE]
  <2>1. g.kind = "release" /\ g.node = f.node /\ g.announced
    BY <1>1 DEF Kernel!ReleaseFrames
  <2> HIDE DEF g
  <2>2. Kernel!Raise(f.node, "Released", NoChannel, FALSE, <<g>> \o Tail(stack))
    BY <1>7 DEF g
  <2>3. ASSUME NEW n \in Nodes \ unheard', Registered(n), n = f.node
        PROVE  watch[n] \in eventsBySource[<<f.node, "Released">>]
    <3>1. watch[n] \in Ids /\ n \notin unheard /\ events[watch[n]] = WatchOf(n)
      BY <2>3, Numbers DEF TablePart, WatchesStand, WatchOf, StepOutside
    <3>2. WatchOf(n) # NoSub
      BY NoSubAssumption, ReleasedIsType DEF WatchOf
    <3> QED
      BY <2>3, <3>1, <3>2, ReleasedIsType DEF KernelFacts, IndexesKnown, WatchOf
  <2>4. ASSUME NEW n \in Nodes \ unheard', Registered(n), n = f.node
        PROVE  ~Kernel!Truncated(f.node, "Released")
    <3> SUFFICES ASSUME Kernel!Truncated(f.node, "Released") PROVE FALSE
      OBVIOUS
    <3>1. stack' = <<g>> \o Tail(stack)
      BY <2>2 DEF Kernel!Raise
    <3>2. Head(stack') = g
      BY <3>1
    <3>3. Dropped(n)
      BY <1>1, <1>7, <2>1, <2>4, <3>2 DEF Dropped, Kernel!Top
    <3> QED
      BY <2>4, <3>3 DEF RuntimeStep
  <2> HIDE DEF f
  <2> QED
    BY <1>1, <2>1, <2>2, <2>3, <2>4, RaiseCalls DEF f
<1> QED
  BY <1>1, <1>5, <1>6, <1>7 DEF Kernel!ReleaseEvent

\* Every step of the runtime.
LEMMA RuntimeStepCalls ==
    ASSUME KernelFacts, KernelFacts', SessionTypeOK, PhaseInv, TablePart, CallPart, RuntimeStep
    PROVE  CallPart'
<1>1. StepOutside
  BY Outside
<1>2. CASE Kernel!Deliver
  BY <1>2, DeliverCalls
<1>3. CASE Kernel!EndPublish
  <2>1. stack # <<>> /\ stack[1].ids = {} /\ stack' = Tail(stack) /\ 1 \in 1 .. Len(stack)
    BY <1>3 DEF Kernel!EndPublish, Kernel!Top, KernelFacts, CallsKnown
  <2>2. \A n \in Nodes \ unheard : Registered(n) => ~IsReleased(stack[1], n)
    BY <1>1, <2>1 DEF CallPart, CallFits, PublishFits, StepOutside
  <2> QED
    BY <1>1, <2>1, <2>2, PopCalls
<1>4. CASE Kernel!ChildEvent
  BY <1>1, <1>4, ChildEventCalls
<1>5. CASE Kernel!ReleaseEvent
  BY <1>1, <1>5, ReleaseEventCalls
<1>6. ASSUME NEW n \in Nodes, Kernel!EndRelease(n)
      PROVE  CallPart'
  <2>1. stack # <<>> /\ stack[1].kind = "release" /\ stack' = Tail(stack)
    BY <1>6, Ending
  <2> QED
    BY <1>1, <2>1, PopCalls DEF IsReleased
<1> QED
  BY <1>2, <1>3, <1>4, <1>5, <1>6, RuntimeDoes DEF RuntimeStep

-----------------------------------------------------------------------------
(* What the session's own steps do under the calls in progress. *)

\* A handler has one of the identifiers given out, so it is not what is made now.
LEMMA RegisterCalls ==
    ASSUME KernelFacts, SessionTypeOK, TablePart, CallPart,
           NEW n \in Nodes, Register(n), phase' = "open"
    PROVE  CallPart'
<1>1. /\ ~Registered(n) /\ watch' = [watch EXCEPT ![n] = nextId]
      /\ state[n] = "Active" /\ UNCHANGED <<state, stack, entries, unheard>>
      /\ nextId' = nextId + 1 /\ nextId \in Ids /\ nextId \in Nat
  BY RegisterTables, Numbers
<1>2. \A m \in Nodes : watch'[m] = IF m = n THEN nextId ELSE watch[m]
  BY <1>1 DEF SessionTypeOK
<1>3. \A m \in Nodes : Registered(m)' <=> Registered(m) \/ m = n
  BY <1>1, <1>2 DEF Registered, NoId, Ids
<1> SUFFICES ASSUME NEW i \in 1 .. Len(stack) PROVE CallFits(i)'
  BY <1>1 DEF CallPart
<1>4. HandlerFits(i) /\ PublishFits(i) /\ ReleaseFits(i) /\ ToldFits(i)
  BY DEF CallPart, CallFits
\* The object is Active, so none of the calls is about its release.
<1>5. \A k \in 1 .. Len(stack) : stack[k].kind = "release" => stack[k].node # n
  BY <1>1 DEF KernelFacts, CallsKnown
<1>6. \A k \in 1 .. Len(stack) : ~IsReleased(stack[k], n)
  <2> SUFFICES ASSUME NEW k \in 1 .. Len(stack), IsReleased(stack[k], n) PROVE FALSE
    OBVIOUS
  <2>1. k + 1 \in 1 .. Len(stack) /\ stack[k + 1].kind = "release" /\ stack[k + 1].node = n
    BY DEF KernelFacts, CallsKnown, IsReleased
  <2> QED
    BY <1>5, <2>1
<1>7. \A m \in Nodes : Called(m) => Called(m)'
  BY <1>1, <1>2, <1>3 DEF Called, Kernel!Top
<1>8. HandlerFits(i)'
  <2>1. CASE stack[i].kind = "handler"
    <3>1. stack[i].id \in Nat /\ stack[i].id < nextId
      BY <1>4, <2>1, CallTyped DEF HandlerFits
    <3>2. stack[i].id # nextId /\ stack[i].id < nextId'
      BY <1>1, <3>1
    <3> QED
      BY <1>1, <1>2, <1>3, <1>4, <2>1, <3>2 DEF HandlerFits
  <2>2. CASE stack[i].kind # "handler"
    BY <1>1, <2>2 DEF HandlerFits
  <2> QED
    BY <2>1, <2>2
<1>9. PublishFits(i)'
  BY <1>1, <1>2, <1>3, <1>4, <1>6, <1>7 DEF PublishFits
<1>10. ReleaseFits(i)'
  BY <1>1, <1>3, <1>4, <1>5 DEF ReleaseFits
<1>11. ToldFits(i)'
  BY <1>1, <1>3, <1>4, <1>6 DEF ToldFits
<1> QED
  BY <1>8, <1>9, <1>10, <1>11 DEF CallFits

\* The same of a subscription of the client.
LEMMA SubscribeCalls ==
    ASSUME KernelFacts, SessionTypeOK, TablePart, CallPart,
           NEW n \in Nodes, NEW type \in Kernel!EventTypes, SubscribeEvent(n, type)
    PROVE  CallPart'
<1>1. /\ entries' = Append(entries, nextId) /\ UNCHANGED <<state, stack, phase, watch, unheard>>
      /\ nextId' = nextId + 1 /\ nextId \in Nat
  BY SubscribeTables, Numbers
<1>2. \A m \in Nodes : (Registered(m)' <=> Registered(m)) /\ (Called(m)' <=> Called(m))
  BY <1>1 DEF Registered, Called, Kernel!Top
<1> SUFFICES ASSUME NEW i \in 1 .. Len(stack) PROVE CallFits(i)'
  BY <1>1 DEF CallPart
<1>3. HandlerFits(i) /\ PublishFits(i) /\ ReleaseFits(i) /\ ToldFits(i)
  BY DEF CallPart, CallFits
<1>4. stack[i].kind = "handler" => stack[i].id \in Nat /\ stack[i].id < nextId
  BY <1>3, CallTyped DEF HandlerFits
<1>5. HandlerFits(i)'
  BY <1>1, <1>2, <1>3, <1>4 DEF HandlerFits
<1>6. PublishFits(i)' /\ ReleaseFits(i)'
  BY <1>1, <1>2, <1>3 DEF PublishFits, ReleaseFits
<1>7. entries \in Seq(Ids \cup {NoId})
  BY DEF SessionTypeOK
<1>8. \A j \in 1 .. Len(entries') :
         \/ j \in 1 .. Len(entries) /\ entries'[j] = entries[j]
         \/ entries'[j] = nextId
  BY <1>1, <1>7
<1>9. ToldFits(i)'
  <2>1. stack[i].kind = "handler" /\ (\E j \in 1 .. Len(entries') : entries'[j] = stack[i].id) =>
           \E j \in 1 .. Len(entries) : entries[j] = stack[i].id
    BY <1>1, <1>4, <1>8
  <2> QED
    BY <1>1, <1>2, <1>3, <2>1 DEF ToldFits
<1> QED
  BY <1>5, <1>6, <1>7, <1>9 DEF CallFits

\* An entry that is cleared tells nobody.
LEMMA ClearCalls ==
    ASSUME KernelFacts, SessionTypeOK, TablePart, CallPart,
           NEW c \in 1 .. Len(entries), entries[c] # NoId, Drop(entries[c]), Cleared(c),
           UNCHANGED <<phase, watch, unheard>>
    PROVE  CallPart'
<1>1. /\ UNCHANGED <<state, stack, nextId>> /\ Len(entries') = Len(entries)
      /\ \A j \in 1 .. Len(entries) : entries'[j] = IF j = c THEN NoId ELSE entries[j]
  BY ClearTables
<1>2. \A m \in Nodes : (Registered(m)' <=> Registered(m)) /\ (Called(m)' <=> Called(m))
  BY <1>1 DEF Registered, Called, Kernel!Top
<1> SUFFICES ASSUME NEW i \in 1 .. Len(stack) PROVE CallFits(i)'
  BY <1>1 DEF CallPart
<1>3. HandlerFits(i) /\ PublishFits(i) /\ ReleaseFits(i) /\ ToldFits(i)
  BY DEF CallPart, CallFits
<1>4. HandlerFits(i)' /\ PublishFits(i)' /\ ReleaseFits(i)'
  BY <1>1, <1>2, <1>3 DEF HandlerFits, PublishFits, ReleaseFits
<1>5. stack[i].kind = "handler" => stack[i].id # NoId
  BY CallTyped DEF NoId, Ids
<1>6. ToldFits(i)'
  BY <1>1, <1>2, <1>3, <1>5 DEF ToldFits
<1> QED
  BY <1>4, <1>6 DEF CallFits

\* With a handle goes what its watch owed to it.
LEMMA ForgetCalls ==
    ASSUME KernelFacts, SessionTypeOK, TablePart, CallPart, TablePart',
           NEW n \in Nodes, Registered(n), UNCHANGED <<stack, nextId, entries, unheard>>,
           \A m \in Nodes : watch'[m] = IF m = n THEN NoId ELSE watch[m],
           \A m \in Nodes : Called(m) => m = n
    PROVE  CallPart'
<1>1. \A m \in Nodes : Registered(m)' <=> Registered(m) /\ m # n
  BY DEF Registered
<1> SUFFICES ASSUME NEW i \in 1 .. Len(stack) PROVE CallFits(i)'
  BY DEF CallPart
<1>2. HandlerFits(i) /\ PublishFits(i) /\ ReleaseFits(i) /\ ToldFits(i)
  BY DEF CallPart, CallFits
<1>3. HandlerFits(i)'
  <2>1. CASE stack[i].kind = "handler"
    <3>1. ASSUME NEW m \in Nodes, m # n, Registered(m)
          PROVE  stack[i].id # watch[m]
      <4> SUFFICES ASSUME stack[i].id = watch[m] PROVE FALSE
        OBVIOUS
      <4>1. i = 1 /\ Head(stack) = stack[1] /\ stack # <<>>
        BY <1>2, <2>1, <3>1 DEF HandlerFits, KernelFacts, CallsKnown
      <4> QED
        BY <2>1, <3>1, <4>1 DEF Called, Kernel!Top
    <3> QED
      BY <1>1, <1>2, <2>1, <3>1 DEF HandlerFits
  <2>2. CASE stack[i].kind # "handler"
    BY <2>2 DEF HandlerFits
  <2> QED
    BY <2>1, <2>2
<1>4. PublishFits(i)'
  BY <1>1, <1>2 DEF PublishFits
<1>5. ReleaseFits(i)' /\ ToldFits(i)'
  BY <1>1, <1>2 DEF ReleaseFits, ToldFits
<1> QED
  BY <1>3, <1>4, <1>5 DEF CallFits

\* Without handles there is nothing to say of the calls but that their identifiers
\* have been given out.
LEMMA CallsWithoutHandles ==
    ASSUME KernelFacts, KernelFacts', CallPart, UNCHANGED nextId,
           \A n \in Nodes : ~Registered(n)',
           \/ UNCHANGED stack
           \/ \E f : QuietFrame(f) /\ stack' = <<f>> \o stack
    PROVE  CallPart'
<1> SUFFICES ASSUME NEW i \in 1 .. Len(stack') PROVE CallFits(i)'
  BY DEF CallPart
<1>1. PublishFits(i)' /\ ReleaseFits(i)' /\ ToldFits(i)'
  BY DEF PublishFits, ReleaseFits, ToldFits
<1>2. stack'[i].kind = "handler" => \E k \in 1 .. Len(stack) : stack[k] = stack'[i]
  <2>1. ASSUME NEW f, QuietFrame(f), stack' = <<f>> \o stack
        PROVE  stack'[i].kind = "handler" => \E k \in 1 .. Len(stack) : stack[k] = stack'[i]
    <3>1. /\ stack'[1] = f /\ f.kind # "handler" /\ Len(stack') \in Nat
          /\ \A k \in 2 .. Len(stack') : k - 1 \in 1 .. Len(stack) /\ stack'[k] = stack[k - 1]
      BY <2>1, OneOnTop DEF KernelFacts, CallsKnown, QuietFrame
    <3>2. i = 1 \/ i \in 2 .. Len(stack')
      BY <3>1
    <3> QED
      BY <3>1, <3>2
  <2> QED
    BY <2>1
<1>3. HandlerFits(i)'
  BY <1>2 DEF HandlerFits, CallPart, CallFits
<1> QED
  BY <1>1, <1>3 DEF CallFits

\* Every step keeps the calls in progress fitting.
LEMMA CallsStep ==
    ASSUME KernelFacts, KernelFacts', SessionTypeOK, PhaseInv, TablePart, CallPart,
           TablePart', Next
    PROVE  CallPart'
<1>0. nextId \in Nat /\ nextId' \in Nat /\ Root \in Nodes
  BY ReleasedIsType DEF KernelFacts, TablesKnown, Ids
<1>1. CASE OpenSession
  <2>1. \A n \in Nodes : ~Registered(n)
    BY <1>1 DEF OpenSession, PhaseInv
  <2>2. UNCHANGED <<nextId, stack, watch, entries, unheard>>
    BY <1>1, RelayDoes DEF OpenSession
  <2> QED
    BY <1>0, <2>1, <2>2, SameCalls DEF StepOutside, Called
<1>2. CASE Construct
  BY <1>0, <1>2, RegisterCalls DEF Construct
<1>3. ASSUME NEW n \in Nodes, Resolve(n)
      PROVE  CallPart'
  BY <1>3, RegisterCalls DEF Resolve, Operation
<1>4. ASSUME NEW n \in Nodes, Invalidate(n)
      PROVE  CallPart'
  <2>1. Called(n) /\ Registered(n) /\ state[n] = "Releasing"
    BY <1>4, CalledFacts DEF Invalidate, Called
  <2>2. /\ UNCHANGED <<stack, nextId, entries, unheard>>
        /\ \A m \in Nodes : watch'[m] = IF m = n THEN NoId ELSE watch[m]
    BY <1>4, <2>1, ForgetTables DEF Invalidate
  <2>3. \A m \in Nodes : Called(m) => m = n
    BY <2>1 DEF Called, TablePart, WatchesDistinct
  <2> QED
    BY <2>1, <2>2, <2>3, ForgetCalls
<1>5. ASSUME NEW n \in Nodes, CloseHandle(n)
      PROVE  CallPart'
  <2>1. /\ Registered(n) /\ UNCHANGED <<stack, nextId, entries, unheard>>
        /\ \A m \in Nodes : watch'[m] = IF m = n THEN NoId ELSE watch[m]
    BY <1>5, ForgetTables DEF CloseHandle
  <2>2. \A m \in Nodes : ~Called(m)
    BY <1>5, CalledFacts DEF CloseHandle
  <2> QED
    BY <2>1, <2>2, ForgetCalls
<1>6. ASSUME NEW n \in Nodes, NEW type \in Kernel!EventTypes, SubscribeEvent(n, type)
      PROVE  CallPart'
  BY <1>6, SubscribeCalls
<1>7. ASSUME NEW i \in 1 .. Len(entries), CancelEvent(i) \/ CloseEntry(i)
      PROVE  CallPart'
  BY <1>7, ClearCalls DEF CancelEvent, CloseEntry
<1>8. CASE WatchReturns
  <2>1. \A n \in Nodes : ~Called(n)
    BY <1>8, CalledFacts DEF WatchReturns
  <2>2. /\ UNCHANGED <<nextId, watch, entries, unheard>>
        /\ stack # <<>> /\ Head(stack).kind = "handler" /\ stack' = Tail(stack)
    BY <1>8, TablesStay DEF WatchReturns, Kernel!HandlerReturn, Kernel!Top
  <2>3. stack[1].kind = "handler"
    BY <2>2 DEF KernelFacts, CallsKnown
  <2> QED
    BY <1>0, <2>1, <2>2, <2>3, PopCalls DEF StepOutside, IsReleased
<1>9. CASE Close
  BY <1>0, <1>9, SameCalls DEF Close, Operation, SessionRuns, kernelVars, StepOutside
<1>10. CASE ReleaseRelay
  BY <1>10, CallsWithoutHandles, RelayDoes DEF ReleaseRelay, session, Registered
<1>11. CASE DeleteRelay
  BY <1>11, CallsWithoutHandles, RelayDoes, DeleteTables DEF DeleteRelay, Registered
<1>12. CASE UserStep
  BY <1>12, UserStepCalls
<1>13. CASE HandlerReturn
  BY <1>13, HandlerReturnCalls
<1>14. CASE RuntimeStep
  BY <1>14, RuntimeStepCalls
<1>15. CASE HandlerThrow
  BY <1>15, HandlerThrowCalls
<1> QED
  BY <1>1, <1>2, <1>3, <1>4, <1>5, <1>6, <1>7, <1>8, <1>9, <1>10, <1>11, <1>12, <1>13, <1>14,
     <1>15 DEF Next, SessionStep

-----------------------------------------------------------------------------
(* The theorems. *)

\* The invariant is inductive, given what is known of the kernel before and after.
LEMMA SessionInvKept ==
    ASSUME SessionInv, KernelFacts, KernelFacts', [Next]_vars
    PROVE  SessionInv'
<1>1. CASE Next
  <2>1. SessionTypeOK' /\ PhaseInv'
    BY <1>1, NextTyped, PhaseKept DEF SessionInv
  <2>2. TablePart'
    BY <1>1, TablesStep DEF SessionInv
  <2>3. CallPart'
    BY <1>1, <2>2, CallsStep DEF SessionInv
  <2> QED
    BY <2>1, <2>2, <2>3 DEF SessionInv
<1>2. CASE UNCHANGED vars
  <2>1. SessionTypeOK' /\ PhaseInv'
    BY <1>2, NextTyped DEF SessionInv, PhaseInv, Registered, EntriesCleared, vars, kernelVars, session
  <2>2. TablePart'
    BY <1>2, TablesKept, Numbers DEF SessionInv, vars, kernelVars, session
  <2>3. CallPart'
    BY <1>2 DEF SessionInv, CallPart, CallFits, HandlerFits, PublishFits, ReleaseFits, ToldFits,
       Called, Kernel!Top, Registered, vars, kernelVars, session
  <2> QED
    BY <2>1, <2>2, <2>3 DEF SessionInv
<1> QED
  BY <1>1, <1>2

\* It holds before any session is opened.
LEMMA SessionInvInitially == Init => SessionInv
<1> SUFFICES ASSUME Init PROVE SessionInv
  OBVIOUS
<1>1. /\ phase = "none" /\ entries = <<>> /\ unheard = {} /\ stack = <<>> /\ nextId = 1
      /\ \A n \in Nodes : watch[n] = NoId
      /\ \A id \in Ids : events[id] = NoSub
  BY DEF Init, Kernel!Init, Kernel!Registry!Init, Kernel!Registry!Ids, Ids
<1>2. (\A j \in 1 .. Len(entries) : FALSE) /\ (\A i \in 1 .. Len(stack) : FALSE)
  BY <1>1
<1>3. PhaseInv
  BY <1>1 DEF PhaseInv, Registered
<1>4. TablePart
  BY <1>1, <1>2 DEF TablePart, IdsGiven, WatchesDistinct, WatchesNameOwn, EntriesHaveHandles,
     WatchFirst, RelaySubscriptionsOwned, WatchesStand, Registered, NoId
<1>5. CallPart
  BY <1>2 DEF CallPart
<1> QED
  BY <1>3, <1>4, <1>5, InitTyped DEF SessionInv

\* The invariant of a session holds at all times: its tables agree with those of the
\* kernel, and whatever call of the runtime is in progress, the release of an object
\* with a handle has a watch to come to.
THEOREM SessionInvariance == Spec => []SessionInv
<1>1. Init => SessionInv
  BY SessionInvInitially
<1>2. SessionInv /\ KernelFacts /\ KernelFacts' /\ [Next]_vars => SessionInv'
  BY SessionInvKept
<1> QED
  BY <1>1, <1>2, KernelFactsAlways, PTL DEF Spec

\* Every subscription that the relay of a session has is in one of the two tables of
\* RuntimeSession, objects and eventSubscriptions, so that close ends them all.
THEOREM RelaySubscriptionsAreOwned == Spec => []RelaySubscriptionsOwned
<1>1. SessionInv => RelaySubscriptionsOwned
  BY DEF SessionInv, TablePart
<1> QED
  BY <1>1, SessionInvariance, PTL

\* A handle of a session, an entry of objects, stands on a living watch of the object it
\* was made for, unless the kernel lost the Released event of that object: registerObject
\* and invalidate keep the two together, whatever the handlers of user code do.
THEOREM HandlesStandOnWatches == Spec => []WatchesStand
<1>1. SessionInv => WatchesStand
  BY DEF SessionInv, TablePart
<1> QED
  BY <1>1, SessionInvariance, PTL

\* When a subscription of the client is called with the release of an object, invalidate
\* has dropped the handle: the watch is older than any subscription made by the handle.
THEOREM ClientToldAfterInvalidation == Spec => []ToldAfterInvalidation
<1>1. ASSUME SessionInv, KernelFacts
      PROVE  ToldAfterInvalidation
  <2> SUFFICES ASSUME NEW i \in 1 .. Len(stack) - 1,
                      stack[i].kind = "handler", stack[i + 1].kind = "publish",
                      stack[i + 1].type = "Released", stack[i + 1].source \notin unheard,
                      \E j \in 1 .. Len(entries) : entries[j] = stack[i].id
               PROVE  ~Registered(stack[i + 1].source)
    BY DEF ToldAfterInvalidation
  <2>1. Len(stack) \in Nat
    BY <1>1 DEF KernelFacts, CallsKnown
  <2>2. i \in 1 .. Len(stack) /\ i + 1 \in 1 .. Len(stack)
    BY <2>1
  <2>3. stack[i + 1].source \in Nodes \ unheard
    BY <1>1, <2>2, CallTyped
  <2> QED
    BY <1>1, <2>2, <2>3 DEF SessionInv, CallPart, CallFits, ToldFits, IsReleased
<1> QED
  BY <1>1, SessionInvariance, KernelFactsAlways, PTL
================================================================================
