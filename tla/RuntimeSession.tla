---------------------------- MODULE RuntimeSession ----------------------------
(***************************************************************************)
(* A remote session on top of RuntimeKernel: RuntimeSession and            *)
(* RuntimeBridgeRoot (src/src/RuntimeBridge.cpp) and the root anchor of    *)
(* RuntimeDomain (src/src/RuntimeDomain.cpp).                              *)
(*                                                                         *)
(* A session gives its client handles of objects.  A handle is the address *)
(* of the object, so it stands for a new object when the address is used   *)
(* again; the session therefore has to drop it when the object is          *)
(* released, and hears of that through a subscription to Released that its *)
(* private object, the relay, holds: the watch.  The relay also holds the  *)
(* event subscriptions of the client.                                      *)
(*                                                                         *)
(* A session is called from user code, also from inside event handlers.    *)
(* Every step of it is one operation of the kernel, or none.               *)
(***************************************************************************)
EXTENDS Integers, Sequences, FiniteSets

CONSTANTS
    Nodes, Names, NoNode, UserTypes, NoChannel, MaxId, NoSub, MaxDepth, MaxPublishes,
                    \* as in RuntimeKernel
    Root,           \* the root anchor of the domain
    Relay,          \* where the relay of the session lies
    Heeded,         \* bound: the event types that anyone subscribes to
    MaxEntries,     \* bound: event subscriptions a session ever makes
    MaxListeners,   \* bound: subscriptions of user code at a time
    HandlersThrow   \* may handlers throw, against the rules of the framework?

ASSUME RootRelayAssumption == Root \in Nodes /\ Relay \in Nodes \ {Root}
ASSUME BoundsAssumption == MaxEntries \in Nat /\ MaxListeners \in Nat

\* What RuntimeKernel assumes, and that nobody subscribes to types there are not.
RuntimeTypes == {"ChildConnected", "ChildDisconnected", "Released"}
ASSUME NoNodeAssumption == NoNode \notin Nodes
ASSUME MaxIdAssumption == MaxId \in Nat \ {0}
ASSUME LimitsAssumption == MaxDepth \in Nat \ {0} /\ MaxPublishes \in Nat \ {0}
ASSUME TypesAssumption ==
    UserTypes \cap RuntimeTypes = {} /\ Heeded \subseteq RuntimeTypes \cup UserTypes
ASSUME NoSubAssumption ==
    NoSub \notin [subscriber : Nodes, source : Nodes, type : RuntimeTypes \cup UserTypes]

\* Pointers and channel subscriptions are no business of a session.
Pointers == {}
Channels == {}

VARIABLES
    state, children, incoming, target, boundPointers, pointerReleased,
    nextId, events, eventsBySubscriber, eventsBySource,
    channels, channelsBySource, channelsByTarget,
    stack, published,
    phase,          \* none, opening, open, heard, closing: where the session stands
    watch,          \* per object, the subscription behind its handle, or NoId
    entries,        \* eventSubscriptions, a sequence: its index is the identifier
    unheard         \* history: handles of objects whose Released was dropped

Kernel == INSTANCE RuntimeKernel

kernelVars == <<state, children, incoming, target, boundPointers, pointerReleased,
                nextId, events, eventsBySubscriber, eventsBySource,
                channels, channelsBySource, channelsByTarget, stack, published>>
session == <<phase, watch, entries, unheard>>
vars == <<kernelVars, session>>

Ids == 1 .. MaxId
NoId == 0

Init ==
    /\ Kernel!Init
    /\ phase = "none"
    /\ watch = [n \in Nodes |-> NoId]
    /\ entries = <<>>
    /\ unheard = {}

-----------------------------------------------------------------------------
(* Who runs. *)

Registered(n) == watch[n] # NoId

\* The handler that has just been called is the watch of n.
Called(n) == Registered(n) /\ Kernel!Top("handler") /\ Head(stack).id = watch[n]

\* Opening and closing a session, and its watches, call no user code.
SessionRuns == phase \notin {"none", "open"} \/ \E n \in Nodes : Called(n)

\* The release of the relay runs in the middle of close.
RelayReleases == phase = "closing" /\ state[Relay] = "Releasing"

\* The identifier that the subscription being made gets.
Subscribed(id) == events[id] = NoSub /\ events'[id] # NoSub

-----------------------------------------------------------------------------
(* Opening. *)

\* OpenSession makes the relay ...
OpenSession ==
    /\ ~SessionRuns
    /\ phase = "none"
    /\ state[Root] = "Active"
    /\ Kernel!IdsRemain
    /\ Kernel!Create(Relay)
    /\ phase' = "opening"
    /\ UNCHANGED <<watch, entries, unheard>>

\* registerObject of an object that has no handle yet: the watch comes first, and
\* where it is refused there is no handle.
Register(n) ==
    /\ ~Registered(n)
    /\ Kernel!SubscribeEvent(Relay, n, "Released")
    /\ \E id \in Ids : Subscribed(id) /\ watch' = [watch EXCEPT ![n] = id]
    /\ UNCHANGED <<entries, unheard>>

\* ... and the constructor registers the root anchor.
Construct ==
    /\ phase = "opening"
    /\ Register(Root)
    /\ phase' = "open"

-----------------------------------------------------------------------------
(* Operations of an open session, one of which is a step of the kernel. *)

Operation == ~SessionRuns /\ phase = "open" /\ Kernel!InUserCode

\* m lies at the end of a path from n.
Descendant(m, n) == m # n /\ Kernel!Topology!WouldCreateCycle(m, n)

\* ResolveRootChild and ResolveChild: an object that is not Active has no children.
Resolve(m) ==
    /\ Operation
    /\ \E n \in Nodes :
          /\ Registered(n) \/ n = Root
          /\ state[n] = "Active"
          /\ Descendant(m, n)
    /\ Register(m)
    /\ UNCHANGED phase

SubscribeEvent(n, type) ==
    /\ Operation
    /\ Registered(n)
    /\ type \in Heeded
    /\ Len(entries) < MaxEntries
    /\ Kernel!SubscribeEvent(Relay, n, type)
    /\ \E id \in Ids : Subscribed(id) /\ entries' = Append(entries, id)
    /\ UNCHANGED <<phase, watch, unheard>>

\* The destructor of a subscription handle: the subscription ends unless it has.
Drop(id) ==
    \/ Kernel!Cancel(id)
    \/ events[id] = NoSub /\ UNCHANGED kernelVars

Cleared(i) == entries' = [entries EXCEPT ![i] = NoId]
Forgotten(n) == watch' = [watch EXCEPT ![n] = NoId]

CancelEvent(i) ==
    /\ Operation
    /\ entries[i] # NoId
    /\ Drop(entries[i])
    /\ Cleared(i)
    /\ UNCHANGED <<phase, watch, unheard>>

\* Mutant: the handle of a released object stays.
InvalidateKeepsHandle(n) ==
    /\ phase = "open"
    /\ Called(n)
    /\ Drop(watch[n])
    /\ phase' = "heard"
    /\ UNCHANGED <<watch, entries, unheard>>

\* invalidate, called by the watch of n, which then returns.  The watch is
\* cancelled on the way; the entries stay, so that the client hears of it too.
Invalidate(n) ==
    /\ phase = "open"
    /\ Called(n)
    /\ Drop(watch[n])
    /\ Forgotten(n)
    /\ phase' = "heard"
    /\ UNCHANGED <<entries, unheard>>

WatchReturns ==
    /\ phase = "heard"
    /\ Kernel!HandlerReturn
    /\ phase' = "open"
    /\ UNCHANGED <<watch, entries, unheard>>

-----------------------------------------------------------------------------
(* close, by Close or the destructor. *)

Close ==
    /\ Operation
    /\ phase' = "closing"
    /\ UNCHANGED <<kernelVars, watch, entries, unheard>>

\* The entries end, then the watches and the handles, then the relay.
CloseEntry(i) ==
    /\ phase = "closing"
    /\ entries[i] # NoId
    /\ Drop(entries[i])
    /\ Cleared(i)
    /\ UNCHANGED <<phase, watch, unheard>>

EntriesCleared == \A i \in 1 .. Len(entries) : entries[i] = NoId

\* Mutant: the watches are forgotten, not cancelled.
CloseHandleOnly(n) ==
    /\ phase = "closing"
    /\ EntriesCleared
    /\ Registered(n)
    /\ Forgotten(n)
    /\ UNCHANGED <<kernelVars, phase, entries, unheard>>

CloseHandle(n) ==
    /\ phase = "closing"
    /\ EntriesCleared
    /\ Registered(n)
    /\ Drop(watch[n])
    /\ Forgotten(n)
    /\ UNCHANGED <<phase, entries, unheard>>

ReleaseRelay ==
    /\ phase = "closing"
    /\ EntriesCleared
    /\ \A n \in Nodes : ~Registered(n)
    /\ Kernel!Release(Relay)
    /\ UNCHANGED session

\* Mutant: the relay is freed as it is, without the release in its destructor.
DeleteRelayActive ==
    /\ phase = "closing"
    /\ EntriesCleared
    /\ \A n \in Nodes : ~Registered(n)
    /\ state' = [state EXCEPT ![Relay] = "Absent"]
    /\ phase' = "none"
    /\ entries' = <<>>
    /\ unheard' = {}
    /\ UNCHANGED <<children, incoming, target, boundPointers, pointerReleased,
                   nextId, events, eventsBySubscriber, eventsBySource,
                   channels, channelsBySource, channelsByTarget, stack, published, watch>>

DeleteRelay ==
    /\ phase = "closing"
    /\ Kernel!Destroy(Relay)
    /\ phase' = "none"
    /\ entries' = <<>>
    /\ unheard' = {}
    /\ UNCHANGED watch

-----------------------------------------------------------------------------
(* Everybody else.  The relay is private, and the root anchor stays. *)

Listeners == {id \in Ids : events[id] # NoSub /\ events[id].subscriber # Relay}

UserStep ==
    /\ ~SessionRuns
    /\ \/ \E n \in Nodes \ {Relay} :
             \/ Kernel!Create(n)
             \/ n # Root /\ (Kernel!Destroy(n) \/ Kernel!Release(n))
             \/ \E type \in UserTypes, owned \in BOOLEAN :
                    Kernel!Publish(n, type, NoChannel, owned)
             \/ \E name \in Names : Kernel!Disconnect(n, name)
             \/ \E m \in Nodes \ {Relay} :
                    \/ \E name \in Names, overwrite \in BOOLEAN :
                           Kernel!Connect(n, name, m, overwrite)
                    \/ \E type \in Heeded :
                           Cardinality(Listeners) < MaxListeners /\ Kernel!SubscribeEvent(n, m, type)
       \/ \E id \in Listeners : Kernel!Cancel(id)
    /\ UNCHANGED session

HandlerReturn ==
    /\ ~SessionRuns
    /\ Kernel!HandlerReturn
    /\ UNCHANGED session

\* The limits drop the Released event of n: its release goes on without it.
Dropped(n) ==
    /\ Kernel!Top("release") /\ Head(stack).node = n /\ ~Head(stack).announced
    /\ Head(stack').kind = "release" /\ Head(stack').announced

RuntimeStep ==
    /\ ~SessionRuns \/ RelayReleases
    /\ Kernel!RuntimeStep
    /\ unheard' = unheard \cup {n \in Nodes : Registered(n) /\ Dropped(n)}
    /\ UNCHANGED <<phase, watch, entries>>

\* The exception leaves the publish of Released before it has come to the watch.
Lost(n) ==
    \E i \in 1 .. Len(stack) - Len(stack') :
        /\ stack[i].kind = "publish"
        /\ stack[i].source = n /\ stack[i].type = "Released"
        /\ watch[n] \in stack[i].ids

HandlerThrow ==
    /\ HandlersThrow
    /\ ~SessionRuns
    /\ Kernel!HandlerThrow
    /\ unheard' = unheard \cup {n \in Nodes : Registered(n) /\ Lost(n)}
    /\ UNCHANGED <<phase, watch, entries>>

-----------------------------------------------------------------------------
SessionStep ==
    \/ OpenSession
    \/ Construct
    \/ \E n \in Nodes : Resolve(n) \/ Invalidate(n) \/ CloseHandle(n)
    \/ \E n \in Nodes, type \in Kernel!EventTypes : SubscribeEvent(n, type)
    \/ \E i \in 1 .. Len(entries) : CancelEvent(i) \/ CloseEntry(i)
    \/ WatchReturns
    \/ Close
    \/ ReleaseRelay
    \/ DeleteRelay

Next == SessionStep \/ UserStep \/ HandlerReturn \/ RuntimeStep \/ HandlerThrow

Spec == Init /\ [][Next]_vars

-----------------------------------------------------------------------------
(* Properties. *)

\* Every subscription of the relay is one that the session still holds, so that no
\* handler of a session is called once it is closed and its tables are gone.
RelaySubscriptionsOwned ==
    \A id \in Ids :
        events[id] # NoSub /\ events[id].subscriber = Relay =>
            \/ \E n \in Nodes : watch[n] = id
            \/ \E i \in 1 .. Len(entries) : entries[i] = id

\* A handle stands on a living watch of its object: it ends no later than the
\* object is Released, and a new object at the same address does not inherit it.
\* The exceptions are the objects whose Released event the limits of the kernel
\* drop, or an exception of another handler keeps from the watch.
WatchesStand ==
    \A n \in Nodes :
        Registered(n) /\ n \notin unheard =>
            events[watch[n]] = [subscriber |-> Relay, source |-> n, type |-> "Released"]

\* When the client is told that an object is released, its handle is no longer
\* valid: the watch was made before any event subscription to the object.
ToldAfterInvalidation ==
    \A i \in 1 .. Len(stack) - 1 :
        stack[i].kind = "handler" /\ stack[i + 1].kind = "publish" =>
            LET n == stack[i + 1].source
            IN  /\ stack[i + 1].type = "Released"
                /\ n \notin unheard
                /\ \E j \in 1 .. Len(entries) : entries[j] = stack[i].id
                => ~Registered(n)

\* The session drives the kernel by its operations alone.
ImplementsKernel == Kernel!Spec

\* What the rules say (section 5.2): once the object is released its handle is
\* invalid.
ReleasedHandlesInvalid ==
    \A n \in Nodes : Registered(n) => state[n] \in {"Active", "Releasing"}
==============================================================================
