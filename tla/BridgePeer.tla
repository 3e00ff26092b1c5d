------------------------------ MODULE BridgePeer ------------------------------
(***************************************************************************)
(* RuntimeBridgePeer (src/src/RuntimeBridgeProtocol.cpp), which serves one *)
(* connection: it takes requests one by one, drives a RuntimeSession with  *)
(* them, and sends answers and event frames.                               *)
(*                                                                         *)
(* ReadData, WriteData and Invoke call code of the application, which may  *)
(* publish events, release objects, close the peer or throw before the     *)
(* answer to the request is sent.  So those handlers are two actions, with *)
(* the actions of the application between them.  An event goes to its      *)
(* subscriptions one at a time, and the application acts between them and  *)
(* while the data of a change is read for a frame; what it publishes there *)
(* is delivered before the outer event goes on.  Of the call stack there   *)
(* remain the events and the releases in progress, the outermost first.    *)
(*                                                                         *)
(* The objects are the children of Root; those in use are not deleted.     *)
(* The session is RuntimeSession with the watch of a handle as a flag.  Of *)
(* the conversion from and to MessagePack there remains which check of the *)
(* peer a message fails, if any.                                           *)
(***************************************************************************)
EXTENDS Integers, Sequences, FiniteSets

CONSTANTS
    Objects, Root,
    Types,          \* event types that the application publishes
    None,           \* no request, no frame, no entry
    MaxSubscriptions,   \* bound: subscriptions the client makes
    MaxRequests,    \* bound: requests the client sends
    MaxDepth        \* MaxEventPublishDepth

ASSUME RootAssumption == Root \in Objects
ASSUME BoundsAssumption == MaxSubscriptions \in Nat /\ MaxRequests \in Nat

RuntimeTypes == {"ChildConnected", "ChildDisconnected", "Released"}
EventTypes == RuntimeTypes \cup Types
ASSUME TypesAssumption == RuntimeTypes \cap Types = {}

SubscriptionIds == 1 .. MaxSubscriptions

VARIABLES
    bridgeUsable,   \* the domain has a root anchor
    live,           \* the objects that are Active
    stack,          \* the events and releases in progress, the outermost first
    open,           \* RuntimeBridgePeer::Impl::open
    connected,      \* session != nullptr
    handles,        \* the objects with a handle in the session
    watched,        \* the objects whose release the session would hear of
    entries,        \* eventSubscriptions of the session, by identifier
    nextId,         \* nextSubscriptionId of the session
    subscriptions,  \* RuntimeBridgePeer::Impl::subscriptions
    current,        \* the object of the request whose handler is in the application
    sent,           \* the frame that the last step sent, if it sent one
    received,       \* how many requests came while the peer was open
    answered,       \* history: how many answers were sent
    forsaken,       \* history: how many requests an exception or the host cut off
    known,          \* history: the subscriptions that the client knows it has
    told,           \* history: the subscriptions that brought a Released event
    missed          \* history: those whose Released event the runtime lost

tables == <<handles, watched, entries, nextId>>
sessionVars == <<connected, tables>>
clientVars == <<known, told, missed>>
peerVars == <<open, sessionVars, subscriptions, current>>
world == <<bridgeUsable, live, stack>>
counts == <<received, answered, forsaken>>
vars == <<world, peerVars, sent, counts, clientVars>>

Entries == [source : Objects, type : EventTypes, active : BOOLEAN]

\* An event: whether the watch has yet to hear of it, what is left of the snapshot
\* of subscriptions, and the one whose callback reads the data for its frame.
Events == [kind : {"event"}, source : Objects, type : EventTypes, watch : BOOLEAN,
           ids : SUBSET SubscriptionIds, sending : SubscriptionIds \cup {None}]
\* A release, with the event that it publishes next.
Releases == [kind : {"release"}, object : Objects,
             next : {"ChildDisconnected", "Released", "none"}]

Codes == {"ok", "MalformedMessage", "UnknownOp", "DomainNotFound", "SessionNotEstablished",
          "ObjectNotFound", "AddrInvalid", "SubscriptionInvalid", "OperationFailed"}
Frames ==      [kind : {"answer"}, code : Codes]
          \cup [kind : {"event"}, subscription : SubscriptionIds, addr : Objects, type : EventTypes]

ASSUME NoneAssumption == None \notin Objects \cup SubscriptionIds \cup Entries \cup Frames

TypeOK ==
    /\ bridgeUsable \in BOOLEAN
    /\ live \in SUBSET Objects
    /\ stack \in Seq(Events \cup Releases)
    /\ open \in BOOLEAN
    /\ connected \in BOOLEAN
    /\ handles \in SUBSET Objects /\ watched \in SUBSET handles
    /\ entries \in [SubscriptionIds -> Entries \cup {None}]
    /\ nextId \in 1 .. MaxSubscriptions + 1
    /\ subscriptions \in SUBSET SubscriptionIds
    /\ current \in Objects \cup {None}
    /\ sent \in Frames \cup {None}
    /\ received \in 0 .. MaxRequests
    /\ answered \in 0 .. MaxRequests /\ forsaken \in 0 .. MaxRequests
    /\ known \in SUBSET SubscriptionIds
    /\ told \in SUBSET SubscriptionIds /\ missed \in SUBSET SubscriptionIds

Init ==
    /\ bridgeUsable \in BOOLEAN
    /\ live = {Root}
    /\ stack = <<>>
    /\ open = TRUE
    /\ connected = FALSE
    /\ handles = {} /\ watched = {}
    /\ entries = [i \in SubscriptionIds |-> None]
    /\ nextId = 1
    /\ subscriptions = {}
    /\ current = None /\ sent = None
    /\ received = 0 /\ answered = 0 /\ forsaken = 0
    /\ known = {} /\ told = {} /\ missed = {}

-----------------------------------------------------------------------------
(* Sending and closing. *)

\* sendMessage of an answer: a closed peer sends nothing.
Answer(code) ==
    IF open THEN sent' = [kind |-> "answer", code |-> code] /\ answered' = answered + 1
            ELSE sent' = None /\ UNCHANGED answered

\* Impl::close and RuntimeSession::close.
Shut ==
    /\ open' = FALSE
    /\ connected' = FALSE
    /\ handles' = {} /\ watched' = {}
    /\ entries' = [i \in SubscriptionIds |-> None]
    /\ subscriptions' = {}
    /\ known' = {}
    /\ UNCHANGED <<nextId, told, missed>>

\* The peer takes a message, in a task of its own; a closed one ignores it.
Takes ==
    /\ open /\ current = None /\ stack = <<>>
    /\ received < MaxRequests
    /\ received' = received + 1
    /\ UNCHANGED <<world, forsaken>>

\* A request that is answered with an error and changes nothing.
Refuse(code) ==
    /\ Takes
    /\ Answer(code)
    /\ UNCHANGED <<peerVars, clientVars>>

\* A request that reaches the handler of its operation.
Established == Takes /\ connected

-----------------------------------------------------------------------------
(* receive, up to the handlers. *)

\* No map, no identifier, or no operation; or a handler misses a field.
Malformed == Refuse("MalformedMessage")

TooLong ==
    /\ Takes
    /\ Answer("MalformedMessage")
    /\ Shut
    /\ UNCHANGED current

\* Only Connect is accepted without a session.
NotEstablished == ~connected /\ Refuse("SessionNotEstablished")

UnknownOp == connected /\ Refuse("UnknownOp")

-----------------------------------------------------------------------------
(* The handlers. *)

ConnectAgain == connected /\ Refuse("OperationFailed")

ConnectElsewhere ==
    /\ ~connected
    /\ Takes
    /\ Answer("DomainNotFound")
    /\ Shut
    /\ UNCHANGED current

ConnectFails == ~connected /\ ~bridgeUsable /\ Refuse("OperationFailed")

Connect ==
    /\ ~connected
    /\ bridgeUsable
    /\ Takes
    /\ connected' = TRUE
    /\ handles' = {Root} /\ watched' = {Root}
    /\ Answer("ok")
    /\ UNCHANGED <<open, entries, nextId, subscriptions, current, clientVars>>

\* HasObject refuses the address.
AddrInvalid(o) == o \notin handles /\ connected /\ Refuse("AddrInvalid")

\* The children of o, which Root alone has.
Children(o) == IF o = Root THEN live \ {Root} ELSE {}

ObjectNotFound(o) == o \in handles /\ connected /\ Refuse("ObjectNotFound")

\* A handle that outlived its object: the object is no longer Active, and refuses.
Outlived(o) == o \in handles \ live /\ connected /\ Refuse("OperationFailed")

\* GetChildItem and GetChildren: the objects found get a handle, and a watch with
\* it, unless their address has one already.
Resolve(o, found) ==
    /\ Established
    /\ o \in handles
    /\ found \subseteq Children(o)
    /\ handles' = handles \cup found
    /\ watched' = watched \cup (found \ handles)
    /\ Answer("ok")
    /\ UNCHANGED <<open, connected, entries, nextId, subscriptions, current, clientVars>>

GetChildItem(o) == \E child \in Children(o) : Resolve(o, {child})

GetChildren(o) == Resolve(o, Children(o))

\* ReadData, WriteData and Invoke go into the application ...
Call(o) ==
    /\ Established
    /\ o \in handles \cap live
    /\ current' = o
    /\ sent' = None
    /\ UNCHANGED <<open, sessionVars, subscriptions, answered, clientVars>>

\* ... and answer when it returns, with success or failure ...
Return ==
    /\ current # None /\ stack = <<>>
    /\ \E code \in {"ok", "OperationFailed"} : Answer(code)
    /\ current' = None
    /\ UNCHANGED <<world, open, sessionVars, subscriptions, received, forsaken, clientVars>>

\* ... but not when it throws: the exception leaves ReceiveMessage.
Throw ==
    /\ current # None /\ stack = <<>>
    /\ current' = None
    /\ forsaken' = IF open THEN forsaken + 1 ELSE forsaken
    /\ sent' = None
    /\ UNCHANGED <<world, open, sessionVars, subscriptions, received, answered, clientVars>>

SubscribeEvent(o, type) ==
    /\ Established
    /\ o \in handles \cap live
    /\ nextId <= MaxSubscriptions
    /\ entries' = [entries EXCEPT ![nextId] = [source |-> o, type |-> type, active |-> TRUE]]
    /\ nextId' = nextId + 1
    /\ subscriptions' = subscriptions \cup {nextId}
    /\ known' = known \cup {nextId}
    /\ Answer("ok")
    /\ UNCHANGED <<open, connected, handles, watched, current, told, missed>>

\* Mutant: the session is not told.
CancelEventInPeer(i) ==
    /\ Established
    /\ i \in subscriptions
    /\ subscriptions' = subscriptions \ {i}
    /\ known' = known \ {i}
    /\ Answer("ok")
    /\ UNCHANGED <<open, sessionVars, current, told, missed>>

CancelEvent(i) ==
    /\ Established
    /\ i \in subscriptions
    /\ subscriptions' = subscriptions \ {i}
    /\ entries' = [entries EXCEPT ![i] = None]
    /\ known' = known \ {i}
    /\ Answer("ok")
    /\ UNCHANGED <<open, connected, handles, watched, nextId, current, told, missed>>

CancelInvalid(i) == i \notin subscriptions /\ connected /\ Refuse("SubscriptionInvalid")

\* Mutant: the peer is closed before the answer goes out.
CloseUnanswered ==
    /\ Established
    /\ sent' = None
    /\ Shut
    /\ UNCHANGED <<current, answered>>

\* The answer goes out before the peer is closed.
CloseRequest ==
    /\ Established
    /\ Answer("ok")
    /\ Shut
    /\ UNCHANGED current

-----------------------------------------------------------------------------
(* The application: by itself, in a call, or in a handler of an event. *)

Top == stack[Len(stack)]
Below == SubSeq(stack, 1, Len(stack) - 1)
InEvent == stack # <<>> /\ Top.kind = "event"
InRelease == stack # <<>> /\ Top.kind = "release"

\* Around the callbacks of the session run the handlers of other subscribers; in one,
\* the ReadData of the source, where the event is a change.
InApplication ==
    stack # <<>> => InEvent /\ (Top.sending # None => Top.type \in Types)

\* The subscriptions of the client to an event.
Subscribed(o, type) ==
    {i \in SubscriptionIds : /\ entries[i] # None /\ entries[i].active
                             /\ entries[i].source = o /\ entries[i].type = type}

Event(o, type) ==
    [kind |-> "event", source |-> o, type |-> type, sending |-> None,
     watch |-> type = "Released" /\ o \in watched, ids |-> Subscribed(o, type)]

EventsIn(s) == {k \in DOMAIN s : s[k].kind = "event"}

\* An event of the same source and type is in progress, or as many events as may be.
MustDrop(o, type) ==
    \/ Cardinality(EventsIn(stack)) >= MaxDepth
    \/ \E k \in EventsIn(stack) : stack[k].source = o /\ stack[k].type = type

\* publishEvent.  The events of a chain are not counted: any inside of another may
\* be one too many.
Raise(o, type, below) ==
    \/ /\ ~MustDrop(o, type)
       /\ stack' = Append(below, Event(o, type))
       /\ UNCHANGED missed
    \/ /\ EventsIn(stack) # {}
       /\ stack' = below
       /\ missed' = IF type = "Released" THEN missed \cup Subscribed(o, type) ELSE missed

\* The calls in progress hold the object o.
InUse(o) ==
    \/ current = o
    \/ \E k \in DOMAIN stack : IF stack[k].kind = "event" THEN stack[k].source = o
                                                          ELSE stack[k].object = o

\* A new object, maybe at the address of one that is gone, becomes a child of Root.
Create(o) ==
    /\ InApplication
    /\ o \notin live /\ ~InUse(o)
    /\ live' = live \cup {o}
    /\ Raise(Root, "ChildConnected", stack)
    /\ sent' = None
    /\ UNCHANGED <<bridgeUsable, peerVars, counts, known, told>>

Publish(o, type) ==
    /\ InApplication
    /\ o \in live
    /\ Raise(o, type, stack)
    /\ sent' = None
    /\ UNCHANGED <<bridgeUsable, live, peerVars, counts, known, told>>

\* The object leaves its parent and is no longer Active; the events follow.
Release(o) ==
    /\ InApplication
    /\ o \in live \ {Root}
    /\ live' = live \ {o}
    /\ stack' = Append(stack, [kind |-> "release", object |-> o, next |-> "ChildDisconnected"])
    /\ sent' = None
    /\ UNCHANGED <<bridgeUsable, peerVars, counts, clientVars>>

\* The host or the transport closes the peer.
HostClose ==
    /\ InApplication
    /\ open
    /\ Shut
    /\ forsaken' = IF current # None THEN forsaken + 1 ELSE forsaken
    /\ sent' = None
    /\ UNCHANGED <<world, current, received, answered>>

\* A handler of an event, or the code that reads its data, throws.  The exception
\* ends the events above the code that catches it; a release catches all.
HandlerThrow ==
    /\ InEvent /\ InApplication
    /\ \E n \in 0 .. Len(stack) - 1 :
          /\ \A k \in n + 1 .. Len(stack) : stack[k].kind = "event"
          /\ stack' = SubSeq(stack, 1, n)
          /\ missed' = missed \cup UNION {stack[k].ids :
                k \in {m \in n + 1 .. Len(stack) : stack[m].type = "Released"}}
    /\ sent' = None
    /\ UNCHANGED <<bridgeUsable, live, peerVars, counts, known, told>>

-----------------------------------------------------------------------------
(* The runtime. *)

\* releaseInternal publishes what comes next ...
Announce ==
    /\ InRelease
    /\ \/ /\ Top.next = "ChildDisconnected"
          /\ Raise(Root, Top.next, Append(Below, [Top EXCEPT !.next = "Released"]))
       \/ /\ Top.next = "Released"
          /\ Raise(Top.object, Top.next, Append(Below, [Top EXCEPT !.next = "none"]))
    /\ sent' = None
    /\ UNCHANGED <<bridgeUsable, live, peerVars, counts, known, told>>

\* What the subscriptions to o become when the runtime removes them.
Ended(o) == [i \in SubscriptionIds |->
               IF entries[i] # None /\ entries[i].source = o
               THEN [entries[i] EXCEPT !.active = FALSE] ELSE entries[i]]

\* ... and ends the subscriptions to the object, the watch among them.
EndRelease ==
    /\ InRelease
    /\ Top.next = "none"
    /\ stack' = Below
    /\ entries' = Ended(Top.object)
    /\ watched' = watched \ {Top.object}
    /\ sent' = None
    /\ UNCHANGED <<bridgeUsable, live, open, connected, handles, nextId, subscriptions,
                   current, counts, clientVars>>

\* A subscription is next in the event in progress.
Delivers == InEvent /\ Top.sending = None

\* Mutant: invalidate removes the subscriptions to the object as well.
HearErasing ==
    /\ Delivers /\ Top.watch
    /\ stack' = Append(Below, [Top EXCEPT !.watch = FALSE])
    /\ handles' = handles \ {Top.source}
    /\ watched' = watched \ {Top.source}
    /\ entries' = Ended(Top.source)
    /\ sent' = None
    /\ UNCHANGED <<bridgeUsable, live, open, connected, nextId, subscriptions, current,
                   counts, clientVars>>

\* The watch is older than any subscription of the client to the object, and hears of
\* its release first, unless the session has been closed.
Hear ==
    /\ Delivers /\ Top.watch
    /\ stack' = Append(Below, [Top EXCEPT !.watch = FALSE])
    /\ handles' = handles \ {Top.source}
    /\ watched' = watched \ {Top.source}
    /\ sent' = None
    /\ UNCHANGED <<bridgeUsable, live, open, connected, entries, nextId, subscriptions, current,
                   counts, clientVars>>

\* The next subscription of the snapshot: its callback runs if it still is active.
Deliver ==
    /\ Delivers /\ ~Top.watch
    /\ \E i \in Top.ids :
          /\ \A j \in Top.ids : i <= j
          /\ stack' = Append(Below, [Top EXCEPT !.ids = @ \ {i},
                                               !.sending = IF entries[i] # None /\ entries[i].active
                                                           THEN i ELSE None])
    /\ sent' = None
    /\ UNCHANGED <<bridgeUsable, live, peerVars, counts, clientVars>>

\* Mutant: a closed peer sends.
SendUnchecked ==
    /\ InEvent /\ Top.sending # None
    /\ stack' = Append(Below, [Top EXCEPT !.sending = None])
    /\ sent' = [kind |-> "event", subscription |-> Top.sending,
                addr |-> Top.source, type |-> Top.type]
    /\ told' = IF Top.type = "Released" THEN told \cup {Top.sending} ELSE told
    /\ UNCHANGED <<bridgeUsable, live, peerVars, counts, known, missed>>

\* The callback has read the data of the event, in which the application may have
\* closed the peer, and sends the frame.
Send ==
    /\ InEvent /\ Top.sending # None
    /\ stack' = Append(Below, [Top EXCEPT !.sending = None])
    /\ sent' = IF open THEN [kind |-> "event", subscription |-> Top.sending,
                             addr |-> Top.source, type |-> Top.type]
                       ELSE None
    /\ told' = IF open /\ Top.type = "Released" THEN told \cup {Top.sending} ELSE told
    /\ UNCHANGED <<bridgeUsable, live, peerVars, counts, known, missed>>

\* All have been told.
EndEvent ==
    /\ Delivers /\ ~Top.watch /\ Top.ids = {}
    /\ stack' = Below
    /\ sent' = None
    /\ UNCHANGED <<bridgeUsable, live, peerVars, counts, clientVars>>

-----------------------------------------------------------------------------
Receive ==
    \/ Malformed \/ TooLong \/ NotEstablished \/ UnknownOp
    \/ ConnectAgain \/ ConnectElsewhere \/ ConnectFails \/ Connect
    \/ \E o \in Objects : \/ AddrInvalid(o) \/ ObjectNotFound(o) \/ Outlived(o)
                          \/ GetChildItem(o) \/ GetChildren(o) \/ Call(o)
                          \/ \E type \in EventTypes : SubscribeEvent(o, type)
    \/ \E i \in SubscriptionIds : CancelEvent(i) \/ CancelInvalid(i)
    \/ CloseRequest

Application ==
    \/ \E o \in Objects : \/ Create(o) \/ Release(o)
                          \/ \E type \in Types : Publish(o, type)
    \/ HostClose \/ HandlerThrow \/ Return \/ Throw

Runtime == Announce \/ EndRelease \/ Hear \/ Deliver \/ Send \/ EndEvent

Next == Receive \/ Application \/ Runtime

Spec == Init /\ [][Next]_vars

-----------------------------------------------------------------------------
(* Properties. *)

\* Every request is answered exactly once, also the one that closes the peer, except
\* one whose handler throws or whose peer the host closes while it is handled.
EachAnsweredOnce ==
    received = answered + forsaken + IF current # None /\ open THEN 1 ELSE 0

\* A frame of an event goes to an open peer, for a subscription that its client knows
\* of, has not cancelled, and made to that object and type.
EventsMatchSubscriptions ==
    [][(sent' # None /\ sent'.kind = "event") =>
          /\ open /\ sent'.subscription \in known
          /\ LET entry == entries[sent'.subscription]
             IN  entry.source = sent'.addr /\ entry.type = sent'.type]_vars

\* A client with a subscription to Released is told of the release before the
\* subscription ends, although the session drops its handle in between, unless the
\* runtime lost the event: dropped it, or cut it off by an exception.
TellsReleased ==
    \A i \in known : entries[i].type = "Released" /\ ~entries[i].active => i \in told \cup missed

\* Peer, session and client agree on the subscriptions, and a peer without a session
\* has none and serves no object.
SubscriptionsAgree ==
    /\ subscriptions = known
    /\ known = {i \in SubscriptionIds : entries[i] # None}
    /\ ~connected => handles = {} /\ known = {}
    /\ connected => open

=============================================================================
