---------------------------- MODULE RuntimeKernel ----------------------------
(***************************************************************************)
(* The objects at run time: the tables of RuntimeTopology, the event       *)
(* subscriptions of SubscriptionRegistry, and the synchronous events that  *)
(* their operations publish (src/src/RuntimeObject.cpp).                   *)
(*                                                                         *)
(* Everything runs on one thread, so what makes the system concurrent is   *)
(* its call stack: an operation changes the tables and then calls event    *)
(* handlers, which may call any operation again, while the outer one still *)
(* holds the list of handlers it will call next.  The stack is explicit    *)
(* here, its top first:                                                    *)
(*   handler   a handler is running, or has called what lies above it      *)
(*   publish   RuntimeTopology::publish, with the identifiers of the       *)
(*             snapshot that it has not come to yet                        *)
(*   sync      synchronizeChannels at the end of a publish, with the       *)
(*             channel subscriptions still to follow; the code of an       *)
(*             object runs in its ReadData and WriteData                   *)
(*   connect   Connect or Disconnect, with the events still to publish     *)
(*   release   releaseInternal, with the removed edges still to announce   *)
(* User code runs when the stack is empty, when a handler is on top, and   *)
(* inside ReadData and WriteData.                                          *)
(*                                                                         *)
(* The data of an event is an object too.  Where the publish owns it, it   *)
(* dies when that publish is over, and its own Released is one more event  *)
(* of the chain in progress.  Nobody subscribes to the data of an event.   *)
(***************************************************************************)
EXTENDS Integers, Sequences, FiniteSets

CONSTANTS
    Nodes, Pointers, Names, NoNode,     \* as in RuntimeTopology
    UserTypes,      \* event types that user code publishes
    Channels,       \* data channels
    NoChannel,      \* an event without a DataChannelChangedEventData
    MaxId, NoSub,   \* as in SubscriptionRegistry
    MaxDepth,       \* MaxEventPublishDepth
    MaxPublishes    \* MaxEventPublishesPerChain

ASSUME NoNodeAssumption == NoNode \notin Nodes
ASSUME HandleAssumption == Nodes \cap Pointers = {}
ASSUME MaxIdAssumption == MaxId \in Nat \ {0}
ASSUME LimitsAssumption == MaxDepth \in Nat \ {0} /\ MaxPublishes \in Nat \ {0}

RuntimeTypes == {"ChildConnected", "ChildDisconnected", "Released"}
EventTypes == RuntimeTypes \cup UserTypes

\* The type that announces a change of the data of a channel; user code publishes
\* it, and so does the runtime for a copy it has made.
Changed == "DataChannelChanged"

\* User code leaves the types of the runtime to the runtime; the code does not
\* enforce it.
ASSUME UserTypesAssumption == UserTypes \cap RuntimeTypes = {}
ASSUME ChannelsAssumption ==
    NoChannel \notin Channels /\ (Channels # {} => Changed \in UserTypes)
ASSUME NoSubAssumption ==
    NoSub \notin [subscriber : Nodes, source : Nodes, type : EventTypes]
             \cup [source : Nodes, sourceChannel : Channels,
                   target : Nodes, targetChannel : Channels]

VARIABLES
    state, children, incoming, target, boundPointers, pointerReleased,
    nextId, events, eventsBySubscriber, eventsBySource,
    channels, channelsBySource, channelsByTarget,
    stack,          \* the call stack, its top first
    published       \* publishCount of the chain of events in progress

Topology == INSTANCE RuntimeTopology
Registry == INSTANCE SubscriptionRegistry

edgesAndPointers == <<children, incoming, target, boundPointers, pointerReleased>>
subscriptions == <<nextId, events, eventsBySubscriber, eventsBySource,
                   channels, channelsBySource, channelsByTarget>>
tables == <<state, edgesAndPointers, subscriptions>>
control == <<stack, published>>
vars == <<tables, control>>

-----------------------------------------------------------------------------
(* The call stack. *)

Edges == Nodes \X Names

HandlerFrames == [kind : {"handler"}, id : Registry!Ids]
PublishFrames ==
    [kind : {"publish"}, source : Nodes, type : EventTypes,
     channel : Channels \cup {NoChannel}, ids : SUBSET Registry!Ids, synced : BOOLEAN,
     owned : BOOLEAN]
\* The phase says how far the copy for the chosen subscription has come: its
\* ReadData runs (reading, written, failed), or the WriteData inside (writing).
Phases == {"choose", "reading", "writing", "written", "failed"}
SyncFrames ==
    [kind : {"sync"}, source : Nodes, from : Channels, ids : SUBSET Registry!Ids,
     target : Nodes \cup {NoNode}, channel : Channels \cup {NoChannel}, phase : Phases]
ConnectFrames ==
    [kind : {"connect"}, node : Nodes,
     todo : {<<>>, <<"ChildConnected">>, <<"ChildDisconnected">>,
             <<"ChildDisconnected", "ChildConnected">>}]
ReleaseFrames ==
    [kind : {"release"}, node : Nodes, parents : SUBSET Edges, names : SUBSET Names,
     announced : BOOLEAN]
Frames == HandlerFrames \cup PublishFrames \cup SyncFrames \cup ConnectFrames \cup ReleaseFrames

TypeOK ==
    /\ Topology!TypeOK
    /\ Registry!TypeOK
    /\ stack \in Seq(Frames)
    /\ published \in 0 .. MaxPublishes

Top(kind) == stack # <<>> /\ Head(stack).kind = kind

Choosing == Top("sync") /\ Head(stack).phase = "choose"

IsUserCode(frame) ==
    \/ frame.kind = "handler"
    \/ frame.kind = "sync" /\ frame.phase # "choose"

InUserCode == stack # <<>> => IsUserCode(Head(stack))

\* The positions of the frames of one kind in a stack.
FramesOf(s, kind) == {i \in 1 .. Len(s) : s[i].kind = kind}

\* The publishes that are over when s is left of the stack, and own their data.
OwnersLeft(s) ==
    {i \in FramesOf(stack, "publish") : i <= Len(stack) - Len(s) /\ stack[i].owned}

\* The context of the chain lives as long as a publish is in progress, and counts
\* the ends of the data of those that are over.
CountFor(s) ==
    LET count == published + Cardinality(OwnersLeft(s))
    IN  IF FramesOf(s, "publish") = {} THEN 0
        ELSE IF count <= MaxPublishes THEN count ELSE MaxPublishes

\* EventDispatchScope: an event is dropped when the same event of the same source
\* is in progress, at the nesting limit, and at the limit of events per chain.
LimitReached ==
    Cardinality(FramesOf(stack, "publish")) >= MaxDepth \/ published >= MaxPublishes

Truncated(source, type) ==
    \/ LimitReached
    \/ \E i \in FramesOf(stack, "publish") : stack[i].source = source /\ stack[i].type = type

\* RuntimeTopology::publish copies the identifiers subscribed to the event.
PublishFrame(source, type, channel, owned) ==
    [kind |-> "publish", source |-> source, type |-> type, channel |-> channel,
     ids |-> eventsBySource[<<source, type>>], synced |-> channel = NoChannel,
     owned |-> owned]

\* Mutant: an event is not counted.
RaiseUncounted(source, type, channel, owned, below) ==
    /\ stack' = IF Truncated(source, type) THEN below
                ELSE <<PublishFrame(source, type, channel, owned)>> \o below
    /\ UNCHANGED published

\* Data that is not published after all dies at once.
DataDies(owned) ==
    published' = IF owned /\ FramesOf(stack, "publish") # {} /\ ~LimitReached
                 THEN published + 1 ELSE published

\* publishEvent, called by the frame on top of below, unless it is dropped.
Raise(source, type, channel, owned, below) ==
    IF Truncated(source, type)
    THEN /\ stack' = below
         /\ DataDies(owned)
    ELSE /\ stack' = <<PublishFrame(source, type, channel, owned)>> \o below
         /\ published' = published + 1

-----------------------------------------------------------------------------
Init ==
    /\ Topology!Init
    /\ Registry!Init
    /\ stack = <<>>
    /\ published = 0

(* Operations of user code. *)

Create(n) ==
    /\ InUserCode
    /\ Topology!Create(n)
    /\ Registry!Create(n)
    /\ UNCHANGED control

\* The objects that the calls in progress will still touch: the frames hold plain
\* pointers to them.
InUse(n) ==
    \E i \in 1 .. Len(stack) :
        LET frame == stack[i]
        IN  \/ frame.kind \in {"publish", "sync"} /\ frame.source = n
            \/ frame.kind = "sync" /\ frame.target = n
            \/ frame.kind \in {"connect", "release"} /\ frame.node = n
            \/ frame.kind = "release" /\ \E e \in frame.parents : e[1] = n

\* Mutant: the destructor does not release an object that is still Active.
DestroyUnreleased(n) ==
    /\ InUserCode
    /\ ~InUse(n)
    /\ state[n] # "Absent"
    /\ state' = [state EXCEPT ![n] = "Absent"]
    /\ UNCHANGED <<edgesAndPointers, subscriptions, control>>

\* A handler may delete an object, but not one that a call still holds.
Destroy(n) ==
    /\ InUserCode
    /\ ~InUse(n)
    /\ Topology!Destroy(n)
    /\ Registry!Destroy(n)
    /\ UNCHANGED control

\* The events follow the change of the table; an overwrite publishes two.
Connect(parent, name, handle, overwrite) ==
    LET previous == Topology!ChildItem(parent, name)
        todo == IF previous = NoNode THEN <<"ChildConnected">>
                ELSE <<"ChildDisconnected", "ChildConnected">>
    IN  /\ InUserCode
        /\ Topology!Connect(parent, name, handle, overwrite)
        /\ stack' = <<[kind |-> "connect", node |-> parent, todo |-> todo]>> \o stack
        /\ UNCHANGED <<subscriptions, published>>

Disconnect(parent, name) ==
    /\ InUserCode
    /\ Topology!Disconnect(parent, name)
    /\ stack' = <<[kind |-> "connect", node |-> parent, todo |-> <<"ChildDisconnected">>]>> \o stack
    /\ UNCHANGED <<subscriptions, published>>

\* Binding, unbinding and releasing pointers publishes nothing.
PointerOperation ==
    /\ InUserCode
    /\ Topology!PointerNext
    /\ UNCHANGED <<subscriptions, control>>

\* The bound of the model: the counter stays below the largest identifier.
IdsRemain == nextId < MaxId

SubscribeEvent(subscriber, handle, type) ==
    LET source == Topology!Resolve(handle)
    IN  /\ InUserCode
        /\ IdsRemain
        /\ source # NoNode
        /\ Registry!SubscribeEvent(subscriber, source, type)
        /\ UNCHANGED <<edgesAndPointers, control>>

\* The caller n is the target; the source may be given by a pointer to it.
SubscribeChannel(n, channel, handle, sourceChannel) ==
    LET source == Topology!Resolve(handle)
    IN  /\ InUserCode
        /\ IdsRemain
        /\ source # NoNode
        /\ Registry!SubscribeChannel(source, sourceChannel, n, channel)
        /\ UNCHANGED <<edgesAndPointers, control>>

\* Cancel or the destructor of a subscription handle.
Cancel(id) ==
    /\ InUserCode
    /\ Registry!Cancel(id)
    /\ UNCHANGED <<edgesAndPointers, control>>

\* A change names its channel in the data of the event, or has other data or none.
\* The publish owns the data if the caller says so.  Only an Active object publishes.
Publish(n, type, channel, owned) ==
    /\ InUserCode
    /\ type # Changed => channel = NoChannel
    /\ state[n] # "Absent"
    /\ IF state[n] = "Active" THEN Raise(n, type, channel, owned, stack)
       ELSE stack' = stack /\ DataDies(owned)
    /\ UNCHANGED tables

\* Mutant: the subscriptions end before the events of the release.
ReleaseDropsSubscriptions(n) ==
    /\ InUserCode
    /\ Topology!BeginRelease(n)
    /\ Registry!RemoveEvents(Registry!EventsOf(n))
    /\ stack' = <<[kind |-> "release", node |-> n, parents |-> incoming[n],
                   names |-> {name \in Names : children[n][name] # NoNode},
                   announced |-> FALSE]>> \o stack
    /\ UNCHANGED <<published, nextId, channels, channelsBySource, channelsByTarget>>

\* releaseInternal up to its first event, for an explicit Release and for the
\* destructor of an object that is still Active.
Release(n) ==
    /\ InUserCode
    /\ Topology!BeginRelease(n)
    /\ Registry!BeginRelease(n)
    /\ stack' = <<[kind |-> "release", node |-> n, parents |-> incoming[n],
                   names |-> {name \in Names : children[n][name] # NoNode},
                   announced |-> FALSE]>> \o stack
    /\ UNCHANGED published

\* A handler returns to the publish that called it.
HandlerReturn ==
    /\ Top("handler")
    /\ stack' = Tail(stack)
    /\ UNCHANGED <<tables, published>>

\* Mutant: a release lets the exceptions of its handlers through.
HandlerThrowThroughRelease ==
    /\ stack # <<>> /\ InUserCode
    /\ \E caught \in 2 .. Len(stack) + 1 :
          /\ caught <= Len(stack) => IsUserCode(stack[caught])
          /\ stack' = SubSeq(stack, caught, Len(stack))
    /\ published' = CountFor(stack')
    /\ UNCHANGED tables

\* A handler, or the code of an object, throws: the frames above the next one that
\* catches are left, their scopes closed on the way.  releaseInternal catches,
\* user code may, and otherwise the exception leaves the outermost call.
HandlerThrow ==
    /\ stack # <<>> /\ InUserCode
    /\ \E caught \in 2 .. Len(stack) + 1 :
          /\ \A i \in 2 .. caught - 1 : stack[i].kind # "release"
          /\ caught <= Len(stack) => stack[caught].kind = "release" \/ IsUserCode(stack[caught])
          /\ stack' = SubSeq(stack, caught, Len(stack))
    /\ published' = CountFor(stack')
    /\ UNCHANGED tables

-----------------------------------------------------------------------------
(* Steps of the runtime. *)

\* Mutant: the state of the subscriber is not asked.
DeliverToAny ==
    /\ Top("publish")
    /\ \E id \in Head(stack).ids :
          LET rest == <<[Head(stack) EXCEPT !.ids = @ \ {id}]>> \o Tail(stack)
          IN  /\ \A other \in Head(stack).ids : id <= other
              /\ stack' = IF events[id] # NoSub
                          THEN <<[kind |-> "handler", id |-> id]>> \o rest
                          ELSE rest
    /\ UNCHANGED <<tables, published>>

\* Mutant: the snapshot is worked through in any order.
DeliverInAnyOrder ==
    /\ Top("publish")
    /\ \E id \in Head(stack).ids :
          LET rest == <<[Head(stack) EXCEPT !.ids = @ \ {id}]>> \o Tail(stack)
          IN  stack' = IF events[id] # NoSub /\ state[events[id].subscriber] = "Active"
                       THEN <<[kind |-> "handler", id |-> id]>> \o rest
                       ELSE rest
    /\ UNCHANGED <<tables, published>>

\* The next identifier of the snapshot: its handler is called if the subscription
\* still exists and the subscriber is Active.
Deliver ==
    /\ Top("publish")
    /\ \E id \in Head(stack).ids :
          LET rest == <<[Head(stack) EXCEPT !.ids = @ \ {id}]>> \o Tail(stack)
          IN  /\ \A other \in Head(stack).ids : id <= other
              /\ stack' = IF events[id] # NoSub /\ state[events[id].subscriber] = "Active"
                          THEN <<[kind |-> "handler", id |-> id]>> \o rest
                          ELSE rest
    /\ UNCHANGED <<tables, published>>

EndPublish ==
    /\ Top("publish")
    /\ Head(stack).ids = {} /\ Head(stack).synced
    /\ stack' = Tail(stack)
    /\ published' = CountFor(stack')
    /\ UNCHANGED tables

\* Connect and Disconnect publish from the parent without looking at its state.
ChildEvent ==
    /\ Top("connect")
    /\ LET frame == Head(stack)
           below == Tail(stack)
       IN  IF frame.todo = <<>>
           THEN stack' = below /\ UNCHANGED published
           ELSE Raise(frame.node, Head(frame.todo), NoChannel, TRUE,
                      <<[frame EXCEPT !.todo = Tail(@)]>> \o below)
    /\ UNCHANGED tables

\* Mutant: the release announces itself again and again.
ReleaseEventRepeats ==
    /\ Top("release")
    /\ Raise(Head(stack).node, "Released", NoChannel, FALSE, stack)
    /\ UNCHANGED tables

\* A release announces the removed edges, those to its parents first, and then
\* itself.  The order among parents is that of their addresses.
ReleaseEvent ==
    /\ Top("release")
    /\ LET frame == Head(stack)
           below == Tail(stack)
       IN  \/ \E e \in frame.parents :
                 Raise(e[1], "ChildDisconnected", NoChannel, TRUE,
                       <<[frame EXCEPT !.parents = @ \ {e}]>> \o below)
           \/ /\ frame.parents = {}
              /\ \E name \in frame.names :
                    Raise(frame.node, "ChildDisconnected", NoChannel, TRUE,
                          <<[frame EXCEPT !.names = @ \ {name}]>> \o below)
           \/ /\ frame.parents = {} /\ frame.names = {} /\ ~frame.announced
              /\ Raise(frame.node, "Released", NoChannel, FALSE,
                       <<[frame EXCEPT !.announced = TRUE]>> \o below)
    /\ UNCHANGED tables

\* The end of releaseInternal: the subscriptions go, and the object is Released.
EndRelease(n) ==
    /\ Top("release")
    /\ Head(stack).node = n
    /\ Head(stack).announced
    /\ Topology!EndRelease(n)
    /\ Registry!EndRelease(n)
    /\ stack' = Tail(stack)
    /\ UNCHANGED published

-----------------------------------------------------------------------------
(* Channel synchronisation, at the end of the publish of a change. *)

\* The objects that the branches in progress have come through: the source of the
\* outermost change of a channel, and the targets of the copies under way.  The
\* change that user code publishes inside of another one adds to the path of that.
ChannelPath(s) ==
    LET changes == {i \in FramesOf(s, "publish") : s[i].channel # NoChannel}
    IN  {s[i].source : i \in {c \in changes : \A d \in changes : d <= c}}
            \cup ({s[i].target : i \in FramesOf(s, "sync")} \ {NoNode})

StartSync ==
    /\ Top("publish")
    /\ Head(stack).ids = {} /\ ~Head(stack).synced
    /\ LET change == Head(stack)
           sync == [kind |-> "sync", source |-> change.source, from |-> change.channel,
                    ids |-> channelsBySource[<<change.source, change.channel>>],
                    target |-> NoNode, channel |-> NoChannel, phase |-> "choose"]
       IN  stack' = <<sync>> \o (<<[change EXCEPT !.synced = TRUE]>> \o Tail(stack))
    /\ UNCHANGED <<tables, published>>

\* A subscription is followed if it still exists, joins Active objects, and does
\* not lead back to an object that the branch has come through.
Follows(frame, id) ==
    /\ channels[id] # NoSub
    /\ channels[id].source = frame.source
    /\ state[frame.source] = "Active"
    /\ state[channels[id].target] = "Active"
    /\ channels[id].target \notin ChannelPath(Tail(stack))

\* Mutant: a subscription that is not followed ends the loop.
NextBranchOrReturn ==
    /\ Choosing
    /\ \E id \in Head(stack).ids :
          LET frame == [Head(stack) EXCEPT !.ids = @ \ {id}]
          IN  /\ \A other \in Head(stack).ids : id <= other
              /\ stack' =
                    <<IF Follows(frame, id)
                      THEN [frame EXCEPT !.target = channels[id].target,
                                         !.channel = channels[id].targetChannel,
                                         !.phase = "reading"]
                      ELSE [frame EXCEPT !.target = NoNode, !.ids = {}]>> \o Tail(stack)
    /\ UNCHANGED <<tables, published>>

\* The next identifier of the snapshot.
NextBranch ==
    /\ Choosing
    /\ \E id \in Head(stack).ids :
          LET frame == [Head(stack) EXCEPT !.ids = @ \ {id}]
          IN  /\ \A other \in Head(stack).ids : id <= other
              /\ stack' =
                    <<IF Follows(frame, id)
                      THEN [frame EXCEPT !.target = channels[id].target,
                                         !.channel = channels[id].targetChannel,
                                         !.phase = "reading"]
                      ELSE [frame EXCEPT !.target = NoNode]>> \o Tail(stack)
    /\ UNCHANGED <<tables, published>>

InPhase(phases) == Top("sync") /\ Head(stack).phase \in phases

EnterPhase(phase) ==
    /\ stack' = <<[Head(stack) EXCEPT !.phase = phase]>> \o Tail(stack)
    /\ UNCHANGED <<tables, published>>

\* Mutant: the receiver does not ask whether the target is still Active.
ReceiveUnasked ==
    /\ InPhase({"reading", "written"})
    /\ EnterPhase(IF Head(stack).phase = "reading" THEN "writing" ELSE "failed")

\* ReadData of the source calls the receiver: the first time it writes to the
\* target, if that is still Active; a second call spoils the copy.
Receive ==
    /\ InPhase({"reading", "written"})
    /\ EnterPhase(IF Head(stack).phase = "reading" /\ state[Head(stack).target] = "Active"
                  THEN "writing" ELSE "failed")

\* WriteData of the target returns; an exception that ReadData catches is a
\* failure too.
WriteReturn(ok) ==
    /\ InPhase({"writing"})
    /\ EnterPhase(IF ok THEN "written" ELSE "failed")

\* ReadData returns: a complete copy between objects that are still Active is
\* published from the target, the branch staying open until that returns.
ReadReturn(ok) ==
    /\ InPhase({"reading", "written", "failed"})
    /\ LET frame == Head(stack)
           next == [frame EXCEPT !.phase = "choose", !.channel = NoChannel]
       IN  IF /\ ok /\ frame.phase = "written"
              /\ state[frame.source] = "Active" /\ state[frame.target] = "Active"
           THEN Raise(frame.target, Changed, frame.channel, TRUE, <<next>> \o Tail(stack))
           ELSE /\ stack' = <<[next EXCEPT !.target = NoNode]>> \o Tail(stack)
                /\ UNCHANGED published
    /\ UNCHANGED tables

EndSync ==
    /\ Choosing
    /\ Head(stack).ids = {}
    /\ stack' = Tail(stack)
    /\ UNCHANGED <<tables, published>>

-----------------------------------------------------------------------------
NodeOperation ==
    \E n \in Nodes :
        \/ Create(n)
        \/ Destroy(n)
        \/ Release(n)
        \/ \E type \in UserTypes, channel \in Channels \cup {NoChannel}, owned \in BOOLEAN :
               Publish(n, type, channel, owned)

EdgeOperation ==
    \E parent \in Nodes, name \in Names :
        \/ Disconnect(parent, name)
        \/ \E handle \in Nodes \cup Pointers, overwrite \in BOOLEAN :
               Connect(parent, name, handle, overwrite)

SubscriptionOperation ==
    \/ \E n \in Nodes, handle \in Nodes \cup Pointers, type \in EventTypes :
           SubscribeEvent(n, handle, type)
    \/ \E n \in Nodes, handle \in Nodes \cup Pointers, c \in Channels, d \in Channels :
           SubscribeChannel(n, c, handle, d)
    \/ \E id \in Registry!Ids : Cancel(id)

UserStep ==
    \/ NodeOperation
    \/ EdgeOperation
    \/ PointerOperation
    \/ SubscriptionOperation

DataStep ==
    \/ Receive
    \/ \E ok \in BOOLEAN : WriteReturn(ok) \/ ReadReturn(ok)

RuntimeStep ==
    \/ Deliver
    \/ StartSync
    \/ NextBranch
    \/ EndSync
    \/ EndPublish
    \/ ChildEvent
    \/ ReleaseEvent
    \/ \E n \in Nodes : EndRelease(n)

Next == UserStep \/ HandlerReturn \/ HandlerThrow \/ DataStep \/ RuntimeStep

Spec == Init /\ [][Next]_vars

\* Returns of user code.
UserReturn == HandlerReturn \/ \E ok \in BOOLEAN : WriteReturn(ok) \/ ReadReturn(ok)

\* The runtime's own steps are sequential code; user code returns unless it calls
\* the runtime again and again without end, and then it returns all the same when
\* those calls bring it back to itself infinitely often.
FairSpec == Spec /\ WF_vars(RuntimeStep) /\ SF_vars(UserReturn)

-----------------------------------------------------------------------------
(* Safety. *)

\* Exactly the objects being released have a release on the stack, and only one,
\* also after exceptions: none is left half released, and a Release called from
\* the handlers of a release does not start it over.
ReleaseInProgress ==
    LET releases == FramesOf(stack, "release")
    IN  /\ \A i \in releases : state[stack[i].node] = "Releasing"
        /\ \A i, j \in releases : stack[i].node = stack[j].node => i = j
        /\ \A n \in Nodes : state[n] = "Releasing" => \E i \in releases : stack[i].node = n

\* What is left of a snapshot names, where it still names a subscription, one to
\* the very event, or the very channel, being published: no handler gets an event
\* and no object data it did not ask for, whatever is cancelled and subscribed
\* while the snapshot is worked through.
SnapshotsNameOwn ==
    /\ \A i \in FramesOf(stack, "publish") :
          \A id \in stack[i].ids :
              events[id] # NoSub =>
                  events[id].source = stack[i].source /\ events[id].type = stack[i].type
    /\ \A i \in FramesOf(stack, "sync") :
          \A id \in stack[i].ids :
              channels[id] # NoSub =>
                  channels[id].source = stack[i].source /\ channels[id].sourceChannel = stack[i].from

\* The Released event of an object is in progress only directly under its own
\* release, and not before that has announced it: it is published at most once,
\* and the cycle rule cannot drop it.
ReleasedBelongsToRelease ==
    \A i \in FramesOf(stack, "publish") :
        stack[i].type = "Released" =>
            /\ i < Len(stack)
            /\ stack[i + 1].kind = "release"
            /\ stack[i + 1].node = stack[i].source
            /\ stack[i + 1].announced

\* A step calls a handler when it leaves one on top of the publish it serves.
CallsHandler == Len(stack') = Len(stack) + 1 /\ stack'[1].kind = "handler"

HandlerCallAllowed ==
    LET source == stack'[2].source
        type == stack'[2].type
        subscription == events[stack'[1].id]
    IN  /\ subscription # NoSub
        /\ state[subscription.subscriber] = "Active"
        /\ \/ state[source] = "Active"
           \/ state[source] = "Releasing" /\ type \in {"ChildDisconnected", "Released"}

\* A handler is called only for a subscriber that is Active and for a source that
\* is Active or announcing its own release: once an object is Released no handler
\* hears of it, even where an outer Connect still has events of it to publish.
HandlersHearTheLiving == [][CallsHandler => HandlerCallAllowed]_vars

\* The copy on top goes on, or is announced from its target.
Advances == Top("sync") /\ stack' # <<>> /\ Head(stack') # Head(stack) /\ Tail(stack') = Tail(stack)
Announced ==
    /\ Top("sync")
    /\ Len(stack') = Len(stack) + 1
    /\ Tail(stack') # stack /\ Tail(Tail(stack')) = Tail(stack)

CopyAllowed ==
    LET copy == Head(stack')
    IN  /\ Advances /\ copy.phase = "reading" =>
              state[copy.source] = "Active" /\ state[copy.target] = "Active"
        /\ Advances /\ copy.phase = "writing" => state[copy.target] = "Active"
        /\ Announced =>
              state[Head(stack).source] = "Active" /\ state[Head(stack).target] = "Active"

\* The code of an object runs, in ReadData or WriteData, only while the object is
\* Active, and a copy is announced only between objects that both are: whatever
\* the code on the other end has released, cancelled or thrown before.
CopiesReachTheLiving == [][CopyAllowed]_vars

\* The kernel is a topology and a registry: every step changes their tables the
\* way one of their operations does, so what is proved of them holds of it.
ImplementsTopology == Topology!Spec
ImplementsRegistry == Registry!Spec

(* Liveness. *)

\* Every outermost call into the runtime returns, whatever the handlers call: the
\* limit on the events of a chain ends any recursion through events.
CallsReturn == stack # <<>> ~> stack = <<>>
==============================================================================
