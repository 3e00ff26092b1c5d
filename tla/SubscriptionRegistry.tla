------------------------ MODULE SubscriptionRegistry ------------------------
(***************************************************************************)
(* The subscriptions RuntimeTopology (src/src/RuntimeObject.cpp) keeps:    *)
(* event subscriptions and channel subscriptions in two tables that share  *)
(* one space of identifiers, and the two indexes of each table, through    *)
(* which a release and a publish find them.                                *)
(*                                                                         *)
(* The operations run on the loop thread and call no handler, so each is   *)
(* one action.  A refused subscription (an inactive end, or no free        *)
(* identifier) returns an empty handle and changes nothing.                *)
(***************************************************************************)
EXTENDS Integers, FiniteSets

CONSTANTS
    Nodes,
    EventTypes,
    Channels,
    MaxId,      \* the largest std::size_t
    NoSub       \* no subscription has this identifier

ASSUME MaxIdAssumption == MaxId \in Nat \ {0}

Ids == 1 .. MaxId

EventSubscription == [subscriber : Nodes, source : Nodes, type : EventTypes]
ChannelSubscription == [source : Nodes, sourceChannel : Channels,
                        target : Nodes, targetChannel : Channels]

ASSUME NoSubAssumption == NoSub \notin EventSubscription \cup ChannelSubscription

VARIABLES
    state,                  \* life cycle of the object at each address
    nextId,                 \* nextSubscriptionId_
    events,                 \* subscriptionsById_
    eventsBySubscriber,     \* subscriptionsBySubscriber_
    eventsBySource,         \* subscriptionsBySource_
    channels,               \* channelSubscriptionsById_
    channelsBySource,       \* channelSubscriptionsBySource_
    channelsByTarget        \* channelSubscriptionsByTarget_

eventTables == <<events, eventsBySubscriber, eventsBySource>>
channelTables == <<channels, channelsBySource, channelsByTarget>>
registry == <<nextId, eventTables, channelTables>>
vars == <<state, registry>>

States == {"Absent", "Active", "Releasing", "Released"}

TypeOK ==
    /\ state \in [Nodes -> States]
    /\ nextId \in Ids
    /\ events \in [Ids -> EventSubscription \cup {NoSub}]
    /\ eventsBySubscriber \in [Nodes -> SUBSET Ids]
    /\ eventsBySource \in [Nodes \X EventTypes -> SUBSET Ids]
    /\ channels \in [Ids -> ChannelSubscription \cup {NoSub}]
    /\ channelsBySource \in [Nodes \X Channels -> SUBSET Ids]
    /\ channelsByTarget \in [Nodes -> SUBSET Ids]

Active(n) == state[n] = "Active"

Init ==
    /\ state = [n \in Nodes |-> "Absent"]
    /\ nextId = 1
    /\ events = [id \in Ids |-> NoSub]
    /\ eventsBySubscriber = [n \in Nodes |-> {}]
    /\ eventsBySource = [k \in Nodes \X EventTypes |-> {}]
    /\ channels = [id \in Ids |-> NoSub]
    /\ channelsBySource = [k \in Nodes \X Channels |-> {}]
    /\ channelsByTarget = [n \in Nodes |-> {}]

-----------------------------------------------------------------------------
(* Identifiers. *)

Free(id) == events[id] = NoSub /\ channels[id] = NoSub

\* The steps from nextId to id, the counter going from MaxId back to 1.
Distance(id) == IF id >= nextId THEN id - nextId ELSE id + MaxId - nextId

\* Mutant: only the table of event subscriptions is asked.
AllocatedAmongEvents(id) ==
    /\ events[id] = NoSub
    /\ \A other \in Ids : events[other] = NoSub => Distance(id) <= Distance(other)

\* Mutant: after a wrap of the counter used identifiers are given out again.
AllocatedUnchecked(id) == id = nextId

\* allocateSubscriptionId returns the first identifier from nextId on that
\* neither table uses, and leaves the counter just behind it.
Allocated(id) ==
    /\ Free(id)
    /\ \A other \in Ids : Free(other) => Distance(id) <= Distance(other)

\* Mutant: the counter is not advanced, so that a free identifier is reused at once.
FollowingSame(id) == id

Following(id) == IF id = MaxId THEN 1 ELSE id + 1

-----------------------------------------------------------------------------
(* Operations. *)

\* addEventHandler
SubscribeEvent(subscriber, source, type) ==
    /\ Active(subscriber)
    /\ Active(source)
    /\ \E id \in Ids :
          /\ Allocated(id)
          /\ nextId' = Following(id)
          /\ events' = [events EXCEPT ![id] =
                [subscriber |-> subscriber, source |-> source, type |-> type]]
          /\ eventsBySubscriber' = [eventsBySubscriber EXCEPT ![subscriber] = @ \cup {id}]
          /\ eventsBySource' = [eventsBySource EXCEPT ![<<source, type>>] = @ \cup {id}]
    /\ UNCHANGED <<state, channelTables>>

\* subscribeChannel
SubscribeChannel(source, sourceChannel, object, targetChannel) ==
    /\ Active(source)
    /\ Active(object)
    /\ \E id \in Ids :
          /\ Allocated(id)
          /\ nextId' = Following(id)
          /\ channels' = [channels EXCEPT ![id] =
                [source |-> source, sourceChannel |-> sourceChannel,
                 target |-> object, targetChannel |-> targetChannel]]
          /\ channelsBySource' = [channelsBySource EXCEPT ![<<source, sourceChannel>>] = @ \cup {id}]
          /\ channelsByTarget' = [channelsByTarget EXCEPT ![object] = @ \cup {id}]
    /\ UNCHANGED <<state, eventTables>>

\* Mutant: the index by source is forgotten.
RemoveEventsBySubscriber(D) ==
    /\ events' = [id \in Ids |-> IF id \in D THEN NoSub ELSE events[id]]
    /\ eventsBySubscriber' = [n \in Nodes |-> eventsBySubscriber[n] \ D]
    /\ UNCHANGED eventsBySource

\* removeSubscription, for every identifier in D that names an event subscription.
RemoveEvents(D) ==
    /\ events' = [id \in Ids |-> IF id \in D THEN NoSub ELSE events[id]]
    /\ eventsBySubscriber' = [n \in Nodes |->
          {id \in eventsBySubscriber[n] :
              ~(id \in D /\ events[id] # NoSub /\ events[id].subscriber = n)}]
    /\ eventsBySource' = [k \in Nodes \X EventTypes |->
          {id \in eventsBySource[k] :
              ~(id \in D /\ events[id] # NoSub /\ <<events[id].source, events[id].type>> = k)}]

\* removeChannelSubscription, which looks for the identifier under every channel
\* of the source.
RemoveChannels(D) ==
    /\ channels' = [id \in Ids |-> IF id \in D THEN NoSub ELSE channels[id]]
    /\ channelsBySource' = [k \in Nodes \X Channels |->
          {id \in channelsBySource[k] :
              ~(id \in D /\ channels[id] # NoSub /\ channels[id].source = k[1])}]
    /\ channelsByTarget' = [n \in Nodes |->
          {id \in channelsByTarget[n] :
              ~(id \in D /\ channels[id] # NoSub /\ channels[id].target = n)}]

\* cancelSubscription, by a handle or its destructor: both tables are asked.
Cancel(id) ==
    /\ ~Free(id)
    /\ RemoveEvents({id})
    /\ RemoveChannels({id})
    /\ UNCHANGED <<state, nextId>>

\* Mutant: subscriptions to the events of n outlive it.
EventsSubscribedBy(n) == eventsBySubscriber[n]

\* What removeSubscriptionsFor finds in the indexes of n.
EventsOf(n) ==
    {id \in Ids : \/ id \in eventsBySubscriber[n]
                  \/ \E type \in EventTypes : id \in eventsBySource[<<n, type>>]}

ChannelsOf(n) ==
    {id \in Ids : \/ id \in channelsByTarget[n]
                  \/ \E channel \in Channels : id \in channelsBySource[<<n, channel>>]}

Create(n) ==
    /\ state[n] = "Absent"
    /\ state' = [state EXCEPT ![n] = "Active"]
    /\ UNCHANGED registry

\* releaseInternal: the subscriptions stay while the release events are sent,
\* and end just before the object is Released.
BeginRelease(n) ==
    /\ Active(n)
    /\ state' = [state EXCEPT ![n] = "Releasing"]
    /\ UNCHANGED registry

EndRelease(n) ==
    /\ state[n] = "Releasing"
    /\ RemoveEvents(EventsOf(n))
    /\ RemoveChannels(ChannelsOf(n))
    /\ state' = [state EXCEPT ![n] = "Released"]
    /\ UNCHANGED nextId

Destroy(n) ==
    /\ state[n] = "Released"
    /\ state' = [state EXCEPT ![n] = "Absent"]
    /\ UNCHANGED registry

LifeCycleNext ==
    \E n \in Nodes : Create(n) \/ BeginRelease(n) \/ EndRelease(n) \/ Destroy(n)

SubscribeNext ==
    \E m \in Nodes, n \in Nodes :
        \/ \E type \in EventTypes : SubscribeEvent(m, n, type)
        \/ \E c \in Channels, d \in Channels : SubscribeChannel(m, c, n, d)

Next == LifeCycleNext \/ SubscribeNext \/ \E id \in Ids : Cancel(id)

Spec == Init /\ [][Next]_vars

-----------------------------------------------------------------------------
(* Safety. *)

EventIndexesAgree ==
    /\ \A id \in Ids, n \in Nodes :
          id \in eventsBySubscriber[n] <=> events[id] # NoSub /\ events[id].subscriber = n
    /\ \A id \in Ids, n \in Nodes, type \in EventTypes :
          id \in eventsBySource[<<n, type>>] <=>
              events[id] # NoSub /\ events[id].source = n /\ events[id].type = type

ChannelIndexesAgree ==
    /\ \A id \in Ids, n \in Nodes :
          id \in channelsByTarget[n] <=> channels[id] # NoSub /\ channels[id].target = n
    /\ \A id \in Ids, n \in Nodes, channel \in Channels :
          id \in channelsBySource[<<n, channel>>] <=>
              /\ channels[id] # NoSub
              /\ channels[id].source = n
              /\ channels[id].sourceChannel = channel

\* The indexes of both tables list exactly the subscriptions of the tables: a
\* subscription missing from an index is never called or never removed, one left
\* in an index outlives its object.
IndexesAgree == EventIndexesAgree /\ ChannelIndexesAgree

\* No identifier names a subscription of each kind: cancelling a handle of one
\* kind would end a subscription of the other.
IdsNotShared == \A id \in Ids : events[id] = NoSub \/ channels[id] = NoSub

Alive(n) == state[n] \in {"Active", "Releasing"}

\* No subscription survives the release of one of its ends, so an object made
\* later at the same address inherits none.
SubscriptionsJoinAlive ==
    \A id \in Ids :
        /\ events[id] # NoSub => Alive(events[id].subscriber) /\ Alive(events[id].source)
        /\ channels[id] # NoSub => Alive(channels[id].source) /\ Alive(channels[id].target)

Ended == {id \in Ids : ~Free(id) /\ Free(id)'}
Kept == {id \in Ids : \/ events[id] # NoSub /\ events'[id] = events[id]
                      \/ channels[id] # NoSub /\ channels'[id] = channels[id]}
Mentions(id, n) ==
    \/ events[id] # NoSub /\ n \in {events[id].subscriber, events[id].source}
    \/ channels[id] # NoSub /\ n \in {channels[id].source, channels[id].target}

EndsLocally ==
    /\ Ended \cup Kept = {id \in Ids : ~Free(id)}
    /\ \/ \A i, j \in Ended : i = j
       \/ \E n \in Nodes :
             /\ state[n] = "Releasing"
             /\ state'[n] = "Released"
             /\ Ended = {id \in Ids : Mentions(id, n)}

\* A live subscription never changes under its handle; a step ends at most one,
\* except the end of a release, which ends precisely those of its object.
SubscriptionsEndLocally == [][EndsLocally]_vars
==============================================================================
