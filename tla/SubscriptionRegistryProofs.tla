--------------------- MODULE SubscriptionRegistryProofs ---------------------
(***************************************************************************)
(* The invariants of SubscriptionRegistry, for any objects, event types,   *)
(* channels and any width of the identifiers.                              *)
(***************************************************************************)
EXTENDS SubscriptionRegistry, TLAPS

\* The inductive invariant: a release reads the indexes, so they have to be
\* exact for it to leave no subscription to a dead object.
IInv ==
    /\ TypeOK
    /\ IndexesAgree
    /\ IdsNotShared
    /\ SubscriptionsJoinAlive

\* The invariant holds before the first object is made.
LEMMA InitIInv == Init => IInv
<1> SUFFICES ASSUME Init PROVE IInv
  OBVIOUS
<1>1. TypeOK
  BY MaxIdAssumption DEF Init, TypeOK, States, Ids
<1>2. IndexesAgree
  BY DEF Init, IndexesAgree, EventIndexesAgree, ChannelIndexesAgree
<1>3. IdsNotShared /\ SubscriptionsJoinAlive
  BY DEF Init, IdsNotShared, SubscriptionsJoinAlive
<1> QED
  BY <1>1, <1>2, <1>3 DEF IInv

\* The counter stays a valid identifier, also where it wraps around.
LEMMA FollowingType == \A id \in Ids : Following(id) \in Ids
BY MaxIdAssumption DEF Following, Ids

\* Removing event subscriptions keeps their indexes exact, whatever the set D.
LEMMA RemoveEventsStep ==
    ASSUME TypeOK, EventIndexesAgree, NEW D \in SUBSET Ids, RemoveEvents(D)
    PROVE  /\ events' \in [Ids -> EventSubscription \cup {NoSub}]
           /\ eventsBySubscriber' \in [Nodes -> SUBSET Ids]
           /\ eventsBySource' \in [Nodes \X EventTypes -> SUBSET Ids]
           /\ EventIndexesAgree'
           /\ \A id \in Ids : events'[id] = IF id \in D THEN NoSub ELSE events[id]
<1>1. /\ events' \in [Ids -> EventSubscription \cup {NoSub}]
      /\ \A id \in Ids : events'[id] = IF id \in D THEN NoSub ELSE events[id]
  BY DEF RemoveEvents, TypeOK
<1>2. eventsBySubscriber' \in [Nodes -> SUBSET Ids]
  BY DEF RemoveEvents, TypeOK
<1>3. eventsBySource' \in [Nodes \X EventTypes -> SUBSET Ids]
  BY DEF RemoveEvents, TypeOK
<1>4. ASSUME NEW id \in Ids, NEW n \in Nodes
      PROVE  id \in eventsBySubscriber'[n] <=> events'[id] # NoSub /\ events'[id].subscriber = n
  BY <1>1 DEF RemoveEvents, EventIndexesAgree
<1>5. ASSUME NEW id \in Ids, NEW n \in Nodes, NEW type \in EventTypes
      PROVE  id \in eventsBySource'[<<n, type>>] <=>
                 events'[id] # NoSub /\ events'[id].source = n /\ events'[id].type = type
  <2>1. id \in eventsBySource[<<n, type>>] <=>
            events[id] # NoSub /\ events[id].source = n /\ events[id].type = type
    BY DEF EventIndexesAgree
  <2>2. <<n, type>> \in Nodes \X EventTypes
    OBVIOUS
  <2>3. id \in eventsBySource'[<<n, type>>] <=>
            /\ id \in eventsBySource[<<n, type>>]
            /\ ~(id \in D /\ events[id] # NoSub
                 /\ <<events[id].source, events[id].type>> = <<n, type>>)
    BY <2>2 DEF RemoveEvents
  <2> QED
    BY <1>1, <2>1, <2>3
<1> QED
  BY <1>1, <1>2, <1>3, <1>4, <1>5 DEF EventIndexesAgree

\* The same for channel subscriptions, whose index is searched by the source only.
LEMMA RemoveChannelsStep ==
    ASSUME TypeOK, ChannelIndexesAgree, NEW D \in SUBSET Ids, RemoveChannels(D)
    PROVE  /\ channels' \in [Ids -> ChannelSubscription \cup {NoSub}]
           /\ channelsBySource' \in [Nodes \X Channels -> SUBSET Ids]
           /\ channelsByTarget' \in [Nodes -> SUBSET Ids]
           /\ ChannelIndexesAgree'
           /\ \A id \in Ids : channels'[id] = IF id \in D THEN NoSub ELSE channels[id]
<1>1. /\ channels' \in [Ids -> ChannelSubscription \cup {NoSub}]
      /\ \A id \in Ids : channels'[id] = IF id \in D THEN NoSub ELSE channels[id]
  BY DEF RemoveChannels, TypeOK
<1>2. channelsByTarget' \in [Nodes -> SUBSET Ids]
  BY DEF RemoveChannels, TypeOK
<1>3. channelsBySource' \in [Nodes \X Channels -> SUBSET Ids]
  BY DEF RemoveChannels, TypeOK
<1>4. ASSUME NEW id \in Ids, NEW n \in Nodes
      PROVE  id \in channelsByTarget'[n] <=> channels'[id] # NoSub /\ channels'[id].target = n
  BY <1>1 DEF RemoveChannels, ChannelIndexesAgree
<1>5. ASSUME NEW id \in Ids, NEW n \in Nodes, NEW channel \in Channels
      PROVE  id \in channelsBySource'[<<n, channel>>] <=>
                 /\ channels'[id] # NoSub
                 /\ channels'[id].source = n
                 /\ channels'[id].sourceChannel = channel
  <2>1. id \in channelsBySource[<<n, channel>>] <=>
            /\ channels[id] # NoSub
            /\ channels[id].source = n
            /\ channels[id].sourceChannel = channel
    BY DEF ChannelIndexesAgree
  <2>2. <<n, channel>> \in Nodes \X Channels
    OBVIOUS
  <2>3. id \in channelsBySource'[<<n, channel>>] <=>
            /\ id \in channelsBySource[<<n, channel>>]
            /\ ~(id \in D /\ channels[id] # NoSub /\ channels[id].source = n)
    BY <2>2 DEF RemoveChannels
  <2> QED
    BY <1>1, <2>1, <2>3
<1> QED
  BY <1>1, <1>2, <1>3, <1>4, <1>5 DEF ChannelIndexesAgree

\* A new event subscription takes a free identifier into both of its indexes.
LEMMA SubscribeEventStep ==
    ASSUME IInv, NEW m \in Nodes, NEW n \in Nodes, NEW type \in EventTypes,
           SubscribeEvent(m, n, type)
    PROVE  IInv'
<1>1. PICK id \in Ids :
          /\ Allocated(id)
          /\ nextId' = Following(id)
          /\ events' = [events EXCEPT ![id] = [subscriber |-> m, source |-> n, type |-> type]]
          /\ eventsBySubscriber' = [eventsBySubscriber EXCEPT ![m] = @ \cup {id}]
          /\ eventsBySource' = [eventsBySource EXCEPT ![<<n, type>>] = @ \cup {id}]
  BY DEF SubscribeEvent
<1> DEFINE s == [subscriber |-> m, source |-> n, type |-> type]
<1>2. s \in EventSubscription /\ s # NoSub
  BY NoSubAssumption DEF EventSubscription
<1>3. Free(id) /\ Active(m) /\ Active(n) /\ UNCHANGED <<state, channelTables>>
  BY <1>1 DEF SubscribeEvent, Allocated
<1>4. \A i \in Ids : events'[i] = IF i = id THEN s ELSE events[i]
  BY <1>1 DEF IInv, TypeOK
<1>5. TypeOK'
  BY <1>1, <1>2, <1>3, FollowingType DEF IInv, TypeOK, channelTables
<1>6. EventIndexesAgree'
  <2>1. ASSUME NEW i \in Ids, NEW k \in Nodes
        PROVE  i \in eventsBySubscriber'[k] <=> events'[i] # NoSub /\ events'[i].subscriber = k
    BY <1>1, <1>2, <1>3, <1>4 DEF IInv, TypeOK, IndexesAgree, EventIndexesAgree, Free
  <2>2. ASSUME NEW i \in Ids, NEW k \in Nodes, NEW t \in EventTypes
        PROVE  i \in eventsBySource'[<<k, t>>] <=>
                   events'[i] # NoSub /\ events'[i].source = k /\ events'[i].type = t
    <3>1. i \in eventsBySource[<<k, t>>] <=>
              events[i] # NoSub /\ events[i].source = k /\ events[i].type = t
      BY DEF IInv, IndexesAgree, EventIndexesAgree
    <3>2. eventsBySource'[<<k, t>>] = IF k = n /\ t = type
                                       THEN eventsBySource[<<k, t>>] \cup {id}
                                       ELSE eventsBySource[<<k, t>>]
      BY <1>1 DEF IInv, TypeOK
    <3> QED
      BY <1>2, <1>3, <1>4, <3>1, <3>2 DEF Free
  <2> QED
    BY <2>1, <2>2 DEF EventIndexesAgree
<1>7. ChannelIndexesAgree'
  BY <1>3 DEF IInv, IndexesAgree, ChannelIndexesAgree, channelTables
<1>8. IdsNotShared'
  BY <1>3, <1>4 DEF IInv, IdsNotShared, Free, channelTables
<1>9. SubscriptionsJoinAlive'
  BY <1>3, <1>4 DEF IInv, SubscriptionsJoinAlive, Alive, Active, channelTables
<1> QED
  BY <1>5, <1>6, <1>7, <1>8, <1>9 DEF IInv, IndexesAgree

LEMMA SubscribeChannelStep ==
    ASSUME IInv, NEW m \in Nodes, NEW c \in Channels, NEW n \in Nodes, NEW d \in Channels,
           SubscribeChannel(m, c, n, d)
    PROVE  IInv'
<1> DEFINE s == [source |-> m, sourceChannel |-> c, target |-> n, targetChannel |-> d]
<1>1. PICK id \in Ids :
          /\ Allocated(id)
          /\ nextId' = Following(id)
          /\ channels' = [channels EXCEPT ![id] = s]
          /\ channelsBySource' = [channelsBySource EXCEPT ![<<m, c>>] = @ \cup {id}]
          /\ channelsByTarget' = [channelsByTarget EXCEPT ![n] = @ \cup {id}]
  BY DEF SubscribeChannel
<1>2. s \in ChannelSubscription /\ s # NoSub
  BY NoSubAssumption DEF ChannelSubscription
<1>3. Free(id) /\ Active(m) /\ Active(n) /\ UNCHANGED <<state, eventTables>>
  BY <1>1 DEF SubscribeChannel, Allocated
<1>4. \A i \in Ids : channels'[i] = IF i = id THEN s ELSE channels[i]
  BY <1>1 DEF IInv, TypeOK
<1>5. TypeOK'
  BY <1>1, <1>2, <1>3, FollowingType DEF IInv, TypeOK, eventTables
<1>6. ChannelIndexesAgree'
  <2>1. ASSUME NEW i \in Ids, NEW k \in Nodes
        PROVE  i \in channelsByTarget'[k] <=> channels'[i] # NoSub /\ channels'[i].target = k
    BY <1>1, <1>2, <1>3, <1>4 DEF IInv, TypeOK, IndexesAgree, ChannelIndexesAgree, Free
  <2>2. ASSUME NEW i \in Ids, NEW k \in Nodes, NEW e \in Channels
        PROVE  i \in channelsBySource'[<<k, e>>] <=>
                   /\ channels'[i] # NoSub
                   /\ channels'[i].source = k
                   /\ channels'[i].sourceChannel = e
    <3>1. i \in channelsBySource[<<k, e>>] <=>
              channels[i] # NoSub /\ channels[i].source = k /\ channels[i].sourceChannel = e
      BY DEF IInv, IndexesAgree, ChannelIndexesAgree
    <3>2. channelsBySource'[<<k, e>>] = IF k = m /\ e = c
                                         THEN channelsBySource[<<k, e>>] \cup {id}
                                         ELSE channelsBySource[<<k, e>>]
      BY <1>1 DEF IInv, TypeOK
    <3> QED
      BY <1>2, <1>3, <1>4, <3>1, <3>2 DEF Free
  <2> QED
    BY <2>1, <2>2 DEF ChannelIndexesAgree
<1>7. EventIndexesAgree'
  BY <1>3 DEF IInv, IndexesAgree, EventIndexesAgree, eventTables
<1>8. IdsNotShared'
  BY <1>3, <1>4 DEF IInv, IdsNotShared, Free, eventTables
<1>9. SubscriptionsJoinAlive'
  BY <1>3, <1>4 DEF IInv, SubscriptionsJoinAlive, Alive, Active, eventTables
<1> QED
  BY <1>5, <1>6, <1>7, <1>8, <1>9 DEF IInv, IndexesAgree

\* What the indexes of n list are the subscriptions that mention n.
LEMMA FoundByIndex ==
    ASSUME TypeOK, IndexesAgree, NEW n \in Nodes
    PROVE  /\ EventsOf(n) \in SUBSET Ids
           /\ ChannelsOf(n) \in SUBSET Ids
           /\ \A id \in Ids : id \in EventsOf(n) <=>
                 events[id] # NoSub /\ n \in {events[id].subscriber, events[id].source}
           /\ \A id \in Ids : id \in ChannelsOf(n) <=>
                 channels[id] # NoSub /\ n \in {channels[id].source, channels[id].target}
<1>1. EventsOf(n) \in SUBSET Ids
  BY DEF EventsOf
<1>2. ChannelsOf(n) \in SUBSET Ids
  BY DEF ChannelsOf
<1>3. ASSUME NEW id \in Ids
      PROVE  id \in EventsOf(n) <=>
                 events[id] # NoSub /\ n \in {events[id].subscriber, events[id].source}
  <2>1. events[id] # NoSub => events[id].type \in EventTypes
    BY DEF TypeOK, EventSubscription
  <2>2. ASSUME NEW type \in EventTypes, id \in eventsBySource[<<n, type>>]
        PROVE  events[id] # NoSub /\ events[id].source = n
    BY <2>2, Zenon DEF IndexesAgree, EventIndexesAgree
  <2>3. ASSUME events[id] # NoSub, events[id].source = n
        PROVE  \E type \in EventTypes : id \in eventsBySource[<<n, type>>]
    <3>1. id \in eventsBySource[<<n, events[id].type>>]
      BY <2>1, <2>3 DEF IndexesAgree, EventIndexesAgree
    <3> QED
      BY <2>1, <2>3, <3>1
  <2>4. id \in eventsBySubscriber[n] <=> events[id] # NoSub /\ events[id].subscriber = n
    BY DEF IndexesAgree, EventIndexesAgree
  <2> QED
    BY <2>2, <2>3, <2>4 DEF EventsOf
<1>4. ASSUME NEW id \in Ids
      PROVE  id \in ChannelsOf(n) <=>
                 channels[id] # NoSub /\ n \in {channels[id].source, channels[id].target}
  <2>1. channels[id] # NoSub => channels[id].sourceChannel \in Channels
    BY DEF TypeOK, ChannelSubscription
  <2>2. ASSUME NEW c \in Channels, id \in channelsBySource[<<n, c>>]
        PROVE  channels[id] # NoSub /\ channels[id].source = n
    BY <2>2, Zenon DEF IndexesAgree, ChannelIndexesAgree
  <2>3. ASSUME channels[id] # NoSub, channels[id].source = n
        PROVE  \E c \in Channels : id \in channelsBySource[<<n, c>>]
    <3>1. id \in channelsBySource[<<n, channels[id].sourceChannel>>]
      BY <2>1, <2>3 DEF IndexesAgree, ChannelIndexesAgree
    <3> QED
      BY <2>1, <2>3, <3>1
  <2>4. id \in channelsByTarget[n] <=> channels[id] # NoSub /\ channels[id].target = n
    BY DEF IndexesAgree, ChannelIndexesAgree
  <2> QED
    BY <2>2, <2>3, <2>4 DEF ChannelsOf
<1> QED
  BY <1>1, <1>2, <1>3, <1>4

LEMMA CancelStep ==
    ASSUME IInv, NEW id \in Ids, Cancel(id)
    PROVE  IInv'
<1>1. /\ RemoveEvents({id}) /\ RemoveChannels({id})
      /\ UNCHANGED <<state, nextId>> /\ {id} \in SUBSET Ids
  BY DEF Cancel
<1>2. TypeOK /\ EventIndexesAgree /\ ChannelIndexesAgree
  BY DEF IInv, IndexesAgree
<1>3. TypeOK' /\ IndexesAgree'
  BY <1>1, <1>2, RemoveEventsStep, RemoveChannelsStep DEF TypeOK, IndexesAgree
<1>4. \A i \in Ids : /\ events'[i] \in {events[i], NoSub}
                     /\ channels'[i] \in {channels[i], NoSub}
  BY <1>1, <1>2, RemoveEventsStep, RemoveChannelsStep
<1>5. IdsNotShared' /\ SubscriptionsJoinAlive'
  BY <1>1, <1>4 DEF IInv, IdsNotShared, SubscriptionsJoinAlive, Alive
<1> QED
  BY <1>3, <1>5 DEF IInv

LEMMA EndReleaseStep ==
    ASSUME IInv, NEW n \in Nodes, EndRelease(n)
    PROVE  IInv'
<1>1. /\ RemoveEvents(EventsOf(n)) /\ RemoveChannels(ChannelsOf(n))
      /\ state' = [state EXCEPT ![n] = "Released"] /\ UNCHANGED nextId
  BY DEF EndRelease
<1>2. TypeOK /\ IndexesAgree /\ EventIndexesAgree /\ ChannelIndexesAgree
  BY DEF IInv, IndexesAgree
<1>3. EventsOf(n) \in SUBSET Ids /\ ChannelsOf(n) \in SUBSET Ids
  BY <1>2, FoundByIndex
<1>4. state' \in [Nodes -> States]
  BY <1>1, <1>2 DEF TypeOK, States
<1>5. TypeOK' /\ IndexesAgree'
  BY <1>1, <1>2, <1>3, <1>4, RemoveEventsStep, RemoveChannelsStep DEF TypeOK, IndexesAgree
<1>6. \A i \in Ids : /\ events'[i] = IF i \in EventsOf(n) THEN NoSub ELSE events[i]
                     /\ channels'[i] = IF i \in ChannelsOf(n) THEN NoSub ELSE channels[i]
  BY <1>1, <1>2, <1>3, RemoveEventsStep, RemoveChannelsStep
<1>7. IdsNotShared'
  BY <1>6 DEF IInv, IdsNotShared
<1>8. \A m \in Nodes : m # n /\ Alive(m) => Alive(m)'
  BY <1>1, <1>2 DEF Alive, TypeOK
<1>9. \A i \in Ids :
          /\ events[i] # NoSub => events[i].subscriber \in Nodes /\ events[i].source \in Nodes
          /\ channels[i] # NoSub => channels[i].source \in Nodes /\ channels[i].target \in Nodes
  BY <1>2 DEF TypeOK, EventSubscription, ChannelSubscription
<1>10. SubscriptionsJoinAlive'
  <2> SUFFICES ASSUME NEW i \in Ids
               PROVE  /\ events'[i] # NoSub => Alive(events[i].subscriber)' /\ Alive(events[i].source)'
                      /\ channels'[i] # NoSub => Alive(channels[i].source)' /\ Alive(channels[i].target)'
    BY DEF SubscriptionsJoinAlive, Alive
  <2>1. ASSUME events'[i] # NoSub
        PROVE  Alive(events[i].subscriber)' /\ Alive(events[i].source)'
    <3>1. events'[i] = events[i] /\ n \notin {events[i].subscriber, events[i].source}
      BY <1>2, <1>6, <2>1, FoundByIndex
    <3> QED
      BY <1>8, <1>9, <2>1, <3>1 DEF IInv, SubscriptionsJoinAlive, Alive
  <2>2. ASSUME channels'[i] # NoSub
        PROVE  Alive(channels[i].source)' /\ Alive(channels[i].target)'
    <3>1. channels'[i] = channels[i] /\ n \notin {channels[i].source, channels[i].target}
      BY <1>2, <1>6, <2>2, FoundByIndex
    <3> QED
      BY <1>8, <1>9, <2>2, <3>1 DEF IInv, SubscriptionsJoinAlive, Alive
  <2> QED
    BY <2>1, <2>2
<1> QED
  BY <1>5, <1>7, <1>10 DEF IInv

\* Life cycle steps that leave the tables alone.
LEMMA LifeCycleStep ==
    ASSUME IInv, NEW n \in Nodes, UNCHANGED registry,
           \/ state[n] \in {"Absent", "Released"} /\ state' = [state EXCEPT ![n] = "Active"]
           \/ state[n] = "Active" /\ state' = [state EXCEPT ![n] = "Releasing"]
           \/ state[n] = "Released" /\ state' = [state EXCEPT ![n] = "Absent"]
    PROVE  IInv'
<1>1. TypeOK'
  BY DEF IInv, TypeOK, States, registry, eventTables, channelTables
<1>2. \A m \in Nodes : Alive(m) => Alive(m)'
  BY DEF Alive, IInv, TypeOK
<1>3. IndexesAgree' /\ IdsNotShared'
  BY DEF IInv, IndexesAgree, EventIndexesAgree, ChannelIndexesAgree, IdsNotShared,
     registry, eventTables, channelTables
<1>4. \A i \in Ids :
          /\ events[i] # NoSub => events[i].subscriber \in Nodes /\ events[i].source \in Nodes
          /\ channels[i] # NoSub => channels[i].source \in Nodes /\ channels[i].target \in Nodes
  BY DEF IInv, TypeOK, EventSubscription, ChannelSubscription
<1>5. UNCHANGED <<events, channels>>
  BY DEF registry, eventTables, channelTables
<1>6. SubscriptionsJoinAlive'
  BY <1>2, <1>4, <1>5 DEF IInv, SubscriptionsJoinAlive, Alive
<1> QED
  BY <1>1, <1>3, <1>6 DEF IInv

\* Every step preserves the invariant.
LEMMA NextIInv == IInv /\ [Next]_vars => IInv'
<1> SUFFICES ASSUME IInv, [Next]_vars PROVE IInv'
  OBVIOUS
<1>1. ASSUME NEW n \in Nodes, Create(n) \/ BeginRelease(n) \/ Destroy(n) PROVE IInv'
  BY <1>1, LifeCycleStep DEF Create, BeginRelease, Destroy, Active
<1>2. ASSUME NEW n \in Nodes, EndRelease(n) PROVE IInv'
  BY <1>2, EndReleaseStep
<1>3. ASSUME NEW m \in Nodes, NEW n \in Nodes, NEW type \in EventTypes,
             SubscribeEvent(m, n, type)
      PROVE  IInv'
  BY <1>3, SubscribeEventStep
<1>4. ASSUME NEW m \in Nodes, NEW n \in Nodes, NEW c \in Channels, NEW d \in Channels,
             SubscribeChannel(m, c, n, d)
      PROVE  IInv'
  BY <1>4, SubscribeChannelStep
<1>5. ASSUME NEW id \in Ids, Cancel(id) PROVE IInv'
  BY <1>5, CancelStep
<1>6. CASE UNCHANGED vars
  BY <1>6 DEF vars, registry, eventTables, channelTables, IInv, TypeOK, IndexesAgree,
     EventIndexesAgree, ChannelIndexesAgree, IdsNotShared, SubscriptionsJoinAlive, Alive
<1> QED
  BY <1>1, <1>2, <1>3, <1>4, <1>5, <1>6 DEF Next, LifeCycleNext, SubscribeNext

\* The invariant holds throughout.
THEOREM Invariance == Spec => []IInv
<1> QED
  BY InitIInv, NextIInv, PTL DEF Spec

\* The tables keep their types.
THEOREM TypeCorrect == Spec => []TypeOK
<1>1. IInv => TypeOK
  BY DEF IInv
<1> QED
  BY <1>1, Invariance, PTL

\* All four indexes are exact after every operation.
THEOREM IndexesExact == Spec => []IndexesAgree
<1>1. IInv => IndexesAgree
  BY DEF IInv
<1> QED
  BY <1>1, Invariance, PTL

\* The two kinds of subscription never share an identifier, even after a wrap.
THEOREM IdsUnique == Spec => []IdsNotShared
<1>1. IInv => IdsNotShared
  BY DEF IInv
<1> QED
  BY <1>1, Invariance, PTL

\* No subscription outlives the release of its source, subscriber or target.
THEOREM NoSubscriptionToDead == Spec => []SubscriptionsJoinAlive
<1>1. IInv => SubscriptionsJoinAlive
  BY DEF IInv
<1> QED
  BY <1>1, Invariance, PTL

\* Steps that leave every live subscription alone.
LEMMA NothingEnds ==
    ASSUME \A i \in Ids : ~Free(i) => events'[i] = events[i] /\ channels'[i] = channels[i]
    PROVE  EndsLocally
BY DEF EndsLocally, Ended, Kept, Free

\* What every step does to the live subscriptions.
LEMMA NextEndsLocally == IInv /\ [Next]_vars => [EndsLocally]_vars
<1> SUFFICES ASSUME IInv, Next PROVE EndsLocally
  OBVIOUS
<1>1. CASE UNCHANGED <<events, channels>>
  BY <1>1, NothingEnds
<1>2. ASSUME NEW m \in Nodes, NEW n \in Nodes, NEW type \in EventTypes,
             SubscribeEvent(m, n, type)
      PROVE  EndsLocally
  <2>1. PICK id \in Ids : /\ Free(id)
                          /\ \A i \in Ids : i # id => events'[i] = events[i]
    BY <1>2 DEF SubscribeEvent, Allocated, IInv, TypeOK
  <2>2. UNCHANGED channels
    BY <1>2 DEF SubscribeEvent, channelTables
  <2> QED
    BY <2>1, <2>2, NothingEnds
<1>3. ASSUME NEW m \in Nodes, NEW n \in Nodes, NEW c \in Channels, NEW d \in Channels,
             SubscribeChannel(m, c, n, d)
      PROVE  EndsLocally
  <2>1. PICK id \in Ids : /\ Free(id)
                          /\ \A i \in Ids : i # id => channels'[i] = channels[i]
    BY <1>3 DEF SubscribeChannel, Allocated, IInv, TypeOK
  <2>2. UNCHANGED events
    BY <1>3 DEF SubscribeChannel, eventTables
  <2> QED
    BY <2>1, <2>2, NothingEnds
<1>4. ASSUME NEW id \in Ids, Cancel(id)
      PROVE  EndsLocally
  <2>1. \A i \in Ids : /\ events'[i] = IF i = id THEN NoSub ELSE events[i]
                       /\ channels'[i] = IF i = id THEN NoSub ELSE channels[i]
    BY <1>4 DEF Cancel, RemoveEvents, RemoveChannels
  <2>2. Ended = {id}
    BY <1>4, <2>1 DEF Ended, Free, Cancel
  <2>3. Kept = {i \in Ids : ~Free(i)} \ {id}
    BY <2>1 DEF Kept, Free
  <2> QED
    BY <1>4, <2>2, <2>3 DEF EndsLocally, Cancel
<1>5. ASSUME NEW n \in Nodes, EndRelease(n)
      PROVE  EndsLocally
  <2>1. state[n] = "Releasing" /\ state'[n] = "Released"
    BY <1>5 DEF EndRelease, IInv, TypeOK
  <2>2. \A i \in Ids : /\ events'[i] = IF i \in EventsOf(n) THEN NoSub ELSE events[i]
                       /\ channels'[i] = IF i \in ChannelsOf(n) THEN NoSub ELSE channels[i]
    BY <1>5 DEF EndRelease, RemoveEvents, RemoveChannels
  <2>3. ASSUME NEW i \in Ids
        PROVE  /\ i \in EventsOf(n) <=>
                     events[i] # NoSub /\ n \in {events[i].subscriber, events[i].source}
               /\ i \in ChannelsOf(n) <=>
                     channels[i] # NoSub /\ n \in {channels[i].source, channels[i].target}
               /\ events[i] = NoSub \/ channels[i] = NoSub
    BY FoundByIndex DEF IInv, IdsNotShared
  <2>4. Ended = {i \in Ids : Mentions(i, n)}
    BY <2>2, <2>3 DEF Ended, Free, Mentions
  <2>5. Kept = {i \in Ids : ~Free(i) /\ ~Mentions(i, n)}
    BY <2>2, <2>3 DEF Kept, Free, Mentions
  <2>6. \A i \in Ids : Mentions(i, n) => ~Free(i)
    BY DEF Mentions, Free
  <2> QED
    BY <2>1, <2>4, <2>5, <2>6 DEF EndsLocally
<1> QED
  BY <1>1, <1>2, <1>3, <1>4, <1>5 DEF Next, LifeCycleNext, SubscribeNext, Create,
     BeginRelease, Destroy, registry, eventTables, channelTables

\* A subscription ends by a cancel of its own identifier or by the release of one
\* of its ends, and a release ends exactly the subscriptions of its object.
THEOREM EndLocal == Spec => SubscriptionsEndLocally
<1> QED
  BY Invariance, NextEndsLocally, PTL DEF Spec, SubscriptionsEndLocally
==============================================================================
