--------------------------- MODULE BridgePeerProofs ---------------------------
(***************************************************************************)
(* A peer hands control to the application in the middle of a request and  *)
(* in the middle of an event frame, and may find itself closed afterwards. *)
(* Here it is proved, for any number of objects, event types,              *)
(* subscriptions and requests and any depth of events, that it answers     *)
(* each request once unless the application prevents it, sends only what   *)
(* its client asked for, and tells it of the releases it hears of.         *)
(***************************************************************************)
EXTENDS BridgePeer, SequenceTheorems, TLAPS

Calls == Events \cup Releases

Matches(i, event) == entries[i].source = event.source /\ entries[i].type = event.type

\* What is left of the snapshots of the events in progress.
SnapshotOf(s) ==
    \A k \in EventsIn(s) :
        /\ \A i \in s[k].ids : entries[i] # None => Matches(i, s[k])
        /\ s[k].sending # None /\ open => s[k].sending \in known /\ Matches(s[k].sending, s[k])

\* What a release calls is an event, in the end Released, and what a callback calls it
\* calls while it reads the data of a change.
ShapeOf(s) ==
    \A k \in DOMAIN s : k + 1 \in DOMAIN s =>
        IF s[k].kind = "release"
        THEN s[k + 1].kind = "event" /\ (s[k].next = "none" => s[k + 1].type = "Released")
        ELSE s[k].sending # None => s[k].type \in Types

\* The subscriptions that end with the release f.
Owed(f) == {i \in known : /\ entries[i].active
                          /\ entries[i].type = "Released" /\ entries[i].source = f.object}

\* A Released event still comes to all of them that it has not come to.
CoversAt(s, k) ==
    \A i \in Owed(s[k]) :
        \/ i \in told \cup missed
        \/ k + 1 \in DOMAIN s /\ i \in s[k + 1].ids \cup {s[k + 1].sending}

PublishedIn(s) == {k \in DOMAIN s : s[k].kind = "release" /\ s[k].next = "none"}

StackInv ==
    /\ SnapshotOf(stack)
    /\ ShapeOf(stack)
    /\ \A k \in PublishedIn(stack) : CoversAt(stack, k)

\* All together; they need each other.
PeerInv ==
    /\ TypeOK
    /\ EachAnsweredOnce
    /\ StackInv
    /\ TellsReleased
    /\ SubscriptionsAgree

-----------------------------------------------------------------------------
(* Parts that many actions have in common. *)

LEMMA NoneIsNothing ==
    /\ None \notin Objects
    /\ None \notin SubscriptionIds
    /\ None \notin Entries
    /\ None \notin Frames
  BY NoneAssumption

\* A peer that takes a message is idle, and has dealt with all it took.
LEMMA TakerIsIdle ==
    ASSUME PeerInv, Takes
    PROVE  /\ received' \in 0 .. MaxRequests /\ received' = received + 1
           /\ answered \in Int /\ forsaken \in Int /\ received = answered + forsaken
           /\ forsaken' = forsaken /\ forsaken \in 0 .. MaxRequests
           /\ answered + 1 \in 0 .. MaxRequests
           /\ open /\ current = None /\ stack = <<>> /\ stack' = <<>>
           /\ UNCHANGED <<bridgeUsable, live>>
  <1>1. /\ open /\ current = None /\ received < MaxRequests /\ received' = received + 1
        /\ received \in 0 .. MaxRequests /\ answered \in 0 .. MaxRequests
        /\ forsaken \in 0 .. MaxRequests /\ forsaken' = forsaken
        /\ stack = <<>> /\ stack' = <<>> /\ UNCHANGED <<bridgeUsable, live>>
    BY DEF PeerInv, TypeOK, Takes, world
  <1>2. received = answered + forsaken
    BY <1>1 DEF PeerInv, EachAnsweredOnce
  <1> QED
    BY <1>1, <1>2, BoundsAssumption

\* A request that is answered at once keeps the account of the answers.
LEMMA AnswerAtOnce ==
    ASSUME PeerInv, Takes, NEW code \in Codes, Answer(code), UNCHANGED current
    PROVE  /\ EachAnsweredOnce'
           /\ received' \in 0 .. MaxRequests /\ answered' \in 0 .. MaxRequests
           /\ forsaken' \in 0 .. MaxRequests
           /\ sent' \in Frames \cup {None}
           /\ stack' = <<>> /\ current' = None /\ UNCHANGED <<bridgeUsable, live>>
  <1>1. sent' = [kind |-> "answer", code |-> code] /\ answered' = answered + 1
    BY TakerIsIdle DEF Answer
  <1>2. EachAnsweredOnce'
    BY <1>1, TakerIsIdle DEF EachAnsweredOnce
  <1> QED
    BY <1>1, <1>2, TakerIsIdle DEF Frames

\* Without a call in progress there is nothing that could be wrong with one.
LEMMA NoCalls ==
    ASSUME stack' = <<>>
    PROVE  StackInv' /\ stack' \in Seq(Calls)
  BY DEF StackInv, SnapshotOf, ShapeOf, PublishedIn, EventsIn

\* A peer that is closed owes its client nothing.
LEMMA ShutIsSafe ==
    ASSUME PeerInv, Shut, UNCHANGED stack
    PROVE  /\ handles' = {} /\ watched' = {}
           /\ entries' \in [SubscriptionIds -> Entries \cup {None}]
           /\ nextId' = nextId /\ subscriptions' = {} /\ known' = {} /\ told' = told
           /\ missed' = missed /\ connected' = FALSE /\ open' = FALSE
           /\ StackInv' /\ TellsReleased' /\ SubscriptionsAgree'
  <1>1. /\ handles' = {} /\ watched' = {} /\ nextId' = nextId /\ subscriptions' = {} /\ known' = {}
        /\ told' = told /\ missed' = missed /\ connected' = FALSE /\ open' = FALSE
        /\ entries' = [i \in SubscriptionIds |-> None]
    BY DEF Shut
  <1>2. \A i \in SubscriptionIds : entries'[i] = None
    BY <1>1
  <1>3. SnapshotOf(stack)'
    <2>1. \A k \in EventsIn(stack) : stack[k].ids \subseteq SubscriptionIds
      BY DEF PeerInv, TypeOK, EventsIn, Events, Releases
    <2> QED
      BY <1>1, <1>2, <2>1 DEF SnapshotOf, EventsIn
  <1>4. ShapeOf(stack)' /\ \A k \in PublishedIn(stack)' : CoversAt(stack, k)'
    BY <1>1 DEF PeerInv, StackInv, ShapeOf, PublishedIn, CoversAt, Owed
  <1>5. TellsReleased' /\ SubscriptionsAgree'
    BY <1>1, <1>2 DEF TellsReleased, SubscriptionsAgree
  <1> QED
    BY <1>1, <1>3, <1>4, <1>5 DEF StackInv

-----------------------------------------------------------------------------
(* The requests. *)

\* A request that is refused changes nothing but the account of the answers.
LEMMA RefuseStep ==
    ASSUME PeerInv, NEW code \in Codes, Refuse(code)
    PROVE  PeerInv'
  <1>1. /\ Takes /\ Answer(code)
        /\ UNCHANGED <<open, connected, handles, watched, entries, nextId,
                       subscriptions, current, known, told, missed>>
    BY DEF Refuse, peerVars, sessionVars, tables, clientVars
  <1>2. TypeOK' /\ EachAnsweredOnce' /\ StackInv'
    BY <1>1, AnswerAtOnce, NoCalls DEF PeerInv, TypeOK, Calls
  <1>3. TellsReleased' /\ SubscriptionsAgree'
    BY <1>1 DEF PeerInv, TellsReleased, SubscriptionsAgree
  <1> QED
    BY <1>2, <1>3 DEF PeerInv

\* The three requests that close the peer are answered before.
LEMMA ClosingStep ==
    ASSUME PeerInv, Takes, NEW code \in Codes, Answer(code), Shut, UNCHANGED current
    PROVE  PeerInv'
  <1>1. UNCHANGED stack
    BY TakerIsIdle
  <1>2. TypeOK' /\ EachAnsweredOnce'
    BY <1>1, AnswerAtOnce, ShutIsSafe DEF PeerInv, TypeOK
  <1> QED
    BY <1>1, <1>2, ShutIsSafe DEF PeerInv

LEMMA ConnectStep ==
    ASSUME PeerInv, Connect
    PROVE  PeerInv'
  <1>1. /\ Takes /\ Answer("ok") /\ "ok" \in Codes /\ ~connected
        /\ connected' = TRUE /\ handles' = {Root} /\ watched' = {Root}
        /\ UNCHANGED <<open, entries, nextId, subscriptions, current, known, told, missed>>
    BY DEF Connect, clientVars, Codes
  <1>2. TypeOK' /\ EachAnsweredOnce' /\ StackInv'
    BY <1>1, AnswerAtOnce, NoCalls, RootAssumption DEF PeerInv, TypeOK, Calls
  <1>3. TellsReleased' /\ SubscriptionsAgree'
    BY <1>1, TakerIsIdle DEF PeerInv, TellsReleased, SubscriptionsAgree
  <1> QED
    BY <1>2, <1>3 DEF PeerInv

LEMMA ResolveStep ==
    ASSUME PeerInv, NEW o \in Objects, NEW found \in SUBSET Objects, Resolve(o, found)
    PROVE  PeerInv'
  <1>1. /\ Takes /\ Answer("ok") /\ "ok" \in Codes /\ connected
        /\ handles' = handles \cup found /\ watched' = watched \cup (found \ handles)
        /\ UNCHANGED <<open, connected, entries, nextId,
                       subscriptions, current, known, told, missed>>
    BY DEF Resolve, Established, clientVars, Codes
  <1>2. TypeOK' /\ EachAnsweredOnce' /\ StackInv'
    BY <1>1, AnswerAtOnce, NoCalls DEF PeerInv, TypeOK, Calls
  <1>3. TellsReleased' /\ SubscriptionsAgree'
    BY <1>1 DEF PeerInv, TellsReleased, SubscriptionsAgree
  <1> QED
    BY <1>2, <1>3 DEF PeerInv

LEMMA CallStep ==
    ASSUME PeerInv, NEW o \in Objects, Call(o)
    PROVE  PeerInv'
  <1>1. /\ Takes /\ current' = o /\ sent' = None /\ answered' = answered
        /\ UNCHANGED <<open, connected, handles, watched, entries, nextId,
                       subscriptions, known, told, missed>>
    BY DEF Call, Established, sessionVars, tables, clientVars
  <1>2. EachAnsweredOnce'
    BY <1>1, TakerIsIdle, NoneIsNothing DEF EachAnsweredOnce
  <1>3. TypeOK' /\ StackInv'
    BY <1>1, TakerIsIdle, NoCalls DEF PeerInv, TypeOK, Calls
  <1>4. TellsReleased' /\ SubscriptionsAgree'
    BY <1>1 DEF PeerInv, TellsReleased, SubscriptionsAgree
  <1> QED
    BY <1>2, <1>3, <1>4 DEF PeerInv

\* A handler that comes back from the application answers, if it still can, or it is
\* cut off by an exception.
LEMMA ReturnStep ==
    ASSUME PeerInv, Return \/ Throw
    PROVE  PeerInv'
  <1>1. /\ current # None /\ stack = <<>> /\ current' = None /\ received' = received
        /\ UNCHANGED <<bridgeUsable, live, stack, open, connected, handles, watched, entries,
                       nextId, subscriptions, known, told, missed>>
    BY DEF Return, Throw, world, sessionVars, tables, clientVars
  <1>2. /\ received \in 0 .. MaxRequests /\ answered \in 0 .. MaxRequests
        /\ forsaken \in 0 .. MaxRequests
    BY DEF PeerInv, TypeOK
  <1>3. received = answered + forsaken + IF open THEN 1 ELSE 0
    BY <1>1 DEF PeerInv, EachAnsweredOnce
  <1>4. sent' \in Frames \cup {None}
    BY DEF Return, Throw, Answer, Frames, Codes
  <1>5. \/ open /\ answered' = answered + 1 /\ forsaken' = forsaken
        \/ open /\ answered' = answered /\ forsaken' = forsaken + 1
        \/ ~open /\ answered' = answered /\ forsaken' = forsaken
    BY DEF Return, Throw, Answer
  <1>6. /\ received' = answered' + forsaken'
        /\ answered' \in 0 .. MaxRequests /\ forsaken' \in 0 .. MaxRequests
    <2>1. CASE open /\ answered' = answered + 1 /\ forsaken' = forsaken
      <3>1. received = answered + forsaken + 1
        BY <1>3, <2>1
      <3> QED
        BY <1>1, <1>2, <2>1, <3>1, BoundsAssumption
    <2>2. CASE open /\ answered' = answered /\ forsaken' = forsaken + 1
      <3>1. received = answered + forsaken + 1
        BY <1>3, <2>2
      <3> QED
        BY <1>1, <1>2, <2>2, <3>1, BoundsAssumption
    <2>3. CASE ~open /\ answered' = answered /\ forsaken' = forsaken
      <3>1. received = answered + forsaken + 0
        BY <1>3, <2>3
      <3> QED
        BY <1>1, <1>2, <2>3, <3>1, BoundsAssumption
    <2> QED
      BY <1>5, <2>1, <2>2, <2>3
  <1>7. EachAnsweredOnce'
    <2>1. answered' + forsaken' + 0 = answered' + forsaken'
      BY <1>6
    <2> QED
      BY <1>1, <1>6, <2>1 DEF EachAnsweredOnce
  <1>8. TypeOK' /\ StackInv'
    BY <1>1, <1>2, <1>4, <1>6, NoCalls DEF PeerInv, TypeOK, Calls
  <1>9. TellsReleased' /\ SubscriptionsAgree'
    BY <1>1 DEF PeerInv, TellsReleased, SubscriptionsAgree
  <1> QED
    BY <1>7, <1>8, <1>9 DEF PeerInv

LEMMA SubscribeStep ==
    ASSUME PeerInv, NEW o \in Objects, NEW type \in EventTypes, SubscribeEvent(o, type)
    PROVE  PeerInv'
  <1> DEFINE entry == [source |-> o, type |-> type, active |-> TRUE]
  <1>1. /\ Takes /\ Answer("ok") /\ "ok" \in Codes /\ open /\ connected
        /\ nextId \in SubscriptionIds
        /\ entries' = [entries EXCEPT ![nextId] = entry]
        /\ nextId' = nextId + 1
        /\ subscriptions' = subscriptions \cup {nextId} /\ known' = known \cup {nextId}
        /\ UNCHANGED <<open, connected, handles, watched, current, told, missed>>
    BY DEF PeerInv, TypeOK, SubscribeEvent, Established, Takes, SubscriptionIds, Codes
  <1>2. /\ EachAnsweredOnce' /\ sent' \in Frames \cup {None}
        /\ received' \in 0 .. MaxRequests /\ answered' \in 0 .. MaxRequests
        /\ forsaken' \in 0 .. MaxRequests /\ stack' = <<>>
        /\ UNCHANGED <<bridgeUsable, live>>
    BY <1>1, AnswerAtOnce
  <1>3. entry \in Entries /\ entry # None
    <2>1. entry \in Entries
      BY DEF Entries
    <2> QED
      BY <2>1, NoneIsNothing
  <1>4. TypeOK'
    <2>1. entries' \in [SubscriptionIds -> Entries \cup {None}]
      BY <1>1, <1>3 DEF PeerInv, TypeOK
    <2>2. nextId' \in 1 .. MaxSubscriptions + 1
      BY <1>1, BoundsAssumption DEF SubscriptionIds
    <2>3. subscriptions' \in SUBSET SubscriptionIds /\ known' \in SUBSET SubscriptionIds
      BY <1>1 DEF PeerInv, TypeOK
    <2> QED
      BY <1>1, <1>2, <2>1, <2>2, <2>3 DEF PeerInv, TypeOK
  <1>5. \A i \in SubscriptionIds : entries'[i] = IF i = nextId THEN entry ELSE entries[i]
    BY <1>1 DEF PeerInv, TypeOK
  <1>6. TellsReleased'
    <2> SUFFICES ASSUME NEW i \in known', entries'[i].type = "Released", ~entries'[i].active
                 PROVE  i \in told' \cup missed'
      BY DEF TellsReleased
    <2>1. i # nextId
      BY <1>1, <1>5
    <2>2. i \in known /\ i \in SubscriptionIds
      BY <1>1, <2>1 DEF PeerInv, TypeOK
    <2> QED
      BY <1>1, <1>5, <2>1, <2>2 DEF PeerInv, TellsReleased
  <1>7. SubscriptionsAgree'
    BY <1>1, <1>3, <1>5 DEF PeerInv, SubscriptionsAgree
  <1> QED
    BY <1>2, <1>4, <1>6, <1>7, NoCalls DEF PeerInv

LEMMA CancelStep ==
    ASSUME PeerInv, NEW i \in SubscriptionIds, CancelEvent(i)
    PROVE  PeerInv'
  <1>1. /\ Takes /\ Answer("ok") /\ "ok" \in Codes /\ open /\ connected
        /\ entries' = [entries EXCEPT ![i] = None]
        /\ subscriptions' = subscriptions \ {i} /\ known' = known \ {i}
        /\ UNCHANGED <<open, connected, handles, watched, nextId, current, told, missed>>
    BY DEF CancelEvent, Established, Takes, Codes
  <1>2. TypeOK' /\ EachAnsweredOnce' /\ StackInv'
    BY <1>1, AnswerAtOnce, NoCalls DEF PeerInv, TypeOK, Calls
  <1>3. \A j \in SubscriptionIds : entries'[j] = IF j = i THEN None ELSE entries[j]
    BY <1>1 DEF PeerInv, TypeOK
  <1>4. TellsReleased'
    BY <1>1, <1>3 DEF PeerInv, TypeOK, TellsReleased
  <1>5. SubscriptionsAgree'
    BY <1>1, <1>3 DEF PeerInv, SubscriptionsAgree
  <1> QED
    BY <1>2, <1>4, <1>5 DEF PeerInv

-----------------------------------------------------------------------------
(* The calls in progress. *)

\* What the application and the runtime do with events keeps the account of answers.
LEMMA AnswersUntouched ==
    ASSUME PeerInv, UNCHANGED <<open, current, received, answered, forsaken>>
    PROVE  EachAnsweredOnce'
  BY DEF PeerInv, EachAnsweredOnce

LEMMA FrameTypes ==
    ASSUME PeerInv, NEW k \in DOMAIN stack
    PROVE  /\ stack[k].kind \in {"event", "release"}
           /\ stack[k].kind = "event" => stack[k] \in Events
           /\ stack[k].kind = "release" => stack[k] \in Releases
  <1>1. stack[k] \in Events \cup Releases
    BY DEF PeerInv, TypeOK
  <1> QED
    BY <1>1 DEF Events, Releases

\* The beginning of a stack of calls, and a call on top of one.
LEMMA PrefixFacts ==
    ASSUME NEW s \in Seq(Calls), NEW n \in 0 .. Len(s)
    PROVE  /\ SubSeq(s, 1, n) \in Seq(Calls)
           /\ DOMAIN SubSeq(s, 1, n) = 1 .. n
           /\ Len(SubSeq(s, 1, n)) = n
           /\ \A k \in 1 .. n : k \in DOMAIN s /\ SubSeq(s, 1, n)[k] = s[k]
  OBVIOUS

LEMMA AppendFacts ==
    ASSUME NEW s \in Seq(Calls), NEW f \in Calls
    PROVE  /\ Append(s, f) \in Seq(Calls)
           /\ DOMAIN s = 1 .. Len(s) /\ Len(s) \in Nat
           /\ DOMAIN Append(s, f) = 1 .. Len(s) + 1
           /\ \A k \in DOMAIN s : Append(s, f)[k] = s[k]
           /\ Append(s, f)[Len(s) + 1] = f
  OBVIOUS

LEMMA TopFacts ==
    ASSUME PeerInv, stack # <<>>
    PROVE  /\ Below \in Seq(Calls) /\ Len(stack) \in DOMAIN stack
           /\ Len(Below) = Len(stack) - 1 /\ Len(Below) \in Nat
           /\ DOMAIN Below = 1 .. Len(Below) /\ DOMAIN stack = 1 .. Len(Below) + 1
           /\ \A k \in DOMAIN Below : Below[k] = stack[k]
           /\ Top = stack[Len(Below) + 1]
  <1>1. stack \in Seq(Calls) /\ Len(stack) \in Nat \ {0} /\ DOMAIN stack = 1 .. Len(stack)
    BY DEF PeerInv, TypeOK, Calls
  <1>2. Len(stack) - 1 \in 0 .. Len(stack)
    BY <1>1
  <1>3. /\ Below \in Seq(Calls) /\ DOMAIN Below = 1 .. Len(stack) - 1
        /\ Len(Below) = Len(stack) - 1
        /\ \A k \in 1 .. Len(stack) - 1 : Below[k] = stack[k]
    BY <1>1, <1>2, PrefixFacts DEF Below
  <1> QED
    BY <1>1, <1>3 DEF Top

\* Calls may end where a release below loses no event that it owes.
LEMMA StackShrinks ==
    ASSUME PeerInv, NEW n \in 0 .. Len(stack), stack' = SubSeq(stack, 1, n),
           UNCHANGED <<entries, known, told, open>>, missed \subseteq missed',
           n \in PublishedIn(stack) => \A i \in Owed(stack[n]) : i \in told \cup missed'
    PROVE  StackInv' /\ stack' \in Seq(Calls)
  <1>1. stack \in Seq(Calls)
    BY DEF PeerInv, TypeOK, Calls
  <1>2. /\ stack' \in Seq(Calls) /\ DOMAIN stack' = 1 .. n
        /\ \A k \in 1 .. n : k \in DOMAIN stack /\ stack'[k] = stack[k]
    BY <1>1, PrefixFacts
  <1>3. SnapshotOf(stack)'
    BY <1>2 DEF PeerInv, StackInv, SnapshotOf, EventsIn, Matches
  <1>4. ShapeOf(stack)'
    BY <1>2 DEF PeerInv, StackInv, ShapeOf
  <1>5. ASSUME NEW k \in PublishedIn(stack)'
        PROVE  CoversAt(stack, k)'
    <2>1. k \in PublishedIn(stack) /\ k \in 1 .. n /\ stack'[k] = stack[k]
      BY <1>2, <1>5 DEF PublishedIn
    <2>2. Owed(stack[k])' = Owed(stack[k])
      BY <2>1 DEF Owed
    <2>3. CASE k = n
      BY <2>1, <2>2, <2>3 DEF CoversAt
    <2>4. CASE k # n
      <3>1. k + 1 \in 1 .. n
        BY <2>1, <2>4
      <3>2. CoversAt(stack, k) /\ stack'[k + 1] = stack[k + 1]
        BY <1>2, <2>1, <3>1 DEF PeerInv, StackInv
      <3> QED
        BY <1>2, <2>2, <3>1, <3>2 DEF CoversAt
    <2> QED
      BY <2>3, <2>4
  <1> QED
    BY <1>2, <1>3, <1>4, <1>5 DEF StackInv

\* The call on top goes on with what is left of its snapshot.
LEMMA EventGoesOn ==
    ASSUME PeerInv, InEvent, NEW f \in Events, stack' = Append(Below, f),
           UNCHANGED <<entries, known, open, missed>>, told \subseteq told',
           f.source = Top.source, f.type = Top.type,
           \A i \in f.ids : entries[i] # None => Matches(i, f),
           f.sending # None /\ open => f.sending \in known /\ Matches(f.sending, f),
           \A i \in known : entries[i].active /\ i \in Top.ids \cup {Top.sending} =>
               i \in f.ids \cup {f.sending} \cup told' \/ Top.type # "Released"
    PROVE  StackInv' /\ stack' \in Seq(Calls)
  <1> DEFINE m == Len(Below)
  <1>1. /\ Below \in Seq(Calls) /\ m \in Nat
        /\ DOMAIN Below = 1 .. m /\ DOMAIN stack = 1 .. m + 1
        /\ \A k \in DOMAIN Below : Below[k] = stack[k]
        /\ Top = stack[m + 1] /\ Top.kind = "event" /\ f \in Calls /\ f.kind = "event"
    BY TopFacts DEF InEvent, Calls, Events
  <1>2. /\ stack' \in Seq(Calls) /\ DOMAIN stack' = 1 .. m + 1
        /\ \A k \in 1 .. m : stack'[k] = stack[k]
        /\ stack'[m + 1] = f
    BY <1>1, AppendFacts
  <1> HIDE DEF m
  <1>3. SnapshotOf(stack)'
    <2> SUFFICES ASSUME NEW k \in 1 .. m + 1, stack'[k].kind = "event"
                 PROVE  /\ \A i \in stack'[k].ids : entries'[i] # None => Matches(i, stack[k])'
                        /\ stack'[k].sending # None /\ open' =>
                              stack'[k].sending \in known' /\ Matches(stack[k].sending, stack[k])'
      BY <1>2 DEF SnapshotOf, EventsIn
    <2>1. CASE k = m + 1
      BY <1>2, <2>1 DEF Matches
    <2>2. CASE k # m + 1
      <3>1. k \in 1 .. m /\ k \in EventsIn(stack) /\ stack'[k] = stack[k]
        BY <1>1, <1>2, <2>2 DEF EventsIn
      <3> QED
        BY <3>1 DEF PeerInv, StackInv, SnapshotOf, Matches
    <2> QED
      BY <2>1, <2>2
  <1>4. ShapeOf(stack)'
    <2> SUFFICES ASSUME NEW k \in 1 .. m
                 PROVE  IF stack'[k].kind = "release"
                        THEN /\ stack'[k + 1].kind = "event"
                             /\ stack'[k].next = "none" => stack'[k + 1].type = "Released"
                        ELSE stack'[k].sending # None => stack'[k].type \in Types
      BY <1>1, <1>2 DEF ShapeOf
    <2>1. /\ k \in DOMAIN stack /\ k + 1 \in DOMAIN stack /\ k + 1 \in 1 .. m + 1
          /\ stack'[k] = stack[k]
          /\ stack'[k + 1].type = stack[k + 1].type /\ stack'[k + 1].kind = stack[k + 1].kind
      BY <1>1, <1>2
    <2> QED
      BY <2>1 DEF PeerInv, StackInv, ShapeOf
  <1>5. ASSUME NEW k \in PublishedIn(stack)'
        PROVE  CoversAt(stack, k)'
    <2>1. k \in 1 .. m /\ k \in PublishedIn(stack) /\ stack'[k] = stack[k]
      BY <1>1, <1>2, <1>5 DEF PublishedIn
    <2>2. k + 1 \in DOMAIN stack /\ k + 1 \in DOMAIN stack'
      BY <1>1, <1>2, <2>1
    <2> SUFFICES ASSUME NEW i \in Owed(stack[k])
                 PROVE  i \in told' \cup missed' \cup stack'[k + 1].ids \cup {stack'[k + 1].sending}
      BY <2>1, <2>2 DEF CoversAt, Owed
    <2>3. i \in known /\ entries[i].active
      BY DEF Owed
    <2>4. i \in told \cup missed \cup stack[k + 1].ids \cup {stack[k + 1].sending}
      BY <2>1, <2>2 DEF PeerInv, StackInv, CoversAt
    <2>5. CASE k + 1 = m + 1
      <3>1. Top.type = "Released"
        BY <1>1, <2>1, <2>2, <2>5 DEF PeerInv, StackInv, ShapeOf, PublishedIn
      <3> QED
        BY <1>1, <1>2, <2>3, <2>4, <2>5, <3>1
    <2>6. CASE k + 1 # m + 1
      <3>1. stack'[k + 1] = stack[k + 1]
        BY <1>1, <1>2, <2>2, <2>6
      <3> QED
        BY <2>4, <3>1
    <2> QED
      BY <2>5, <2>6
  <1> QED
    BY <1>2, <1>3, <1>4, <1>5 DEF StackInv

\* An event that is published has all active subscriptions to it before it, and one
\* that is dropped is missed by all of them.
LEMMA EventRaised ==
    ASSUME PeerInv, NEW below \in Seq(Calls), NEW o \in Objects, NEW type \in EventTypes,
           Raise(o, type, below), UNCHANGED <<entries, known, told, open>>,
           SnapshotOf(below), ShapeOf(below),
           \A k \in PublishedIn(below) : k = Len(below) \/ CoversAt(below, k),
           Len(below) \in PublishedIn(below) => type = "Released" /\ below[Len(below)].object = o,
           Len(below) \in EventsIn(below) /\ below[Len(below)].sending # None =>
               below[Len(below)].type \in Types
    PROVE  /\ StackInv' /\ stack' \in Seq(Calls)
           /\ missed \subseteq missed' /\ missed' \in SUBSET SubscriptionIds
  <1> DEFINE m == Len(below)
             f == Event(o, type)
             ids == Subscribed(o, type)
  <1>1. ids \in SUBSET SubscriptionIds
    BY DEF Subscribed
  <1>2. /\ f \in Events /\ f \in Calls /\ f.kind = "event" /\ f.ids = ids /\ f.sending = None
        /\ f.source = o /\ f.type = type
    BY <1>1 DEF Event, Events, Calls
  <1>3. \A i \in ids : Matches(i, f)
    BY <1>2 DEF Subscribed, Matches
  <1>4. ASSUME m \in PublishedIn(below), NEW i \in Owed(below[m])
        PROVE  i \in ids
    <2>1. i \in SubscriptionIds /\ entries[i] # None
      BY DEF Owed, PeerInv, SubscriptionsAgree
    <2> QED
      BY <1>4, <2>1 DEF Owed, Subscribed
  <1>5. missed \in SUBSET SubscriptionIds
    BY DEF PeerInv, TypeOK
  <1>6. CASE stack' = Append(below, f) /\ UNCHANGED missed
    <2>1. /\ stack' \in Seq(Calls) /\ m \in Nat /\ DOMAIN below = 1 .. m
          /\ DOMAIN stack' = 1 .. m + 1
          /\ \A k \in 1 .. m : stack'[k] = below[k]
          /\ stack'[m + 1] = f
      BY <1>2, <1>6, AppendFacts
    <2> HIDE DEF f, ids, m
    <2>2. SnapshotOf(stack)'
      <3> SUFFICES ASSUME NEW k \in 1 .. m + 1, stack'[k].kind = "event"
                   PROVE  /\ \A i \in stack'[k].ids : entries'[i] # None => Matches(i, stack[k])'
                          /\ stack'[k].sending # None /\ open' =>
                                stack'[k].sending \in known' /\ Matches(stack[k].sending, stack[k])'
        BY <2>1 DEF SnapshotOf, EventsIn
      <3>1. CASE k = m + 1
        BY <1>2, <1>3, <2>1, <3>1 DEF Matches
      <3>2. CASE k # m + 1
        <4>1. k \in EventsIn(below) /\ stack'[k] = below[k]
          BY <2>1, <3>2 DEF EventsIn
        <4> QED
          BY <4>1 DEF SnapshotOf, Matches
      <3> QED
        BY <3>1, <3>2
    <2>3. ShapeOf(stack)'
      <3> SUFFICES ASSUME NEW k \in 1 .. m
                   PROVE  IF stack'[k].kind = "release"
                          THEN /\ stack'[k + 1].kind = "event"
                               /\ stack'[k].next = "none" => stack'[k + 1].type = "Released"
                          ELSE stack'[k].sending # None => stack'[k].type \in Types
        BY <2>1 DEF ShapeOf
      <3>1. stack'[k] = below[k] /\ k \in DOMAIN below
        BY <2>1
      <3>2. CASE k = m
        <4>1. below[k].kind \in {"event", "release"}
          BY <3>1 DEF Calls, Events, Releases
        <4> QED
          BY <1>2, <2>1, <3>1, <3>2, <4>1 DEF PublishedIn, EventsIn, m
      <3>3. CASE k # m
        <4>1. k + 1 \in DOMAIN below /\ stack'[k + 1] = below[k + 1]
          BY <2>1, <3>1, <3>3
        <4> QED
          BY <3>1, <4>1 DEF ShapeOf
      <3> QED
        BY <3>2, <3>3
    <2>4. ASSUME NEW k \in PublishedIn(stack)'
          PROVE  CoversAt(stack, k)'
      <3>1. /\ k \in 1 .. m /\ k \in PublishedIn(below) /\ stack'[k] = below[k]
            /\ k + 1 \in DOMAIN stack'
        BY <1>2, <2>1, <2>4 DEF PublishedIn
      <3>2. Owed(stack[k])' = Owed(below[k])
        BY <3>1 DEF Owed
      <3>3. CASE k = m
        <4>1. \A i \in Owed(below[k]) : i \in stack'[k + 1].ids
          BY <1>2, <1>4, <2>1, <3>1, <3>3
        <4> QED
          BY <3>1, <3>2, <4>1 DEF CoversAt
      <3>4. CASE k # m
        <4>1. CoversAt(below, k)
          BY <3>1, <3>4 DEF m
        <4>2. k + 1 \in DOMAIN below /\ stack'[k + 1] = below[k + 1]
          BY <2>1, <3>1, <3>4
        <4> QED
          BY <1>6, <3>1, <3>2, <4>1, <4>2 DEF CoversAt
      <3> QED
        BY <3>3, <3>4
    <2> QED
      BY <1>5, <1>6, <2>1, <2>2, <2>3, <2>4 DEF StackInv
  <1>7. CASE /\ stack' = below
             /\ missed' = IF type = "Released" THEN missed \cup ids ELSE missed
    <2>1. missed \subseteq missed' /\ missed' \in SUBSET SubscriptionIds
      BY <1>1, <1>5, <1>7
    <2>2. SnapshotOf(stack)' /\ ShapeOf(stack)'
      BY <1>7 DEF SnapshotOf, ShapeOf, EventsIn, Matches
    <2>3. ASSUME NEW k \in PublishedIn(stack)'
          PROVE  CoversAt(stack, k)'
      <3>1. k \in PublishedIn(below) /\ stack' = below
        BY <1>7, <2>3 DEF PublishedIn
      <3>2. Owed(stack[k])' = Owed(below[k])
        BY <3>1 DEF Owed
      <3>3. CASE k = m
        BY <1>4, <1>7, <3>1, <3>2, <3>3 DEF CoversAt
      <3>4. CASE k # m
        BY <2>1, <3>1, <3>2, <3>4 DEF CoversAt
      <3> QED
        BY <3>3, <3>4
    <2> QED
      BY <1>7, <2>1, <2>2, <2>3 DEF StackInv
  <1> QED
    BY <1>6, <1>7 DEF Raise

-----------------------------------------------------------------------------
(* The application. *)

\* Create and Publish, by the application.
LEMMA RaiseStep ==
    ASSUME PeerInv, NEW o \in Objects, NEW type \in EventTypes, InApplication,
           Raise(o, type, stack), live' \in SUBSET Objects, sent' = None,
           UNCHANGED <<bridgeUsable, open, connected, handles, watched, entries, nextId,
                       subscriptions, current, received, answered, forsaken, known, told>>
    PROVE  PeerInv'
  <1>1. stack \in Seq(Calls) /\ Len(stack) \in Nat /\ DOMAIN stack = 1 .. Len(stack)
    BY DEF PeerInv, TypeOK, Calls
  <1>2. /\ Len(stack) \notin PublishedIn(stack)
        /\ Len(stack) \in EventsIn(stack) /\ stack[Len(stack)].sending # None =>
               stack[Len(stack)].type \in Types
    <2>1. CASE stack = <<>>
      BY <1>1, <2>1 DEF PublishedIn, EventsIn
    <2>2. CASE stack # <<>>
      BY <2>2 DEF PublishedIn, InApplication, InEvent, Top
    <2> QED
      BY <2>1, <2>2
  <1>3. /\ StackInv' /\ stack' \in Seq(Calls)
        /\ missed \subseteq missed' /\ missed' \in SUBSET SubscriptionIds
    BY <1>1, <1>2, EventRaised DEF PeerInv, StackInv
  <1>4. TypeOK'
    BY <1>3 DEF PeerInv, TypeOK, Calls
  <1>5. TellsReleased' /\ SubscriptionsAgree'
    BY <1>3 DEF PeerInv, TellsReleased, SubscriptionsAgree
  <1> QED
    BY <1>3, <1>4, <1>5, AnswersUntouched DEF PeerInv

LEMMA CreateStep ==
    ASSUME PeerInv, NEW o \in Objects, Create(o)
    PROVE  PeerInv'
  <1>1. live' \in SUBSET Objects /\ "ChildConnected" \in EventTypes
    BY DEF Create, PeerInv, TypeOK, EventTypes, RuntimeTypes
  <1> QED
    BY <1>1, RaiseStep, RootAssumption DEF Create, peerVars, sessionVars, tables, counts

LEMMA PublishStep ==
    ASSUME PeerInv, NEW o \in Objects, NEW type \in Types, Publish(o, type)
    PROVE  PeerInv'
  <1>1. live' \in SUBSET Objects /\ type \in EventTypes
    BY DEF Publish, PeerInv, TypeOK, EventTypes
  <1> QED
    BY <1>1, RaiseStep DEF Publish, peerVars, sessionVars, tables, counts

LEMMA ReleaseStep ==
    ASSUME PeerInv, NEW o \in Objects, Release(o)
    PROVE  PeerInv'
  <1> DEFINE f == [kind |-> "release", object |-> o, next |-> "ChildDisconnected"]
             m == Len(stack)
  <1>1. /\ live' = live \ {o} /\ stack' = Append(stack, f) /\ sent' = None /\ InApplication
        /\ UNCHANGED <<bridgeUsable, open, connected, handles, watched, entries, nextId,
                       subscriptions, current, received, answered, forsaken, known, told, missed>>
    BY DEF Release, peerVars, sessionVars, tables, counts, clientVars
  <1>2. f \in Calls /\ f.kind = "release" /\ f.next = "ChildDisconnected"
    BY DEF Calls, Releases
  <1>3. /\ stack' \in Seq(Calls) /\ m \in Nat /\ DOMAIN stack = 1 .. m
        /\ DOMAIN stack' = 1 .. m + 1
        /\ \A k \in 1 .. m : stack'[k] = stack[k]
        /\ stack'[m + 1] = f
    <2>1. stack \in Seq(Calls)
      BY DEF PeerInv, TypeOK, Calls
    <2> QED
      BY <1>1, <1>2, <2>1, AppendFacts
  <1>4. m >= 1 => stack[m].kind = "event" /\ (stack[m].sending # None => stack[m].type \in Types)
    BY <1>1, <1>3 DEF InApplication, InEvent, Top
  <1> HIDE DEF f, m
  <1>5. SnapshotOf(stack)'
    <2>1. \A k \in EventsIn(stack)' : k \in EventsIn(stack) /\ stack'[k] = stack[k]
      BY <1>2, <1>3 DEF EventsIn
    <2> QED
      BY <1>1, <2>1 DEF PeerInv, StackInv, SnapshotOf, EventsIn, Matches
  <1>6. ShapeOf(stack)'
    <2> SUFFICES ASSUME NEW k \in 1 .. m
                 PROVE  IF stack'[k].kind = "release"
                        THEN /\ stack'[k + 1].kind = "event"
                             /\ stack'[k].next = "none" => stack'[k + 1].type = "Released"
                        ELSE stack'[k].sending # None => stack'[k].type \in Types
      BY <1>3 DEF ShapeOf
    <2>1. CASE k = m
      BY <1>3, <1>4, <2>1
    <2>2. CASE k # m
      <3>1. k \in DOMAIN stack /\ k + 1 \in DOMAIN stack /\ k + 1 \in 1 .. m
        BY <1>3, <2>2
      <3> QED
        BY <1>3, <3>1 DEF PeerInv, StackInv, ShapeOf
    <2> QED
      BY <2>1, <2>2
  <1>7. ASSUME NEW k \in PublishedIn(stack)'
        PROVE  CoversAt(stack, k)'
    <2>1. k \in 1 .. m /\ k \in PublishedIn(stack) /\ stack'[k] = stack[k] /\ k # m
      BY <1>2, <1>3, <1>4, <1>7 DEF PublishedIn
    <2>2. k + 1 \in DOMAIN stack /\ k + 1 \in DOMAIN stack' /\ stack'[k + 1] = stack[k + 1]
      BY <1>3, <2>1
    <2>3. Owed(stack[k])' = Owed(stack[k])
      BY <1>1, <2>1 DEF Owed
    <2> QED
      BY <1>1, <2>1, <2>2, <2>3 DEF PeerInv, StackInv, CoversAt
  <1>8. TypeOK'
    BY <1>1, <1>3 DEF PeerInv, TypeOK, Calls
  <1>9. TellsReleased' /\ SubscriptionsAgree'
    BY <1>1 DEF PeerInv, TellsReleased, SubscriptionsAgree
  <1> QED
    BY <1>1, <1>5, <1>6, <1>7, <1>8, <1>9, AnswersUntouched DEF PeerInv, StackInv

LEMMA HostCloseStep ==
    ASSUME PeerInv, HostClose
    PROVE  PeerInv'
  <1>1. /\ open /\ Shut /\ sent' = None
        /\ forsaken' = IF current # None THEN forsaken + 1 ELSE forsaken
        /\ UNCHANGED <<bridgeUsable, live, stack, current, received, answered>>
    BY DEF HostClose, world
  <1>2. /\ handles' = {} /\ watched' = {}
        /\ entries' \in [SubscriptionIds -> Entries \cup {None}]
        /\ nextId' = nextId /\ subscriptions' = {} /\ known' = {} /\ told' = told
        /\ missed' = missed /\ connected' = FALSE /\ open' = FALSE
        /\ StackInv' /\ TellsReleased' /\ SubscriptionsAgree'
    BY <1>1, ShutIsSafe
  <1>3. /\ received \in 0 .. MaxRequests /\ answered \in 0 .. MaxRequests
        /\ forsaken \in 0 .. MaxRequests
    BY DEF PeerInv, TypeOK
  <1>4. received' = answered' + forsaken' /\ forsaken' \in 0 .. MaxRequests
    <2>1. CASE current # None
      <3>1. received = answered + forsaken + 1
        BY <1>1, <2>1 DEF PeerInv, EachAnsweredOnce
      <3> QED
        BY <1>1, <1>3, <2>1, <3>1, BoundsAssumption
    <2>2. CASE current = None
      <3>1. received = answered + forsaken + 0
        BY <1>1, <2>2 DEF PeerInv, EachAnsweredOnce
      <3> QED
        BY <1>1, <1>3, <2>2, <3>1
    <2> QED
      BY <2>1, <2>2
  <1>5. EachAnsweredOnce'
    <2>1. answered' + forsaken' + 0 = answered' + forsaken'
      BY <1>1, <1>3, <1>4
    <2> QED
      BY <1>2, <1>4, <2>1 DEF EachAnsweredOnce
  <1>6. TypeOK'
    BY <1>1, <1>2, <1>4 DEF PeerInv, TypeOK
  <1> QED
    BY <1>2, <1>5, <1>6 DEF PeerInv

\* An exception may cut off a Released event, but not one that has all but ended.
LEMMA HandlerThrowStep ==
    ASSUME PeerInv, HandlerThrow
    PROVE  PeerInv'
  <1>1. PICK n \in 0 .. Len(stack) - 1 :
          /\ \A k \in n + 1 .. Len(stack) : stack[k].kind = "event"
          /\ stack' = SubSeq(stack, 1, n)
          /\ missed' = missed \cup UNION {stack[k].ids :
                k \in {j \in n + 1 .. Len(stack) : stack[j].type = "Released"}}
    BY DEF HandlerThrow
  <1>2. /\ InEvent /\ InApplication /\ sent' = None
        /\ UNCHANGED <<bridgeUsable, live, open, connected, handles, watched, entries, nextId,
                       subscriptions, current, received, answered, forsaken, known, told>>
    BY DEF HandlerThrow, peerVars, sessionVars, tables, counts
  <1>3. /\ Len(stack) \in Nat \ {0} /\ DOMAIN stack = 1 .. Len(stack) /\ n \in 0 .. Len(stack)
        /\ n + 1 \in n + 1 .. Len(stack) /\ n + 1 \in DOMAIN stack
    <2>1. stack \in Seq(Calls) /\ stack # <<>>
      BY <1>2 DEF PeerInv, TypeOK, Calls, InEvent
    <2> QED
      BY <2>1
  <1>4. missed \subseteq missed' /\ missed' \in SUBSET SubscriptionIds
    <2>1. \A k \in n + 1 .. Len(stack) : stack[k].ids \subseteq SubscriptionIds
      BY <1>1, <1>3, FrameTypes DEF Events
    <2>2. missed \in SUBSET SubscriptionIds
      BY DEF PeerInv, TypeOK
    <2> QED
      BY <1>1, <2>1, <2>2
  <1>5. ASSUME n \in PublishedIn(stack), NEW i \in Owed(stack[n])
        PROVE  i \in told \cup missed'
    <2>1. stack[n + 1].type = "Released" /\ n \in DOMAIN stack /\ stack[n].kind = "release"
      BY <1>3, <1>5 DEF PeerInv, StackInv, ShapeOf, PublishedIn
    <2>2. stack[n + 1].sending = None
      <3>1. "Released" \notin Types
        BY TypesAssumption DEF RuntimeTypes
      <3>2. CASE n + 1 = Len(stack)
        BY <1>2, <2>1, <3>1, <3>2 DEF InApplication, Top, InEvent
      <3>3. CASE n + 1 # Len(stack)
        <4>1. n + 1 \in DOMAIN stack /\ (n + 1) + 1 \in DOMAIN stack
          <5>1. n \in Nat /\ n + 1 <= Len(stack) /\ Len(stack) \in Nat
            BY <1>3
          <5>2. n + 2 <= Len(stack) /\ (n + 1) + 1 = n + 2
            BY <3>3, <5>1
          <5> QED
            BY <1>3, <5>1, <5>2
        <4>2. stack[n + 1].kind = "event"
          BY <1>1, <1>3
        <4> QED
          BY <2>1, <3>1, <4>1, <4>2 DEF PeerInv, StackInv, ShapeOf
      <3> QED
        BY <3>2, <3>3
    <2>3. i \in told \cup missed \cup stack[n + 1].ids \cup {None}
      BY <1>5, <2>2 DEF PeerInv, StackInv, CoversAt
    <2>4. stack[n + 1].ids \subseteq missed'
      BY <1>1, <1>3, <2>1
    <2>5. i # None
      BY NoneIsNothing DEF Owed, PeerInv, TypeOK
    <2> QED
      BY <1>4, <2>3, <2>4, <2>5
  <1>6. StackInv' /\ stack' \in Seq(Calls)
    BY <1>1, <1>2, <1>3, <1>4, <1>5, StackShrinks
  <1>7. TypeOK'
    BY <1>2, <1>4, <1>6 DEF PeerInv, TypeOK, Calls
  <1>8. TellsReleased' /\ SubscriptionsAgree'
    BY <1>2, <1>4 DEF PeerInv, TellsReleased, SubscriptionsAgree
  <1> QED
    BY <1>2, <1>6, <1>7, <1>8, AnswersUntouched DEF PeerInv

-----------------------------------------------------------------------------
(* The runtime. *)

\* What a release publishes; its own Released event covers all it owes.
LEMMA AnnounceStep ==
    ASSUME PeerInv, Announce
    PROVE  PeerInv'
  <1> DEFINE m == Len(Below)
  <1>1. /\ InRelease /\ sent' = None
        /\ UNCHANGED <<bridgeUsable, live, open, connected, handles, watched, entries, nextId,
                       subscriptions, current, received, answered, forsaken, known, told>>
    BY DEF Announce, peerVars, sessionVars, tables, counts
  <1>2. /\ Below \in Seq(Calls) /\ m \in Nat
        /\ DOMAIN Below = 1 .. m /\ DOMAIN stack = 1 .. m + 1
        /\ \A k \in DOMAIN Below : Below[k] = stack[k]
        /\ Top = stack[m + 1] /\ Top.kind = "release"
    BY <1>1, TopFacts DEF InRelease
  <1>3. Top \in Releases
    BY <1>2, FrameTypes
  <1>4. ASSUME NEW next \in {"Released", "none"}, NEW o \in Objects,
               NEW type \in EventTypes, Top.next # "none",
               Raise(o, type, Append(Below, [Top EXCEPT !.next = next])),
               next = "none" => o = Top.object /\ type = "Released"
        PROVE  /\ StackInv' /\ stack' \in Seq(Calls)
               /\ missed \subseteq missed' /\ missed' \in SUBSET SubscriptionIds
    <2> DEFINE f == [Top EXCEPT !.next = next]
               below == Append(Below, f)
    <2>1. f \in Calls /\ f.kind = "release" /\ f.next = next /\ f.object = Top.object
      BY <1>3 DEF Releases, Calls
    <2> HIDE DEF f
    <2>2. /\ below \in Seq(Calls) /\ DOMAIN below = 1 .. m + 1 /\ Len(below) = m + 1
          /\ \A k \in 1 .. m : below[k] = stack[k]
          /\ below[m + 1] = f
      BY <1>2, <2>1, AppendFacts
    <2> HIDE DEF below, m
    <2>3. SnapshotOf(below)
      <3>1. \A k \in EventsIn(below) : k \in EventsIn(stack) /\ below[k] = stack[k]
        BY <1>2, <2>1, <2>2 DEF EventsIn
      <3> QED
        BY <3>1 DEF PeerInv, StackInv, SnapshotOf
    <2>4. m >= 1 => stack[m].kind = "event"
      <3> SUFFICES ASSUME m >= 1 PROVE stack[m].kind = "event"
        OBVIOUS
      <3>1. m \in DOMAIN stack /\ m + 1 \in DOMAIN stack /\ stack[m + 1].kind # "event"
        BY <1>2
      <3>2. stack[m].kind # "release"
        BY <3>1 DEF PeerInv, StackInv, ShapeOf
      <3> QED
        BY <3>1, <3>2, FrameTypes
    <2>5. ShapeOf(below)
      <3> SUFFICES ASSUME NEW k \in 1 .. m
                   PROVE  IF below[k].kind = "release"
                          THEN /\ below[k + 1].kind = "event"
                               /\ below[k].next = "none" => below[k + 1].type = "Released"
                          ELSE below[k].sending # None => below[k].type \in Types
        BY <1>2, <2>2 DEF ShapeOf
      <3>1. k \in DOMAIN stack /\ k + 1 \in DOMAIN stack /\ below[k] = stack[k]
        BY <1>2, <2>2
      <3>2. CASE k = m
        BY <2>4, <3>1, <3>2 DEF PeerInv, StackInv, ShapeOf
      <3>3. CASE k # m
        <4>1. below[k + 1] = stack[k + 1]
          BY <1>2, <2>2, <3>3
        <4> QED
          BY <3>1, <4>1 DEF PeerInv, StackInv, ShapeOf
      <3> QED
        BY <3>2, <3>3
    <2>6. ASSUME NEW k \in PublishedIn(below), k # m + 1
          PROVE  CoversAt(below, k)
      <3>1. k \in 1 .. m /\ k \in PublishedIn(stack) /\ below[k] = stack[k]
        BY <1>2, <2>2, <2>6 DEF PublishedIn
      <3>2. k # m
        BY <2>4, <3>1 DEF PublishedIn
      <3>3. /\ k + 1 \in DOMAIN stack /\ k + 1 \in DOMAIN below
            /\ below[k + 1] = stack[k + 1]
        BY <1>2, <2>2, <3>1, <3>2
      <3> QED
        BY <3>1, <3>3 DEF PeerInv, StackInv, CoversAt
    <2>7. /\ m + 1 \in PublishedIn(below) => type = "Released" /\ below[m + 1].object = o
          /\ m + 1 \notin EventsIn(below)
      BY <1>4, <2>1, <2>2 DEF PublishedIn, EventsIn
    <2>8. Raise(o, type, below)
      BY <1>4 DEF below, f
    <2> QED
      BY <1>1, <2>2, <2>3, <2>5, <2>6, <2>7, <2>8, EventRaised
  <1>5. /\ StackInv' /\ stack' \in Seq(Calls)
        /\ missed \subseteq missed' /\ missed' \in SUBSET SubscriptionIds
    <2>1. Top.object \in Objects /\ "Released" \in EventTypes /\ "ChildDisconnected" \in EventTypes
      BY <1>3 DEF Releases, EventTypes, RuntimeTypes
    <2>2. CASE /\ Top.next = "ChildDisconnected"
               /\ Raise(Root, Top.next, Append(Below, [Top EXCEPT !.next = "Released"]))
      BY <1>4, <2>1, <2>2, RootAssumption
    <2>3. CASE /\ Top.next = "Released"
               /\ Raise(Top.object, Top.next, Append(Below, [Top EXCEPT !.next = "none"]))
      BY <1>4, <2>1, <2>3
    <2> QED
      BY <2>2, <2>3 DEF Announce
  <1>6. TypeOK'
    BY <1>1, <1>5 DEF PeerInv, TypeOK, Calls
  <1>7. TellsReleased' /\ SubscriptionsAgree'
    BY <1>1, <1>5 DEF PeerInv, TellsReleased, SubscriptionsAgree
  <1> QED
    BY <1>1, <1>5, <1>6, <1>7, AnswersUntouched DEF PeerInv

\* The session hears of a release.
LEMMA HearStep ==
    ASSUME PeerInv, Hear
    PROVE  PeerInv'
  <1> DEFINE f == [Top EXCEPT !.watch = FALSE]
  <1>1. /\ InEvent /\ stack' = Append(Below, f) /\ sent' = None
        /\ handles' = handles \ {Top.source} /\ watched' = watched \ {Top.source}
        /\ UNCHANGED <<bridgeUsable, live, open, connected, entries, nextId, subscriptions,
                       current, received, answered, forsaken, known, told, missed>>
    BY DEF Hear, Delivers, counts, clientVars
  <1>2. Top \in Events /\ Len(stack) \in EventsIn(stack) /\ Top = stack[Len(stack)]
    BY <1>1, TopFacts, FrameTypes DEF InEvent, Top, EventsIn
  <1>3. /\ f \in Events /\ f.source = Top.source /\ f.type = Top.type
        /\ f.ids = Top.ids /\ f.sending = Top.sending
    BY <1>2 DEF Events
  <1> HIDE DEF f
  <1>4. StackInv' /\ stack' \in Seq(Calls)
    <2>1. /\ \A i \in f.ids : entries[i] # None => Matches(i, f)
          /\ f.sending # None /\ open => f.sending \in known /\ Matches(f.sending, f)
      BY <1>2, <1>3 DEF PeerInv, StackInv, SnapshotOf, Matches
    <2> QED
      BY <1>1, <1>3, <2>1, EventGoesOn
  <1>5. TypeOK'
    BY <1>1, <1>4 DEF PeerInv, TypeOK, Calls
  <1>6. TellsReleased' /\ SubscriptionsAgree'
    BY <1>1 DEF PeerInv, TellsReleased, SubscriptionsAgree
  <1> QED
    BY <1>1, <1>4, <1>5, <1>6, AnswersUntouched DEF PeerInv

\* The subscription that is taken from the snapshot is one that the client knows.
LEMMA DeliverStep ==
    ASSUME PeerInv, Deliver
    PROVE  PeerInv'
  <1>1. PICK i \in Top.ids :
            stack' = Append(Below, [Top EXCEPT !.ids = @ \ {i},
                                       !.sending = IF entries[i] # None /\ entries[i].active
                                                   THEN i ELSE None])
    BY DEF Deliver
  <1> DEFINE f == [Top EXCEPT !.ids = @ \ {i},
                              !.sending = IF entries[i] # None /\ entries[i].active
                                          THEN i ELSE None]
  <1>2. /\ InEvent /\ Top.sending = None /\ sent' = None
        /\ UNCHANGED <<bridgeUsable, live, open, connected, handles, watched, entries, nextId,
                       subscriptions, current, received, answered, forsaken, known, told, missed>>
    BY DEF Deliver, Delivers, peerVars, sessionVars, tables, counts, clientVars
  <1>3. Top \in Events /\ Len(stack) \in EventsIn(stack) /\ Top = stack[Len(stack)]
    BY <1>2, TopFacts, FrameTypes DEF InEvent, Top, EventsIn
  <1>4. /\ f \in Events /\ f.source = Top.source /\ f.type = Top.type
        /\ f.ids = Top.ids \ {i}
        /\ f.sending = IF entries[i] # None /\ entries[i].active THEN i ELSE None
        /\ i \in SubscriptionIds
    BY <1>3 DEF Events
  <1>5. stack' = Append(Below, f)
    BY <1>1
  <1> HIDE DEF f
  <1>6. \A j \in Top.ids : entries[j] # None => Matches(j, f)
    BY <1>3, <1>4 DEF PeerInv, StackInv, SnapshotOf, Matches
  <1>7. f.sending # None => f.sending = i /\ i \in known /\ Matches(i, f)
    BY <1>4, <1>6 DEF PeerInv, SubscriptionsAgree
  <1>8. ASSUME NEW j \in known, entries[j].active, j \in Top.ids \cup {Top.sending}
        PROVE  j \in f.ids \cup {f.sending}
    <2>1. j \in SubscriptionIds /\ entries[j] # None
      BY DEF PeerInv, SubscriptionsAgree
    <2>2. j \in Top.ids
      BY <1>2, <1>8, <2>1, NoneIsNothing
    <2> QED
      BY <1>4, <1>8, <2>1, <2>2
  <1>9. StackInv' /\ stack' \in Seq(Calls)
    BY <1>2, <1>4, <1>5, <1>6, <1>7, <1>8, EventGoesOn
  <1>10. TypeOK'
    BY <1>2, <1>9 DEF PeerInv, TypeOK, Calls
  <1>11. TellsReleased' /\ SubscriptionsAgree'
    BY <1>2 DEF PeerInv, TellsReleased, SubscriptionsAgree
  <1> QED
    BY <1>2, <1>9, <1>10, <1>11, AnswersUntouched DEF PeerInv

\* The frame of a subscription is sent, or withheld by a closed peer.
LEMMA SendStep ==
    ASSUME PeerInv, Send
    PROVE  PeerInv'
  <1> DEFINE f == [Top EXCEPT !.sending = None]
  <1>1. /\ InEvent /\ Top.sending # None /\ stack' = Append(Below, f)
        /\ told' = IF open /\ Top.type = "Released" THEN told \cup {Top.sending} ELSE told
        /\ UNCHANGED <<bridgeUsable, live, open, connected, handles, watched, entries, nextId,
                       subscriptions, current, received, answered, forsaken, known, missed>>
    BY DEF Send, peerVars, sessionVars, tables, counts
  <1>2. Top \in Events /\ Len(stack) \in EventsIn(stack) /\ Top = stack[Len(stack)]
    BY <1>1, TopFacts, FrameTypes DEF InEvent, Top, EventsIn
  <1>3. /\ f \in Events /\ f.source = Top.source /\ f.type = Top.type
        /\ f.ids = Top.ids /\ f.sending = None /\ Top.sending \in SubscriptionIds
    BY <1>1, <1>2 DEF Events
  <1> HIDE DEF f
  <1>4. \A i \in f.ids : entries[i] # None => Matches(i, f)
    BY <1>2, <1>3 DEF PeerInv, StackInv, SnapshotOf, Matches
  <1>5. ASSUME NEW j \in known, j \in Top.ids \cup {Top.sending}
        PROVE  j \in f.ids \cup {f.sending} \cup told' \/ Top.type # "Released"
    <2>1. open
      BY DEF PeerInv, SubscriptionsAgree
    <2> QED
      BY <1>1, <1>3, <1>5, <2>1
  <1>6. StackInv' /\ stack' \in Seq(Calls)
    BY <1>1, <1>3, <1>4, <1>5, EventGoesOn
  <1>7. sent' \in Frames \cup {None}
    <2>1. [kind |-> "event", subscription |-> Top.sending,
           addr |-> Top.source, type |-> Top.type] \in Frames
      BY <1>2, <1>3 DEF Frames, Events
    <2> QED
      BY <2>1 DEF Send
  <1>8. TypeOK'
    BY <1>1, <1>3, <1>6, <1>7 DEF PeerInv, TypeOK, Calls
  <1>9. TellsReleased' /\ SubscriptionsAgree'
    BY <1>1 DEF PeerInv, TellsReleased, SubscriptionsAgree
  <1> QED
    BY <1>1, <1>6, <1>8, <1>9, AnswersUntouched DEF PeerInv

LEMMA EndEventStep ==
    ASSUME PeerInv, EndEvent
    PROVE  PeerInv'
  <1> DEFINE m == Len(stack) - 1
  <1>1. /\ InEvent /\ Top.sending = None /\ Top.ids = {} /\ stack' = Below /\ sent' = None
        /\ UNCHANGED <<bridgeUsable, live, open, connected, handles, watched, entries, nextId,
                       subscriptions, current, received, answered, forsaken, known, told, missed>>
    BY DEF EndEvent, Delivers, peerVars, sessionVars, tables, counts, clientVars
  <1>2. /\ m \in 0 .. Len(stack) /\ stack' = SubSeq(stack, 1, m) /\ Top = stack[m + 1]
        /\ m = Len(Below)
    BY <1>1, TopFacts DEF InEvent, Below
  <1> HIDE DEF m
  <1>3. ASSUME m \in PublishedIn(stack), NEW i \in Owed(stack[m])
        PROVE  i \in told \cup missed
    <2>1. i \in told \cup missed \cup stack[m + 1].ids \cup {stack[m + 1].sending}
      BY <1>3 DEF PeerInv, StackInv, CoversAt
    <2>2. i # None
      BY NoneIsNothing DEF Owed, PeerInv, TypeOK
    <2> QED
      BY <1>1, <1>2, <2>1, <2>2
  <1>4. StackInv' /\ stack' \in Seq(Calls)
    BY <1>1, <1>2, <1>3, StackShrinks
  <1>5. TypeOK'
    BY <1>1, <1>4 DEF PeerInv, TypeOK, Calls
  <1>6. TellsReleased' /\ SubscriptionsAgree'
    BY <1>1 DEF PeerInv, TellsReleased, SubscriptionsAgree
  <1> QED
    BY <1>1, <1>4, <1>5, <1>6, AnswersUntouched DEF PeerInv

\* When a release ends subscriptions, all of them have been told or have missed it.
LEMMA EndReleaseStep ==
    ASSUME PeerInv, EndRelease
    PROVE  PeerInv'
  <1> DEFINE m == Len(Below)
             ends(i) == entries[i] # None /\ entries[i].source = Top.object
  <1>1. /\ InRelease /\ Top.next = "none" /\ stack' = Below /\ sent' = None
        /\ entries' = Ended(Top.object) /\ watched' \subseteq watched
        /\ UNCHANGED <<bridgeUsable, live, open, connected, handles, nextId, subscriptions,
                       current, received, answered, forsaken, known, told, missed>>
    BY DEF EndRelease, counts, clientVars
  <1>2. /\ Below \in Seq(Calls) /\ m \in Nat
        /\ DOMAIN Below = 1 .. m /\ DOMAIN stack = 1 .. m + 1
        /\ \A k \in DOMAIN Below : Below[k] = stack[k]
        /\ Top = stack[m + 1] /\ Top.kind = "release"
    BY <1>1, TopFacts DEF InRelease
  <1> HIDE DEF m
  <1>3. \A i \in SubscriptionIds :
            /\ entries[i] \in Entries \cup {None}
            /\ entries'[i] = IF ends(i) THEN [entries[i] EXCEPT !.active = FALSE] ELSE entries[i]
    BY <1>1 DEF Ended, PeerInv, TypeOK
  <1>4. ASSUME NEW i \in SubscriptionIds
        PROVE  /\ entries'[i] \in Entries \cup {None}
               /\ entries'[i] = None <=> entries[i] = None
               /\ entries[i] # None => /\ entries'[i].type = entries[i].type
                                       /\ entries'[i].source = entries[i].source
                                       /\ entries'[i].active => entries[i].active
               /\ ~ends(i) => entries'[i] = entries[i]
    <2>1. CASE ends(i)
      <3>1. entries[i] \in Entries /\ entries'[i] = [entries[i] EXCEPT !.active = FALSE]
        BY <1>3, <2>1
      <3>2. /\ entries'[i] \in Entries /\ entries'[i].type = entries[i].type
            /\ entries'[i].source = entries[i].source /\ ~entries'[i].active
        BY <3>1 DEF Entries
      <3> QED
        BY <2>1, <3>2, NoneIsNothing
    <2>2. CASE ~ends(i)
      BY <1>3, <2>2
    <2> QED
      BY <2>1, <2>2
  <1>5. known \subseteq SubscriptionIds /\ \A i \in known : entries[i] # None
    BY DEF PeerInv, SubscriptionsAgree
  <1>6. SnapshotOf(stack)'
    <2> SUFFICES ASSUME NEW k \in 1 .. m, stack'[k].kind = "event"
                 PROVE  /\ \A i \in stack'[k].ids : entries'[i] # None => Matches(i, stack[k])'
                        /\ stack'[k].sending # None /\ open' =>
                              stack'[k].sending \in known' /\ Matches(stack[k].sending, stack[k])'
      BY <1>1, <1>2 DEF SnapshotOf, EventsIn
    <2>1. k \in EventsIn(stack) /\ stack'[k] = stack[k] /\ k \in DOMAIN stack
      BY <1>1, <1>2 DEF EventsIn
    <2>2. stack[k] \in Events
      BY <2>1, FrameTypes
    <2>3. ASSUME NEW i \in stack[k].ids, entries'[i] # None
          PROVE  Matches(i, stack[k])'
      <3>1. i \in SubscriptionIds
        BY <2>2 DEF Events
      <3>2. entries[i] # None /\ Matches(i, stack[k])
        BY <1>4, <2>1, <2>3, <3>1 DEF PeerInv, StackInv, SnapshotOf
      <3> QED
        BY <1>4, <2>1, <3>1, <3>2 DEF Matches
    <2>4. ASSUME stack[k].sending # None, open
          PROVE  stack[k].sending \in known /\ Matches(stack[k].sending, stack[k])'
      <3>1. stack[k].sending \in known /\ Matches(stack[k].sending, stack[k])
        BY <2>1, <2>4 DEF PeerInv, StackInv, SnapshotOf
      <3> QED
        BY <1>4, <1>5, <2>1, <3>1 DEF Matches
    <2> QED
      BY <1>1, <2>1, <2>3, <2>4
  <1>7. ShapeOf(stack)'
    BY <1>1, <1>2 DEF PeerInv, StackInv, ShapeOf
  <1>8. ASSUME NEW k \in PublishedIn(stack)'
        PROVE  CoversAt(stack, k)'
    <2>1. k \in 1 .. m /\ k \in PublishedIn(stack) /\ stack'[k] = stack[k] /\ k + 1 \in DOMAIN stack
      BY <1>1, <1>2, <1>8 DEF PublishedIn
    <2>2. k # m
      BY <1>2, <2>1 DEF PeerInv, StackInv, ShapeOf, PublishedIn
    <2>3. k + 1 \in DOMAIN stack' /\ stack'[k + 1] = stack[k + 1]
      BY <1>1, <1>2, <2>1, <2>2
    <2>4. Owed(stack[k])' \subseteq Owed(stack[k])
      BY <1>1, <1>4, <1>5, <2>1 DEF Owed
    <2> QED
      BY <1>1, <2>1, <2>3, <2>4 DEF PeerInv, StackInv, CoversAt
  <1>9. TypeOK'
    <2>1. entries' \in [SubscriptionIds -> Entries \cup {None}]
      <3>1. DOMAIN entries' = SubscriptionIds /\ entries' = [i \in SubscriptionIds |-> entries'[i]]
        BY <1>1 DEF Ended
      <3> QED
        BY <1>4, <3>1
    <2>2. watched' \in SUBSET handles'
      BY <1>1 DEF PeerInv, TypeOK
    <2> QED
      BY <1>1, <1>2, <2>1, <2>2 DEF PeerInv, TypeOK, Calls
  <1>10. TellsReleased'
    <2> SUFFICES ASSUME NEW i \in known, entries'[i].type = "Released", ~entries'[i].active
                 PROVE  i \in told \cup missed
      BY <1>1 DEF TellsReleased
    <2>1. i \in SubscriptionIds /\ entries[i] # None /\ entries[i].type = "Released"
      BY <1>4, <1>5
    <2>2. CASE ~entries[i].active
      BY <2>1, <2>2 DEF PeerInv, TellsReleased
    <2>3. CASE entries[i].active
      <3>1. ends(i)
        BY <1>4, <2>1, <2>3
      <3>2. m + 1 \in PublishedIn(stack) /\ i \in Owed(stack[m + 1])
        BY <1>1, <1>2, <2>1, <2>3, <3>1 DEF PublishedIn, Owed
      <3>3. (m + 1) + 1 \notin DOMAIN stack
        BY <1>2
      <3> QED
        BY <3>2, <3>3 DEF PeerInv, StackInv, CoversAt
    <2> QED
      BY <2>2, <2>3
  <1>11. SubscriptionsAgree'
    <2>1. {i \in SubscriptionIds : entries'[i] # None} = {i \in SubscriptionIds : entries[i] # None}
      BY <1>4
    <2> QED
      BY <1>1, <2>1 DEF PeerInv, SubscriptionsAgree
  <1> QED
    BY <1>1, <1>6, <1>7, <1>8, <1>9, <1>10, <1>11, AnswersUntouched DEF PeerInv, StackInv

-----------------------------------------------------------------------------
(* The theorems. *)

LEMMA InitiallySound ==
    ASSUME Init
    PROVE  PeerInv
  <1>1. /\ live = {Root} /\ stack = <<>> /\ open = TRUE /\ connected = FALSE
        /\ handles = {} /\ watched = {}
        /\ entries = [i \in SubscriptionIds |-> None] /\ nextId = 1 /\ subscriptions = {}
        /\ current = None /\ sent = None /\ received = 0 /\ answered = 0 /\ forsaken = 0
        /\ known = {} /\ told = {} /\ missed = {} /\ bridgeUsable \in BOOLEAN
    BY DEF Init
  <1>2. TypeOK
    <2>1. nextId \in 1 .. MaxSubscriptions + 1 /\ 0 \in 0 .. MaxRequests
      BY <1>1, BoundsAssumption
    <2>2. live \in SUBSET Objects /\ stack \in Seq(Events \cup Releases)
      BY <1>1, RootAssumption
    <2>3. entries \in [SubscriptionIds -> Entries \cup {None}]
      BY <1>1
    <2> QED
      BY <1>1, <2>1, <2>2, <2>3 DEF TypeOK
  <1>3. EachAnsweredOnce
    BY <1>1 DEF EachAnsweredOnce
  <1>4. StackInv
    BY <1>1 DEF StackInv, SnapshotOf, ShapeOf, PublishedIn, EventsIn
  <1>5. TellsReleased /\ SubscriptionsAgree
    BY <1>1 DEF TellsReleased, SubscriptionsAgree
  <1> QED
    BY <1>2, <1>3, <1>4, <1>5 DEF PeerInv

LEMMA ReceiveStep ==
    ASSUME PeerInv, Receive
    PROVE  PeerInv'
  <1>1. CASE Malformed \/ NotEstablished \/ UnknownOp \/ ConnectAgain \/ ConnectFails
    BY <1>1, RefuseStep DEF Malformed, NotEstablished, UnknownOp, ConnectAgain, ConnectFails, Codes
  <1>2. CASE TooLong \/ ConnectElsewhere \/ CloseRequest
    BY <1>2, ClosingStep DEF TooLong, ConnectElsewhere, CloseRequest, Established, Codes
  <1>3. CASE Connect
    BY <1>3, ConnectStep
  <1>4. ASSUME NEW o \in Objects, AddrInvalid(o) \/ ObjectNotFound(o) \/ Outlived(o)
        PROVE  PeerInv'
    BY <1>4, RefuseStep DEF AddrInvalid, ObjectNotFound, Outlived, Codes
  <1>5. ASSUME NEW o \in Objects, GetChildItem(o) \/ GetChildren(o)
        PROVE  PeerInv'
    <2>1. Children(o) \subseteq Objects
      BY DEF Children, PeerInv, TypeOK
    <2> QED
      BY <1>5, <2>1, ResolveStep DEF GetChildItem, GetChildren
  <1>6. ASSUME NEW o \in Objects, Call(o)
        PROVE  PeerInv'
    BY <1>6, CallStep
  <1>7. ASSUME NEW o \in Objects, NEW type \in EventTypes, SubscribeEvent(o, type)
        PROVE  PeerInv'
    BY <1>7, SubscribeStep
  <1>8. ASSUME NEW i \in SubscriptionIds, CancelEvent(i)
        PROVE  PeerInv'
    BY <1>8, CancelStep
  <1>9. ASSUME NEW i \in SubscriptionIds, CancelInvalid(i)
        PROVE  PeerInv'
    BY <1>9, RefuseStep DEF CancelInvalid, Codes
  <1> QED
    BY <1>1, <1>2, <1>3, <1>4, <1>5, <1>6, <1>7, <1>8, <1>9 DEF Receive

LEMMA PeerStep ==
    ASSUME PeerInv, [Next]_vars
    PROVE  PeerInv'
  <1>1. CASE Receive
    BY <1>1, ReceiveStep
  <1>2. CASE Application
    BY <1>2, CreateStep, ReleaseStep, PublishStep, HostCloseStep, HandlerThrowStep, ReturnStep
       DEF Application
  <1>3. CASE Runtime
    BY <1>3, AnnounceStep, EndReleaseStep, HearStep, DeliverStep, SendStep, EndEventStep
       DEF Runtime
  <1>4. CASE UNCHANGED vars
    <2>1. UNCHANGED <<bridgeUsable, live, stack, open, connected, handles, watched, entries, nextId,
                      subscriptions, current, sent, received, answered, forsaken,
                      known, told, missed>>
      BY <1>4 DEF vars, world, peerVars, sessionVars, tables, counts, clientVars
    <2>2. TypeOK'
      BY <2>1 DEF PeerInv, TypeOK
    <2>3. StackInv'
      BY <2>1 DEF PeerInv, StackInv, SnapshotOf, ShapeOf, PublishedIn, CoversAt, Owed, EventsIn, Matches
    <2>4. TellsReleased' /\ SubscriptionsAgree'
      BY <2>1 DEF PeerInv, TellsReleased, SubscriptionsAgree
    <2> QED
      BY <2>1, <2>2, <2>3, <2>4, AnswersUntouched DEF PeerInv
  <1> QED
    BY <1>1, <1>2, <1>3, <1>4 DEF Next

\* The parts of PeerInv hold together in every state of the peer.
THEOREM PeerInvariant == Spec => []PeerInv
  <1>1. Init => PeerInv
    BY InitiallySound
  <1>2. PeerInv /\ [Next]_vars => PeerInv'
    BY PeerStep
  <1> QED
    BY <1>1, <1>2, PTL DEF Spec

\* All that is stored has its type: also the entries that a release has ended.
THEOREM PeerTypesKept == Spec => []TypeOK
  BY PeerInvariant, PTL DEF PeerInv

\* receive and the handlers of the requests answer each request once, whatever the
\* application does in the middle of one, unless it throws or closes the peer.
THEOREM AnsweredOnce == Spec => []EachAnsweredOnce
  BY PeerInvariant, PTL DEF PeerInv

\* A client with a subscription to Released hears of the release before the runtime
\* ends the subscription, unless the limits or an exception keep the event from it.
THEOREM ReleasesTold == Spec => []TellsReleased
  BY PeerInvariant, PTL DEF PeerInv

\* The peer, its session and its client have the same subscriptions.
THEOREM SubscriptionsAgreed == Spec => []SubscriptionsAgree
  BY PeerInvariant, PTL DEF PeerInv

\* Only Send sends a frame of an event.
LEMMA OnlySendSendsEvents ==
    ASSUME Next, sent' # None, sent'.kind = "event"
    PROVE  Send
  <1>1. ASSUME NEW code, Answer(code)
        PROVE  FALSE
    <2>1. sent' = [kind |-> "answer", code |-> code]
      BY <1>1 DEF Answer
    <2> QED
      BY <2>1
  <1>2. ~Receive
    BY <1>1 DEF Receive, Malformed, TooLong, NotEstablished, UnknownOp, ConnectAgain, Refuse,
                ConnectElsewhere, ConnectFails, Connect, AddrInvalid, ObjectNotFound, Outlived,
                GetChildItem, GetChildren, Resolve, Call, SubscribeEvent, CancelEvent,
                CancelInvalid, CloseRequest
  <1>3. ~Application
    BY <1>1 DEF Application, Create, Release, Publish, HostClose, HandlerThrow, Return, Throw
  <1>4. ~Announce /\ ~EndRelease /\ ~Hear /\ ~Deliver /\ ~EndEvent
    BY DEF Announce, EndRelease, Hear, Deliver, EndEvent
  <1> QED
    BY <1>2, <1>3, <1>4 DEF Next, Runtime

\* The callback of a subscription sends a frame for a subscription that its client has,
\* although the application runs between the snapshot and the frame.
THEOREM FramesMatchSubscriptions == Spec => EventsMatchSubscriptions
  <1>1. ASSUME PeerInv, Next, sent' # None, sent'.kind = "event"
        PROVE  /\ open /\ sent'.subscription \in known
               /\ LET entry == entries[sent'.subscription]
                  IN  entry.source = sent'.addr /\ entry.type = sent'.type
    <2>1. Send
      BY <1>1, OnlySendSendsEvents
    <2>2. /\ InEvent /\ Top.sending # None /\ open
          /\ sent' = [kind |-> "event", subscription |-> Top.sending,
                      addr |-> Top.source, type |-> Top.type]
      BY <1>1, <2>1 DEF Send
    <2>3. Len(stack) \in EventsIn(stack) /\ Top = stack[Len(stack)]
      BY <1>1, <2>2, TopFacts DEF InEvent, Top, EventsIn
    <2>4. Top.sending \in known /\ Matches(Top.sending, Top)
      BY <1>1, <2>2, <2>3 DEF PeerInv, StackInv, SnapshotOf
    <2> QED
      BY <2>2, <2>4 DEF Matches
  <1>2. PeerInv /\ [Next]_vars =>
           [(sent' # None /\ sent'.kind = "event") =>
               /\ open /\ sent'.subscription \in known
               /\ LET entry == entries[sent'.subscription]
                  IN  entry.source = sent'.addr /\ entry.type = sent'.type]_vars
    BY <1>1
  <1> QED
    BY <1>2, PeerInvariant, PTL DEF Spec, EventsMatchSubscriptions

=============================================================================
