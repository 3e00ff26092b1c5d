-------------------------- MODULE ChannelPropagation --------------------------
(***************************************************************************)
(* How a change of a data channel spreads along channel subscriptions: the *)
(* kernel, bounded to the subscriptions in Links and Heard, with a history *)
(* of the outermost call in progress.                                      *)
(*                                                                         *)
(* The history says whether the propagation has been disturbed: by user    *)
(* code that calls an operation or throws, by a copy that fails, or by the *)
(* limits of the chain.  An undisturbed one has only read and written.     *)
(***************************************************************************)
EXTENDS RuntimeKernel

CONSTANTS
    Links,      \* bound: the channel subscriptions that are ever made
    Heard,      \* bound: the event subscriptions that are ever made
    MaxNested   \* bound: the operations that user code calls inside one outermost call

ASSUME MaxNestedAssumption == MaxNested \in Nat

VARIABLES
    undisturbed,    \* history: the outermost call has met no disturbance
    copied,         \* history: what it has written, as (object, channel) pairs
    nested          \* history: the operations called inside of it

history == <<undisturbed, copied, nested>>
varsWithHistory == <<vars, history>>

InitWithHistory == Init /\ undisturbed = FALSE /\ copied = {} /\ nested = 0

WithinBounds ==
    /\ \A id \in Registry!Ids :
        /\ channels[id] # NoSub => channels[id] \in Links
        /\ events[id] # NoSub => events[id] \in Heard
    /\ \A i \in FramesOf(stack, "publish") :
          stack[i].type = Changed => stack[i].channel # NoChannel /\ stack[i].owned

\* The end of the outermost call leaves nothing to remember.
Remember(goesOn, writes) ==
    LET remembers == undisturbed /\ goesOn /\ stack' # <<>>
    IN  /\ undisturbed' = remembers
        /\ copied' = IF remembers THEN copied \cup writes ELSE {}
        /\ nested' = IF stack' # <<>> THEN nested ELSE 0

\* User code outside of any call begins a propagation; inside it disturbs one.
UserStepRemembered ==
    /\ UserStep
    /\ WithinBounds'
    /\ stack # <<>> => nested < MaxNested
    /\ undisturbed' = (stack = <<>> /\ stack' # <<>>)
    /\ copied' = {}
    /\ nested' = IF stack = <<>> THEN 0 ELSE nested + 1

Disturbance ==
    /\ HandlerThrow \/ WriteReturn(FALSE) \/ ReadReturn(FALSE)
    /\ Remember(FALSE, {})

ReceiveRemembered ==
    /\ Receive
    /\ Remember(Head(stack').phase = "writing", {})

WriteRemembered ==
    /\ WriteReturn(TRUE)
    /\ Remember(TRUE, {<<Head(stack).target, Head(stack).channel>>})

ReadRemembered ==
    /\ ReadReturn(TRUE)
    /\ Remember(Head(stack).phase = "written" /\ ~LimitReached, {})

OtherStep ==
    /\ HandlerReturn \/ RuntimeStep
    /\ Remember(TRUE, {})

NextWithHistory ==
    \/ UserStepRemembered
    \/ Disturbance
    \/ ReceiveRemembered
    \/ WriteRemembered
    \/ ReadRemembered
    \/ OtherStep

SpecWithHistory == InitWithHistory /\ [][NextWithHistory]_varsWithHistory

-----------------------------------------------------------------------------
(* What a propagation is for. *)

Subscribed == {channels[id] : id \in Registry!Ids} \ {NoSub}

\* The ways along subscriptions from channel c of n that pass no object twice.
Ways(n, c) ==
    {way \in UNION {[1 .. k -> Subscribed] : k \in 1 .. Cardinality(Subscribed)} :
        /\ way[1].source = n /\ way[1].sourceChannel = c
        /\ \A i \in 1 .. Len(way) - 1 :
              /\ way[i].target = way[i + 1].source
              /\ way[i].targetChannel = way[i + 1].sourceChannel
        /\ \A i, j \in 1 .. Len(way) : i # j => way[i].target # way[j].target
        /\ \A i \in 1 .. Len(way) : way[i].target # n}

Reached(n, c) ==
    {<<way[Len(way)].target, way[Len(way)].targetChannel>> : way \in Ways(n, c)}

\* An undisturbed change of a channel has been copied, when its outermost Publish
\* returns, to exactly the channels that subscriptions lead to without passing an
\* object twice: a cut branch costs its siblings nothing, no branch is entered
\* again because another one was there, and nothing else is written.
ChangeReturns ==
    /\ Len(stack) = 1 /\ stack' = <<>>
    /\ Top("publish") /\ Head(stack).channel # NoChannel

PropagationComplete ==
    [][undisturbed /\ ChangeReturns =>
          copied = Reached(Head(stack).source, Head(stack).channel)]_varsWithHistory
==============================================================================
