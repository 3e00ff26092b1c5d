------------------------ MODULE WebSocketServerProofs ------------------------
(***************************************************************************)
(* The peers of the server are shared between its two threads without a    *)
(* lock.  Here it is proved, for any number of connections, domains and    *)
(* frames, that they are never used by both at once, that none is left     *)
(* over, and that the messages on their way to a peer find it.             *)
(***************************************************************************)
EXTENDS WebSocketServer, SequenceTheorems, TLAPS

\* The frame in the hand belongs to a connection of the table, and Stop waits for it.
HandInv == hand # None => hand.conn \in connections /\ net # "ended"

\* No reset waits for a connection that is in the table or has not come yet.
QuietInv ==
    \A c \in Conns :
        c \in connections \/ transport[c] = "new" => \A t \in Waiting : ~Resets(t, c)

OpenInv == \A c \in connections : transport[c] # "new"

\* While Stop joins on the loop thread, the loop is in the task that called it.
StopInv == stop = "joining on the loop" => current = StopTask

\* The messages of a connection stand before its reset in the queue, so that none of
\* them is left when that runs.
FramesFirst ==
    /\ \A i, j \in DOMAIN pending :
          i < j => \A c \in Conns : Resets(pending[i], c) =>
                      ~(pending[j] \in Messages /\ pending[j].conn = c)
    /\ \A j \in DOMAIN pending, c \in Conns :
          Resets(current, c) => ~(pending[j] \in Messages /\ pending[j].conn = c)

ServerInv ==
    /\ TypeOK
    /\ HandInv
    /\ QuietInv
    /\ OpenInv
    /\ StopInv
    /\ PeersOwned
    /\ FramesFirst
    /\ FramesReachPeers

-----------------------------------------------------------------------------
(* The queue. *)

LEMMA NotAReset ==
    ASSUME NEW c \in Conns
    PROVE  /\ ~Resets(None, c)
           /\ ~Resets(StopTask, c)
           /\ \A m \in Messages : ~Resets(m, c)
  <1>1. ~Resets(None, c)
    BY NoneAssumption DEF Resets, Tasks
  <1>2. ~Resets(StopTask, c)
    <2>1. DOMAIN StopTask = {"op"}
      BY DEF StopTask
    <2>2. \A t \in [reset : SUBSET Conns] : DOMAIN t = {"reset"}
      OBVIOUS
    <2> QED
      BY <2>1, <2>2 DEF Resets
  <1>3. \A m \in Messages : ~Resets(m, c)
    <2>1. \A m \in Messages : DOMAIN m = {"conn", "frame"}
      BY DEF Messages
    <2>2. \A t \in [reset : SUBSET Conns] : DOMAIN t = {"reset"}
      OBVIOUS
    <2> QED
      BY <2>1, <2>2 DEF Resets
  <1> QED
    BY <1>1, <1>2, <1>3

\* A task that is submitted waits behind all others.
LEMMA SubmitWaits ==
    ASSUME pending \in Seq(Tasks), NEW t \in Tasks, Loop!Submit(t)
    PROVE  /\ pending' \in Seq(Tasks)
           /\ Waiting' = Waiting \cup {t}
           /\ DOMAIN pending' = DOMAIN pending \cup {Len(pending) + 1}
           /\ \A i \in DOMAIN pending : pending'[i] = pending[i] /\ i # Len(pending) + 1
           /\ pending'[Len(pending) + 1] = t
  <1>1. pending' = Append(pending, t) /\ current' = current
    BY DEF Loop!Submit
  <1>2. /\ pending' \in Seq(Tasks)
        /\ DOMAIN pending' = DOMAIN pending \cup {Len(pending) + 1}
        /\ \A i \in DOMAIN pending : pending'[i] = pending[i] /\ i # Len(pending) + 1
        /\ pending'[Len(pending) + 1] = t
    BY <1>1
  <1> QED
    BY <1>1, <1>2 DEF Waiting

\* The task that starts no longer stands in the queue, but still waits.
LEMMA StartWaits ==
    ASSUME pending \in Seq(Tasks), Loop!Start
    PROVE  /\ pending' \in Seq(Tasks) /\ current' \in Tasks
           /\ 1 \in DOMAIN pending /\ current' = pending[1]
           /\ Waiting = Waiting' \cup {None}
           /\ \A i \in DOMAIN pending' : i + 1 \in DOMAIN pending /\ pending'[i] = pending[i + 1]
  <1>1. /\ pending # <<>> /\ current = None
        /\ current' = Head(pending) /\ pending' = Tail(pending)
    BY DEF Loop!Start
  <1>2. /\ pending' \in Seq(Tasks) /\ current' \in Tasks
        /\ DOMAIN pending = 1 .. Len(pending) /\ Len(pending) \in Nat /\ Len(pending) > 0
        /\ DOMAIN pending' = 1 .. Len(pending) - 1
        /\ \A i \in DOMAIN pending' : i + 1 \in DOMAIN pending /\ pending'[i] = pending[i + 1]
        /\ current' = pending[1]
    BY <1>1
  <1>3. \A i \in DOMAIN pending :
          i # 1 => i - 1 \in DOMAIN pending' /\ pending[i] = pending'[i - 1]
    BY <1>2
  <1>4. {pending[i] : i \in DOMAIN pending} = {pending'[i] : i \in DOMAIN pending'} \cup {current'}
    <2>1. ASSUME NEW i \in DOMAIN pending
          PROVE  pending[i] \in {pending'[j] : j \in DOMAIN pending'} \cup {current'}
      BY <1>2, <1>3
    <2>2. ASSUME NEW i \in DOMAIN pending'
          PROVE  pending'[i] \in {pending[j] : j \in DOMAIN pending}
      BY <1>2
    <2>3. current' \in {pending[j] : j \in DOMAIN pending}
      BY <1>2
    <2> QED
      BY <2>1, <2>2, <2>3
  <1> QED
    BY <1>1, <1>2, <1>4 DEF Waiting

LEMMA FinishWaits ==
    ASSUME Loop!Finish
    PROVE  /\ pending' = pending /\ current' = None
           /\ \A t \in Waiting : t = current \/ t \in Waiting'
           /\ \A t \in Waiting' : t = None \/ t \in Waiting
  BY DEF Loop!Finish, Waiting

-----------------------------------------------------------------------------
(* What the three ways in which the queue changes keep. *)

\* Nothing changes it.
LEMMA QueueStands ==
    ASSUME ServerInv, UNCHANGED executor
    PROVE  /\ Waiting' = Waiting
           /\ pending' \in Seq(Tasks) /\ current' \in Tasks \cup {None}
           /\ FramesFirst'
  BY DEF ServerInv, TypeOK, executor, Waiting, FramesFirst, Resets

\* A message of a connection that no reset waits for.
LEMMA MessageSubmitted ==
    ASSUME ServerInv, NEW m \in Messages, m.conn \in connections, Loop!Submit(m)
    PROVE  /\ pending' \in Seq(Tasks) /\ current' \in Tasks \cup {None}
           /\ \A c \in Conns, t \in Waiting' : Resets(t, c) => t \in Waiting
           /\ Waiting \subseteq Waiting'
           /\ FramesFirst'
  <1>1. m \in Tasks /\ m.conn \in Conns
    BY DEF Tasks, Messages
  <1>2. pending \in Seq(Tasks)
    BY DEF ServerInv, TypeOK
  <1>3. current' = current /\ current \in Tasks \cup {None}
    BY DEF Loop!Submit, ServerInv, TypeOK
  <1>4. ASSUME NEW j \in DOMAIN pending', NEW c \in Conns, Resets(current', c),
               pending'[j] \in Messages, pending'[j].conn = c
        PROVE  FALSE
    <2>1. Resets(current, c) /\ current \in Waiting
      BY <1>3, <1>4 DEF Waiting
    <2>2. CASE j \in DOMAIN pending
      BY <1>1, <1>2, <1>4, <2>1, <2>2, SubmitWaits DEF ServerInv, FramesFirst
    <2>3. CASE j \notin DOMAIN pending
      <3>1. pending'[j] = m
        BY <1>1, <1>2, <2>3, SubmitWaits
      <3> QED
        BY <1>4, <2>1, <3>1 DEF ServerInv, QuietInv
    <2> QED
      BY <2>2, <2>3
  <1>5. FramesFirst'
    <2> SUFFICES ASSUME NEW i \in DOMAIN pending', NEW j \in DOMAIN pending', i < j,
                        NEW c \in Conns, Resets(pending'[i], c),
                        pending'[j] \in Messages, pending'[j].conn = c
                 PROVE  FALSE
      BY <1>4 DEF FramesFirst, Resets
    <2>1. i \in DOMAIN pending /\ pending'[i] = pending[i]
      BY <1>1, <1>2, SubmitWaits, NotAReset
    <2>2. CASE j \in DOMAIN pending
      BY <1>1, <1>2, <2>1, <2>2, SubmitWaits DEF ServerInv, FramesFirst
    <2>3. CASE j \notin DOMAIN pending
      <3>1. pending'[j] = m
        BY <1>1, <1>2, <2>3, SubmitWaits
      <3>2. pending[i] \in Waiting
        BY <2>1 DEF Waiting
      <3> QED
        BY <2>1, <3>1, <3>2 DEF ServerInv, QuietInv
    <2> QED
      BY <2>2, <2>3
  <1> QED
    BY <1>1, <1>2, <1>3, <1>5, SubmitWaits, NotAReset

\* A task that is no message.
LEMMA OtherSubmitted ==
    ASSUME ServerInv, NEW t \in Tasks, t \notin Messages, Loop!Submit(t)
    PROVE  /\ pending' \in Seq(Tasks) /\ current' \in Tasks \cup {None}
           /\ Waiting' = Waiting \cup {t}
           /\ FramesFirst'
  <1>1. pending \in Seq(Tasks)
    BY DEF ServerInv, TypeOK
  <1>2. current' = current /\ current \in Tasks \cup {None}
    BY DEF Loop!Submit, ServerInv, TypeOK
  <1>3. ASSUME NEW j \in DOMAIN pending', pending'[j] \in Messages
        PROVE  j \in DOMAIN pending /\ pending'[j] = pending[j]
    BY <1>1, <1>3, SubmitWaits
  <1>4. FramesFirst'
    <2> SUFFICES ASSUME NEW i \in DOMAIN pending', NEW j \in DOMAIN pending', i < j,
                        NEW c \in Conns, Resets(pending'[i], c),
                        pending'[j] \in Messages, pending'[j].conn = c
                 PROVE  FALSE
      BY <1>2, <1>3 DEF FramesFirst, Resets, ServerInv
    <2>1. j \in DOMAIN pending /\ pending'[j] = pending[j]
      BY <1>3
    <2>2. i \in DOMAIN pending /\ pending'[i] = pending[i]
      <3>1. i # Len(pending) + 1
        BY <1>1, <2>1
      <3> QED
        BY <1>1, <3>1, SubmitWaits
    <2> QED
      BY <2>1, <2>2 DEF ServerInv, FramesFirst
  <1> QED
    BY <1>1, <1>2, <1>4, SubmitWaits

\* The current task ends, and none starts.
LEMMA TaskFinished ==
    ASSUME ServerInv, Loop!Finish
    PROVE  /\ pending' \in Seq(Tasks) /\ current' \in Tasks \cup {None}
           /\ \A c \in Conns, t \in Waiting' : Resets(t, c) => t \in Waiting
           /\ \A t \in Waiting : t = current \/ t \in Waiting'
           /\ FramesFirst'
  <1>1. pending' = pending /\ current' = None
    BY FinishWaits
  <1>2. FramesFirst'
    BY <1>1, NotAReset DEF ServerInv, FramesFirst, Resets
  <1> QED
    BY <1>1, <1>2, FinishWaits, NotAReset DEF ServerInv, TypeOK

\* Where no message is new, the peers stand and Stop does not begin over, messages
\* find their peers as before.
LEMMA PeersStand ==
    ASSUME ServerInv, \A t \in Waiting' : t \in Messages => t \in Waiting,
           \A c \in Conns : peer[c] # "none" => peer'[c] # "none",
           stop = "returned on the loop" => stop' = stop
    PROVE  FramesReachPeers'
  <1>1. \A t \in Messages : t.conn \in Conns
    BY DEF Messages
  <1> QED
    BY <1>1 DEF ServerInv, FramesReachPeers

-----------------------------------------------------------------------------
(* The actions. *)

LEMMA ServerInit == Init => ServerInv
  <1> SUFFICES ASSUME Init PROVE ServerInv
    OBVIOUS
  <1>1. pending = <<>> /\ current = None /\ stopping = FALSE /\ inLoop = FALSE
    BY DEF Init, Loop!Init
  <1>2. Waiting = {None}
    BY <1>1 DEF Waiting
  <1>3. TypeOK
    <2>1. frames \in 0 .. MaxFrames
      BY BoundsAssumption DEF Init
    <2>2. pending \in Seq(Tasks) /\ current \in Tasks \cup {None}
      BY <1>1
    <2> QED
      BY <1>1, <2>1, <2>2 DEF Init, TypeOK
  <1>4. HandInv /\ OpenInv /\ StopInv /\ PeersOwned
    BY DEF Init, HandInv, OpenInv, StopInv, PeersOwned
  <1>5. QuietInv
    BY <1>2, NotAReset DEF QuietInv
  <1>6. FramesFirst
    BY <1>1, NotAReset DEF FramesFirst
  <1>7. None \notin Messages
    BY NoneAssumption DEF Tasks
  <1>8. FramesReachPeers
    BY <1>2, <1>7 DEF FramesReachPeers
  <1> QED
    BY <1>3, <1>4, <1>5, <1>6, <1>8 DEF ServerInv

LEMMA BindDomainKeeps ==
    ASSUME ServerInv, NEW d \in Domains, BindDomain(d)
    PROVE  ServerInv'
  <1> USE DEF BindDomain
  <1>1. TypeOK'
    BY QueueStands DEF ServerInv, TypeOK, executor
  <1>2. HandInv' /\ OpenInv' /\ StopInv' /\ PeersOwned' /\ QuietInv'
    BY QueueStands DEF ServerInv, HandInv, OpenInv, StopInv, PeersOwned, QuietInv, executor, Resets
  <1>3. FramesReachPeers'
    BY QueueStands, PeersStand DEF executor
  <1> QED
    BY <1>3, <1>1, <1>2, QueueStands DEF ServerInv

LEMMA OnOpenKeeps ==
    ASSUME ServerInv, NEW c \in Conns, OnOpen(c)
    PROVE  ServerInv'
  <1> USE DEF OnOpen, NetFree
  <1>1. TypeOK'
    BY QueueStands DEF ServerInv, TypeOK, executor
  <1>2. HandInv' /\ OpenInv' /\ StopInv'
    BY DEF ServerInv, TypeOK, HandInv, OpenInv, StopInv, executor
  <1>3. PeersOwned' /\ QuietInv'
    BY QueueStands DEF ServerInv, TypeOK, PeersOwned, QuietInv, Resets
  <1>4. FramesReachPeers'
    BY QueueStands, PeersStand DEF executor
  <1> QED
    BY <1>4, <1>1, <1>2, <1>3, QueueStands DEF ServerInv

LEMMA OnCloseKeeps ==
    ASSUME ServerInv, NEW c \in Conns, OnClose(c)
    PROVE  ServerInv'
  <1> USE DEF OnClose, NetFree
  <1> DEFINE task == [reset |-> {c}]
  <1>1. task \in Tasks /\ task \notin Messages
    <2>1. DOMAIN task = {"reset"} /\ \A m \in Messages : DOMAIN m = {"conn", "frame"}
      BY DEF Messages
    <2> QED
      BY <2>1 DEF Tasks
  <1>2. /\ pending' \in Seq(Tasks) /\ current' \in Tasks \cup {None}
        /\ Waiting' = Waiting \cup {task} /\ FramesFirst'
    BY <1>1, OtherSubmitted
  <1>3. \A d \in Conns : Resets(task, d) <=> d = c
    BY DEF Resets
  <1>4. TypeOK'
    BY <1>2 DEF ServerInv, TypeOK, Loop!Submit
  <1>5. HandInv' /\ OpenInv' /\ StopInv'
    BY DEF ServerInv, TypeOK, HandInv, OpenInv, StopInv, Loop!Submit
  <1> HIDE DEF task
  <1>6. PeersOwned'
    BY <1>2, <1>3 DEF ServerInv, PeersOwned, Resets
  <1>7. QuietInv'
    <2> SUFFICES ASSUME NEW d \in Conns, d \in connections' \/ transport'[d] = "new",
                        NEW t \in Waiting', Resets(t, d)
                 PROVE  FALSE
      BY DEF QuietInv, Resets
    <2>1. d # c /\ (d \in connections \/ transport[d] = "new")
      BY DEF ServerInv, TypeOK
    <2> QED
      BY <1>2, <1>3, <2>1 DEF ServerInv, QuietInv
  <1>8. FramesReachPeers'
    BY <1>1, <1>2, PeersStand
  <1> QED
    BY <1>8, <1>2, <1>4, <1>5, <1>6, <1>7 DEF ServerInv

LEMMA FindConnectionKeeps ==
    ASSUME ServerInv, NEW c \in Conns, NEW frame \in Frames, FindConnection(c, frame)
    PROVE  ServerInv'
  <1> USE DEF FindConnection, NetFree
  <1>1. TypeOK'
    <2>1. frames' \in 0 .. MaxFrames
      <3>1. frames \in 0 .. MaxFrames /\ frames < MaxFrames /\ frames' = frames + 1
        BY DEF ServerInv, TypeOK
      <3> QED
        BY <3>1, BoundsAssumption
    <2>2. hand' \in Messages
      BY DEF Messages
    <2> QED
      BY <2>1, <2>2, QueueStands DEF ServerInv, TypeOK, executor, tables
  <1>2. HandInv' /\ OpenInv' /\ StopInv' /\ PeersOwned' /\ QuietInv'
    BY QueueStands
       DEF ServerInv, HandInv, OpenInv, StopInv, PeersOwned, QuietInv, executor, tables, Resets
  <1>3. FramesReachPeers'
    BY QueueStands, PeersStand DEF executor, tables
  <1> QED
    BY <1>3, <1>1, <1>2, QueueStands DEF ServerInv

LEMMA RejectTextKeeps ==
    ASSUME ServerInv, NEW c \in Conns, RejectText(c)
    PROVE  ServerInv'
  <1> USE DEF RejectText, NetFree
  <1>1. TypeOK'
    <2>1. frames' \in 0 .. MaxFrames
      <3>1. frames \in 0 .. MaxFrames /\ frames < MaxFrames /\ frames' = frames + 1
        BY DEF ServerInv, TypeOK
      <3> QED
        BY <3>1, BoundsAssumption
    <2> QED
      BY <2>1, QueueStands DEF ServerInv, TypeOK, executor, tables
  <1>2. \A d \in Conns : transport'[d] = "new" <=> transport[d] = "new"
    BY DEF ServerInv, TypeOK
  <1>3. HandInv' /\ OpenInv' /\ StopInv' /\ PeersOwned' /\ QuietInv'
    <2>1. connections \subseteq Conns /\ Waiting' = Waiting
      BY QueueStands DEF ServerInv, TypeOK
    <2> QED
      BY <1>2, <2>1
         DEF ServerInv, HandInv, OpenInv, StopInv, PeersOwned, QuietInv, executor, tables, Resets
  <1>4. FramesReachPeers'
    BY QueueStands, PeersStand DEF executor, tables
  <1> QED
    BY <1>4, <1>1, <1>3, QueueStands DEF ServerInv

LEMMA RejectKeeps ==
    ASSUME ServerInv, Reject
    PROVE  ServerInv'
  <1> USE DEF Reject
  <1>1. hand \in Messages /\ hand.conn \in Conns /\ hand.conn \in connections
    BY DEF ServerInv, TypeOK, HandInv, Messages
  <1>2. TypeOK'
    BY <1>1, QueueStands DEF ServerInv, TypeOK, executor, tables
  <1>3. \A d \in Conns : transport'[d] = "new" => transport[d] = "new"
    BY <1>1 DEF ServerInv, TypeOK
  <1>4. HandInv' /\ OpenInv' /\ StopInv' /\ PeersOwned' /\ QuietInv'
    BY <1>1, <1>3, QueueStands
       DEF ServerInv, TypeOK, HandInv, OpenInv, StopInv, PeersOwned, QuietInv, executor, tables, Resets
  <1>5. FramesReachPeers'
    BY QueueStands, PeersStand DEF executor, tables
  <1> QED
    BY <1>5, <1>2, <1>4, QueueStands DEF ServerInv

LEMMA ForwardKeeps ==
    ASSUME ServerInv, Forward
    PROVE  ServerInv'
  <1> USE DEF Forward
  <1>1. hand \in Messages /\ hand.conn \in Conns /\ hand.conn \in connections
    BY DEF ServerInv, TypeOK, HandInv, Messages
  <1>2. /\ pending' \in Seq(Tasks) /\ current' \in Tasks \cup {None}
        /\ \A c \in Conns, t \in Waiting' : Resets(t, c) => t \in Waiting
        /\ Waiting \subseteq Waiting'
        /\ FramesFirst'
    BY <1>1, MessageSubmitted
  <1>3. TypeOK'
    BY <1>1, <1>2 DEF ServerInv, TypeOK, Loop!Submit, PeekConnectDomain
  <1>4. HandInv' /\ OpenInv' /\ StopInv'
    BY DEF ServerInv, HandInv, OpenInv, StopInv, Loop!Submit
  <1>5. PeersOwned'
    <2> SUFFICES ASSUME NEW c \in Conns, peer'[c] # "none", c \notin connections
                 PROVE  \E t \in Waiting' : Resets(t, c)
      BY DEF PeersOwned, Resets
    <2>1. peer[c] # "none"
      BY <1>1 DEF ServerInv, TypeOK
    <2> QED
      BY <1>2, <2>1 DEF ServerInv, PeersOwned
  <1>6. QuietInv'
    BY <1>2 DEF ServerInv, QuietInv, Resets
  <1>7. FramesReachPeers'
    <2> SUFFICES ASSUME NEW t \in Waiting', t \in Messages,
                        stop # "returned on the loop"
                 PROVE  peer'[t.conn] # "none"
      BY DEF FramesReachPeers
    <2>1. t = hand \/ t \in Waiting
      <3>1. hand \in Tasks /\ pending \in Seq(Tasks) /\ Loop!Submit(hand)
        BY <1>1 DEF ServerInv, TypeOK, Tasks
      <3>2. Waiting' = Waiting \cup {hand}
        BY <3>1, SubmitWaits
      <3> QED
        BY <3>2
    <2>2. t.conn \in Conns /\ \A c \in Conns : peer[c] # "none" => peer'[c] # "none"
      BY <1>1 DEF Messages, ServerInv, TypeOK
    <2>3. peer'[hand.conn] # "none"
      BY <1>1 DEF ServerInv, TypeOK
    <2> QED
      BY <2>1, <2>2, <2>3 DEF ServerInv, FramesReachPeers
  <1> QED
    BY <1>7, <1>2, <1>3, <1>4, <1>5, <1>6 DEF ServerInv

LEMMA NetEndsKeeps ==
    ASSUME ServerInv, NetEnds
    PROVE  ServerInv'
  <1> USE DEF NetEnds
  <1>1. TypeOK'
    BY QueueStands DEF ServerInv, TypeOK, executor, tables
  <1>2. HandInv' /\ OpenInv' /\ StopInv' /\ PeersOwned' /\ QuietInv'
    BY QueueStands
       DEF ServerInv, HandInv, OpenInv, StopInv, PeersOwned, QuietInv, executor, tables, Resets
  <1>3. FramesReachPeers'
    BY QueueStands, PeersStand DEF executor, tables
  <1> QED
    BY <1>3, <1>1, <1>2, QueueStands DEF ServerInv

LEMMA EnterLoopKeeps ==
    ASSUME ServerInv, EnterLoop
    PROVE  ServerInv'
  <1>1. /\ pending' = pending /\ current' = current /\ stopping' = stopping
        /\ inLoop' = TRUE /\ Waiting' = Waiting
    BY DEF EnterLoop, Loop!EnterLoop, Waiting
  <1>2. TypeOK'
    BY <1>1 DEF EnterLoop, ServerInv, TypeOK, tables
  <1>3. HandInv' /\ OpenInv' /\ StopInv' /\ PeersOwned' /\ QuietInv' /\ FramesFirst'
    BY <1>1 DEF EnterLoop, ServerInv, HandInv, OpenInv, StopInv, PeersOwned, QuietInv,
                FramesFirst, tables, Resets
  <1>4. FramesReachPeers'
    BY <1>1, PeersStand DEF EnterLoop, tables
  <1> QED
    BY <1>4, <1>2, <1>3 DEF ServerInv

LEMMA StartKeeps ==
    ASSUME ServerInv, Start
    PROVE  ServerInv'
  <1>1. /\ pending' \in Seq(Tasks) /\ current' \in Tasks
        /\ 1 \in DOMAIN pending /\ current' = pending[1]
        /\ Waiting = Waiting' \cup {None}
        /\ \A i \in DOMAIN pending' : i + 1 \in DOMAIN pending /\ pending'[i] = pending[i + 1]
    BY StartWaits DEF Start, ServerInv, TypeOK
  <1>2. current = None /\ inLoop' = inLoop /\ stopping' = stopping
    BY DEF Start, Loop!Start
  <1>3. TypeOK'
    BY <1>1, <1>2 DEF Start, ServerInv, TypeOK, tables
  <1>4. StopInv'
    BY <1>2, NoneAssumption DEF Start, ServerInv, StopInv, Tasks
  <1>5. HandInv' /\ OpenInv' /\ PeersOwned' /\ QuietInv'
    BY <1>1, NotAReset
       DEF Start, ServerInv, HandInv, OpenInv, PeersOwned, QuietInv, tables, Resets
  <1>6. FramesFirst'
    <2>1. \A i, j \in DOMAIN pending' : (i < j => i + 1 < j + 1) /\ 1 < j + 1
      BY <1>1
    <2> QED
      BY <1>1, <2>1 DEF ServerInv, FramesFirst, Resets
  <1>7. FramesReachPeers'
    BY <1>1, PeersStand DEF Start, tables
  <1> QED
    BY <1>7, <1>1, <1>3, <1>4, <1>5, <1>6 DEF ServerInv

LEMMA RunMessageKeeps ==
    ASSUME ServerInv, RunMessage
    PROVE  ServerInv'
  <1> DEFINE c == current.conn
  <1>1. current \in Messages /\ c \in Conns
    BY DEF RunMessage, Messages
  <1>2. /\ pending' \in Seq(Tasks) /\ current' \in Tasks \cup {None}
        /\ \A d \in Conns, t \in Waiting' : Resets(t, d) => t \in Waiting
        /\ \A t \in Waiting : t = current \/ t \in Waiting'
        /\ FramesFirst'
    BY TaskFinished DEF RunMessage
  <1>3. /\ peer' \in [Conns -> {"none", "idle", "session", "shut"}]
        /\ \A d \in Conns : peer[d] = "none" <=> peer'[d] = "none"
    <2>1. PICK p \in Received(c, current.frame) : peer' = [peer EXCEPT ![c] = p]
      BY DEF RunMessage
    <2>2. p \in {"none", "idle", "session", "shut"} /\ (peer[c] = "none" <=> p = "none")
      BY <1>1, <2>1 DEF Received, Connected, ServerInv, TypeOK
    <2> QED
      BY <1>1, <2>1, <2>2 DEF ServerInv, TypeOK
  <1>5. TypeOK'
    BY <1>2, <1>3 DEF RunMessage, ServerInv, TypeOK, Loop!Finish
  <1>6. HandInv' /\ OpenInv'
    BY DEF RunMessage, ServerInv, HandInv, OpenInv
  <1>7. StopInv'
    <2>1. current # StopTask
      <3>1. DOMAIN StopTask = {"op"} /\ \A m \in Messages : DOMAIN m = {"conn", "frame"}
        BY DEF StopTask, Messages
      <3> QED
        BY <1>1, <3>1
    <2> QED
      BY <2>1 DEF RunMessage, ServerInv, StopInv
  <1>8. QuietInv'
    BY <1>2 DEF RunMessage, ServerInv, QuietInv, Resets
  <1>9. PeersOwned'
    <2> SUFFICES ASSUME NEW d \in Conns, peer'[d] # "none", d \notin connections
                 PROVE  \E t \in Waiting' : Resets(t, d)
      BY DEF RunMessage, PeersOwned, Resets
    <2>1. PICK t \in Waiting : Resets(t, d)
      BY <1>3 DEF ServerInv, PeersOwned
    <2> QED
      BY <1>1, <1>2, <2>1, NotAReset
  <1>10. FramesReachPeers'
    <2>1. None \notin Messages
      BY NoneAssumption DEF Tasks
    <2>2. \A t \in Waiting' : t \in Messages => t \in Waiting
      BY <2>1, FinishWaits DEF RunMessage
    <2> QED
      BY <1>3, <2>2, PeersStand DEF RunMessage
  <1> QED
    BY <1>10, <1>2, <1>5, <1>6, <1>7, <1>8, <1>9 DEF ServerInv

LEMMA RunResetKeeps ==
    ASSUME ServerInv, RunReset
    PROVE  ServerInv'
  <1>1. /\ pending' \in Seq(Tasks) /\ current' \in Tasks \cup {None}
        /\ \A d \in Conns, t \in Waiting' : Resets(t, d) => t \in Waiting
        /\ \A t \in Waiting : t = current \/ t \in Waiting'
        /\ FramesFirst'
    BY TaskFinished DEF RunReset
  <1>2. /\ peer' \in [Conns -> {"none", "idle", "session", "shut"}]
        /\ \A d \in Conns : peer'[d] # "none" => d \notin current.reset /\ peer[d] = peer'[d]
    BY DEF RunReset, Reset, ServerInv, TypeOK
  <1>3. TypeOK'
    BY <1>1, <1>2 DEF RunReset, ServerInv, TypeOK, Loop!Finish
  <1>4. HandInv' /\ OpenInv'
    BY DEF RunReset, ServerInv, HandInv, OpenInv
  <1>5. StopInv'
    <2>1. current # StopTask
      <3>1. DOMAIN StopTask = {"op"} /\ \A t \in [reset : SUBSET Conns] : DOMAIN t = {"reset"}
        BY DEF StopTask
      <3> QED
        BY <3>1 DEF RunReset
    <2> QED
      BY <2>1 DEF RunReset, ServerInv, StopInv
  <1>6. QuietInv'
    BY <1>1 DEF RunReset, ServerInv, QuietInv, Resets
  <1>7. PeersOwned'
    <2> SUFFICES ASSUME NEW d \in Conns, peer'[d] # "none", d \notin connections
                 PROVE  \E t \in Waiting' : Resets(t, d)
      BY DEF RunReset, PeersOwned, Resets
    <2>1. PICK t \in Waiting : Resets(t, d)
      BY <1>2 DEF ServerInv, PeersOwned
    <2>2. t # current
      BY <1>2, <2>1 DEF Resets
    <2> QED
      BY <1>1, <2>1, <2>2
  <1>8. FramesReachPeers'
    <2> SUFFICES ASSUME NEW t \in Waiting', t \in Messages,
                        stop # "returned on the loop"
                 PROVE  peer'[t.conn] # "none"
      BY DEF FramesReachPeers, RunReset
    <2>1. PICK j \in DOMAIN pending : t = pending[j]
      <3>1. t # None
        BY NoneAssumption DEF Tasks
      <3> QED
        BY <3>1 DEF RunReset, Loop!Finish, Waiting
    <2>2. t.conn \in Conns /\ t \in Waiting
      BY <2>1 DEF Messages, Waiting
    <2>3. peer[t.conn] # "none"
      BY <2>2 DEF ServerInv, FramesReachPeers
    <2>4. t.conn \notin current.reset
      BY <2>1, <2>2 DEF RunReset, ServerInv, FramesFirst, Resets
    <2> QED
      BY <2>2, <2>3, <2>4 DEF RunReset, Reset
  <1> QED
    BY <1>8, <1>1, <1>3, <1>4, <1>5, <1>6, <1>7 DEF ServerInv

LEMMA PostStopKeeps ==
    ASSUME ServerInv, PostStop
    PROVE  ServerInv'
  <1>1. StopTask \in Tasks /\ StopTask \notin Messages
    <2>1. DOMAIN StopTask = {"op"} /\ \A m \in Messages : DOMAIN m = {"conn", "frame"}
      BY DEF StopTask, Messages
    <2> QED
      BY <2>1 DEF Tasks
  <1>2. /\ pending' \in Seq(Tasks) /\ current' \in Tasks \cup {None}
        /\ Waiting' = Waiting \cup {StopTask} /\ FramesFirst'
    BY <1>1, OtherSubmitted DEF PostStop
  <1>3. TypeOK'
    BY <1>2 DEF PostStop, ServerInv, TypeOK, tables, Loop!Submit
  <1>4. HandInv' /\ OpenInv' /\ StopInv' /\ PeersOwned' /\ QuietInv'
    BY <1>2, NotAReset
       DEF PostStop, ServerInv, HandInv, OpenInv, StopInv, PeersOwned, QuietInv, tables, Resets
  <1>5. FramesReachPeers'
    BY <1>1, <1>2, PeersStand DEF PostStop, tables
  <1> QED
    BY <1>5, <1>2, <1>3, <1>4 DEF ServerInv

\* RunStop and CallStop: Stop begins to join the network thread.
LEMMA StopBeginsKeeps ==
    ASSUME ServerInv, RunStop \/ CallStop
    PROVE  ServerInv'
  <1>1. net' \in {net, "stopping"} /\ (net = "ended" => net' = "ended")
    BY DEF RunStop, CallStop, StopNet
  <1>2. UNCHANGED <<tables, transport, hand, frames, executor>>
    BY DEF RunStop, CallStop
  <1>3. /\ stop' \in {"joining", "joining on the loop"}
        /\ stop' = "joining on the loop" => current = StopTask
    BY DEF RunStop, CallStop
  <1>4. TypeOK'
    BY <1>1, <1>2, <1>3 DEF ServerInv, TypeOK, tables, executor
  <1>5. HandInv' /\ OpenInv' /\ StopInv' /\ PeersOwned' /\ QuietInv'
    BY <1>1, <1>2, <1>3, QueueStands
       DEF ServerInv, HandInv, OpenInv, StopInv, PeersOwned, QuietInv, tables, executor, Resets
  <1>6. FramesReachPeers'
    BY <1>2, QueueStands, PeersStand DEF tables, RunStop, CallStop
  <1> QED
    BY <1>6, <1>2, <1>4, <1>5, QueueStands DEF ServerInv

LEMMA FinishStopOnLoopKeeps ==
    ASSUME ServerInv, FinishStopOnLoop
    PROVE  ServerInv'
  <1>1. /\ pending' \in Seq(Tasks) /\ current' \in Tasks \cup {None}
        /\ \A d \in Conns, t \in Waiting' : Resets(t, d) => t \in Waiting
        /\ \A t \in Waiting : t = current \/ t \in Waiting'
        /\ FramesFirst'
    BY TaskFinished DEF FinishStopOnLoop
  <1>2. /\ peer' \in [Conns -> {"none", "idle", "session", "shut"}]
        /\ \A d \in Conns : peer'[d] # "none" => d \notin connections /\ peer[d] = peer'[d]
    BY DEF FinishStopOnLoop, Reset, ServerInv, TypeOK
  <1>3. TypeOK'
    BY <1>1, <1>2 DEF FinishStopOnLoop, ServerInv, TypeOK, Loop!Finish
  <1>4. HandInv' /\ OpenInv' /\ StopInv'
    BY DEF FinishStopOnLoop, ServerInv, HandInv, OpenInv, StopInv
  <1>5. QuietInv'
    BY <1>1 DEF FinishStopOnLoop, ServerInv, QuietInv, Resets
  <1>6. PeersOwned'
    <2> SUFFICES ASSUME NEW d \in Conns, peer'[d] # "none"
                 PROVE  \E t \in Waiting' : Resets(t, d)
      BY DEF FinishStopOnLoop, PeersOwned, Resets
    <2>1. PICK t \in Waiting : Resets(t, d)
      BY <1>2 DEF ServerInv, PeersOwned
    <2>2. current = StopTask
      BY DEF FinishStopOnLoop, ServerInv, StopInv
    <2> QED
      BY <1>1, <2>1, <2>2, NotAReset
  <1>7. FramesReachPeers'
    BY DEF FinishStopOnLoop, FramesReachPeers
  <1> QED
    BY <1>7, <1>1, <1>3, <1>4, <1>5, <1>6 DEF ServerInv

LEMMA FinishStopKeeps ==
    ASSUME ServerInv, FinishStop
    PROVE  ServerInv'
  <1> DEFINE task == [reset |-> connections]
  <1>1. hand = None /\ connections \in SUBSET Conns
    BY DEF FinishStop, ServerInv, HandInv, TypeOK
  <1>2. HandInv' /\ OpenInv' /\ StopInv'
    BY <1>1 DEF FinishStop, HandInv, OpenInv, StopInv
  <1>3. CASE connections = {}
    <2>1. UNCHANGED executor
      BY <1>3 DEF FinishStop
    <2>2. TypeOK'
      BY <2>1, QueueStands DEF FinishStop, ServerInv, TypeOK, executor
    <2>3. PeersOwned' /\ QuietInv'
      BY <1>3, <2>1, QueueStands DEF FinishStop, ServerInv, PeersOwned, QuietInv, Resets
    <2>4. FramesReachPeers'
      BY <2>1, QueueStands, PeersStand DEF FinishStop
    <2> QED
      BY <1>2, <2>1, <2>2, <2>3, <2>4, QueueStands DEF ServerInv
  <1>4. CASE connections # {}
    <2>1. task \in Tasks /\ task \notin Messages
      <3>1. DOMAIN task = {"reset"} /\ \A m \in Messages : DOMAIN m = {"conn", "frame"}
        BY DEF Messages
      <3> QED
        BY <1>1, <3>1 DEF Tasks
    <2>2. Loop!Submit(task)
      BY <1>4 DEF FinishStop
    <2>3. /\ pending' \in Seq(Tasks) /\ current' \in Tasks \cup {None}
          /\ Waiting' = Waiting \cup {task} /\ FramesFirst'
      BY <2>1, <2>2, OtherSubmitted
    <2>4. \A d \in Conns : Resets(task, d) <=> d \in connections
      BY <1>1 DEF Resets
    <2>5. TypeOK'
      BY <2>2, <2>3 DEF FinishStop, ServerInv, TypeOK, Loop!Submit
    <2> HIDE DEF task
    <2>6. PeersOwned'
      BY <2>3, <2>4 DEF FinishStop, ServerInv, PeersOwned, Resets
    <2>7. QuietInv'
      <3> SUFFICES ASSUME NEW d \in Conns, transport[d] = "new", NEW t \in Waiting', Resets(t, d)
                   PROVE  FALSE
        BY DEF FinishStop, QuietInv, Resets
      <3> QED
        BY <2>3, <2>4 DEF ServerInv, QuietInv, OpenInv
    <2>8. FramesReachPeers'
      BY <2>1, <2>3, PeersStand DEF FinishStop
    <2> QED
      BY <1>2, <2>3, <2>5, <2>6, <2>7, <2>8 DEF ServerInv
  <1> QED
    BY <1>3, <1>4

LEMMA ServerStep == ServerInv /\ [Next]_vars => ServerInv'
  <1> SUFFICES ASSUME ServerInv, [Next]_vars PROVE ServerInv'
    OBVIOUS
  <1>1. CASE Network
    BY <1>1, OnOpenKeeps, OnCloseKeeps, RejectTextKeeps, FindConnectionKeeps, RejectKeeps,
       ForwardKeeps, NetEndsKeeps DEF Network
  <1>2. CASE LoopThread
    BY <1>2, EnterLoopKeeps, StartKeeps, RunMessageKeeps, RunResetKeeps, StopBeginsKeeps,
       FinishStopOnLoopKeeps DEF LoopThread
  <1>3. CASE Host
    BY <1>3, BindDomainKeeps, PostStopKeeps, StopBeginsKeeps, FinishStopKeeps DEF Host
  <1>4. CASE UNCHANGED vars
    <2>1. UNCHANGED <<tables, transport, net, hand, stop, frames, executor>>
      BY <1>4 DEF vars
    <2>2. TypeOK'
      BY <2>1, QueueStands DEF ServerInv, TypeOK, tables, executor
    <2>3. HandInv' /\ OpenInv' /\ StopInv' /\ PeersOwned' /\ QuietInv'
      BY <2>1, QueueStands
         DEF ServerInv, HandInv, OpenInv, StopInv, PeersOwned, QuietInv, tables, executor, Resets
    <2>4. FramesReachPeers'
      BY <2>1, QueueStands, PeersStand DEF tables
    <2> QED
      BY <2>1, <2>2, <2>3, <2>4, QueueStands DEF ServerInv
  <1> QED
    BY <1>1, <1>2, <1>3, <1>4 DEF Next

LEMMA ServerCorrect == Spec => []ServerInv
  BY ServerInit, ServerStep, PTL DEF Spec

-----------------------------------------------------------------------------
(* The results. *)

\* While onMessage works with a peer, no reset of it waits, and Stop has not gone on.
THEOREM PeersUnshared == Spec => []PeerUnshared
  <1>1. ServerInv => PeerUnshared
    BY DEF ServerInv, TypeOK, HandInv, QuietInv, PeerUnshared, Messages
  <1> QED
    BY <1>1, ServerCorrect, PTL

\* Every peer is reachable from the table or from a waiting reset: none leaks.
THEOREM NoPeerLeaks == Spec => []PeersOwned
  <1>1. ServerInv => PeersOwned
    BY DEF ServerInv
  <1> QED
    BY <1>1, ServerCorrect, PTL

\* Every message on its way to the loop finds the peer that onMessage made or found for
\* it, whatever closes before, unless Stop has returned on the loop thread.
THEOREM FramesBeforeEnd == Spec => []FramesReachPeers
  <1>1. ServerInv => FramesReachPeers
    BY DEF ServerInv
  <1> QED
    BY <1>1, ServerCorrect, PTL

\* The server is well typed, and every peer was made for a domain.
THEOREM ServerTypeCorrect == Spec => []TypeOK
  <1>1. ServerInv => TypeOK
    BY DEF ServerInv
  <1> QED
    BY <1>1, ServerCorrect, PTL

=============================================================================
