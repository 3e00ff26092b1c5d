------------------------- MODULE IObjectClientProofs -------------------------
(***************************************************************************)
(* What a client that is closed, or that connect has given up, may still   *)
(* keep, and which events reach their handlers.  The proof is for any      *)
(* number of requests and events, and for sockets that give every frame a  *)
(* task of its own as well as for those that hand over several in one.     *)
(***************************************************************************)
EXTENDS IObjectClient, TLAPS

\* What may be pending, or waiting to run, at each stage of connect.  Only where frames
\* share a task may one that stores a handler be left when the client is closed.
StageInv ==
    /\ stage \in {"opening", "opened", "answered", "failing"} => pending = {}
    /\ stage \in {"opening", "handshake", "failed"} => tasks = <<>>
    /\ stage = "opened" => tasks = <<Task("opened", 0)>>
    /\ stage = "answered" => tasks = <<Task("connected", 0)>>
    /\ stage = "failing" => tasks = <<Task("failed", 0)>>
    /\ stage = "handshake" => \A r, q \in pending : r.op = "Connect" /\ r = q
    /\ stage = "ready" =>
          /\ \A i \in 1 .. Len(tasks) : tasks[i].kind = "subscribed"
          /\ \A r \in pending : r.op # "Connect"
    /\ closed => stage \in {"failing", "failed", "ready"}
    /\ closed /\ stage = "ready" /\ ~batched => tasks = <<>>
    /\ socket = "connecting" => stage \in {"opening", "failing"}

\* The elements of a sequence of tasks or frames that name subscription s.
Names(q, kind, s) == \E i \in 1 .. Len(q) : q[i].kind = kind /\ q[i].subscription = s
Once(q, kind) ==
    \A i, j \in 1 .. Len(q) :
        /\ q[i].kind = kind /\ q[j].kind = kind
        /\ q[i].subscription = q[j].subscription /\ q[i].subscription # 0
        => i = j

\* The server gives every subscription a number of its own, which is at one place on its
\* way: in a response, in the task that stores the handler, or with the user.
FreshInv ==
    /\ Once(toClient, "response")
    /\ Once(tasks, "subscribed")
    /\ \A s \in Nat \ {0} :
          /\ Names(toClient, "response", s) =>
                s < nextSubscription /\ ~Names(tasks, "subscribed", s) /\ s \notin held
          /\ Names(tasks, "subscribed", s) => s < nextSubscription /\ s \notin held
          /\ s \in held => s < nextSubscription

\* A subscription that the server has granted has its handler, or a task on the way to
\* store it, unless the client was closed after the handler was stored.
GrantedInv ==
    \A s \in Nat \ {0} :
        /\ Names(tasks, "subscribed", s) \/ s \in handlers => s \in granted
        /\ s \in granted /\ (closed => s \in late) =>
              s \in handlers \/ Names(tasks, "subscribed", s)

\* The parts of the first that need each other.
ClientInv == TypeOK /\ StageInv /\ ClosedIsQuiet

-----------------------------------------------------------------------------
LEMMA ChosenBelongs ==
    ASSUME NEW S, S # {}
    PROVE  (CHOOSE x \in S : TRUE) \in S
  OBVIOUS

LEMMA HeadTail ==
    ASSUME NEW S, NEW s \in Seq(S), s # <<>>
    PROVE  Head(s) \in S /\ Tail(s) \in Seq(S)
  OBVIOUS

LEMMA AppendTyped ==
    ASSUME NEW S, NEW s \in Seq(S), NEW x \in S
    PROVE  Append(s, x) \in Seq(S)
  OBVIOUS

LEMMA NoTasks == <<>> \in Seq(Tasks) /\ <<>> \in Seq(Messages) /\ <<>> \in Seq(ServerFrames)
  OBVIOUS

LEMMA TaskTyped ==
    ASSUME NEW kind \in {"opened", "connected", "failed", "subscribed"}, NEW s \in Nat
    PROVE  Task(kind, s) \in Tasks
  BY DEF Task, Tasks

LEMMA FrameTyped ==
    ASSUME NEW id \in Nat, NEW ok \in BOOLEAN, NEW s \in Nat
    PROVE  /\ Frame("response", id, ok, s) \in ServerFrames
           /\ s # 0 => Frame("event", 0, ok, s) \in ServerFrames
  BY DEF Frame, ServerFrames, Responses, EventFrames

LEMMA FrameFields ==
    ASSUME NEW frame \in ServerFrames
    PROVE  /\ frame.id \in Nat /\ frame.ok \in BOOLEAN /\ frame.subscription \in Nat
           /\ frame.kind \in {"response", "event"}
           /\ frame.kind = "event" => frame.subscription # 0
<1>1. CASE frame \in Responses
  BY <1>1 DEF Responses
<1>2. CASE frame \in EventFrames
  BY <1>2 DEF EventFrames
<1> QED BY <1>1, <1>2 DEF ServerFrames

LEMMA RequestTyped ==
    ASSUME TypeOK, NEW op \in Ops, NEW s \in Nat, Request(op, s)
    PROVE  /\ nextId' \in Nat \ {0}
           /\ pending' \subseteq [id : Nat, op : Ops]
           /\ toServer' \in Seq(Messages)
<1>1. CASE closed
  BY <1>1 DEF TypeOK, Request
<1>2. CASE ~closed
  <2>1. nextId' \in Nat \ {0} /\ pending' \subseteq [id : Nat, op : Ops]
    BY <1>2 DEF TypeOK, Request
  <2>2. [id |-> nextId, op |-> op, subscription |-> s] \in Messages
    BY DEF TypeOK, Messages
  <2>3. toServer' = toServer
            \/ toServer' = Append(toServer, [id |-> nextId, op |-> op, subscription |-> s])
    BY <1>2 DEF Request, Post
  <2>4. toServer' \in Seq(Messages)
    <3>1. toServer \in Seq(Messages)
      BY DEF TypeOK
    <3> QED BY <2>2, <2>3, <3>1
  <2> QED BY <2>1, <2>4
<1> QED BY <1>1, <1>2

LEMMA ForgetTyped ==
    ASSUME TypeOK, Forget
    PROVE  /\ closed' \in BOOLEAN
           /\ pending' \subseteq [id : Nat, op : Ops]
           /\ handlers' \subseteq Nat
           /\ settled' \subseteq Nat
<1>1. {r.id : r \in pending} \subseteq Nat
  BY DEF TypeOK
<1> QED BY <1>1 DEF TypeOK, Forget

LEMMA RejectedTyped ==
    ASSUME TypeOK, NEW rest \in Seq(Tasks), Rejected(rest)
    PROVE  stage' \in Stages /\ tasks' \in Seq(Tasks)
<1>1. Append(rest, Task("failed", 0)) \in Seq(Tasks)
  BY TaskTyped
<1> QED BY <1>1 DEF TypeOK, Rejected, Stages

LEMMA SingleTask ==
    ASSUME NEW t
    PROVE  Head(<<t>>) = t /\ Tail(<<t>>) = <<>>
  OBVIOUS

\* The task that runs next tells the stage.
LEMMA StageOfTask ==
    ASSUME ClientInv, tasks # <<>>
    PROVE  LET kind == Head(tasks).kind
           IN  /\ kind = "opened" => stage = "opened"
               /\ kind = "connected" => stage = "answered"
               /\ kind = "failed" => stage = "failing"
               /\ kind = "subscribed" => stage = "ready" /\ (closed => batched)
               /\ stage \in {"opened", "answered", "failing"} => Tail(tasks) = <<>>
<1>1. Head(tasks) = tasks[1] /\ 1 \in 1 .. Len(tasks)
  BY DEF ClientInv, TypeOK
<1>2. stage \in {"opened", "answered", "failing", "ready"}
  BY DEF ClientInv, TypeOK, StageInv, Stages
<1>3. CASE stage = "ready"
  BY <1>1, <1>3 DEF ClientInv, TypeOK, StageInv
<1>4. CASE stage = "opened"
  <2>1. tasks = <<Task("opened", 0)>>
    BY <1>4 DEF ClientInv, StageInv
  <2>2. Head(tasks) = Task("opened", 0) /\ Tail(tasks) = <<>>
    BY <2>1, SingleTask
  <2>3. Head(tasks).kind = "opened"
    BY <2>2 DEF Task
  <2> QED BY <1>4, <2>2, <2>3
<1>5. CASE stage = "answered"
  <2>1. tasks = <<Task("connected", 0)>>
    BY <1>5 DEF ClientInv, StageInv
  <2>2. Head(tasks) = Task("connected", 0) /\ Tail(tasks) = <<>>
    BY <2>1, SingleTask
  <2>3. Head(tasks).kind = "connected"
    BY <2>2 DEF Task
  <2> QED BY <1>5, <2>2, <2>3
<1>6. CASE stage = "failing"
  <2>1. tasks = <<Task("failed", 0)>>
    BY <1>6 DEF ClientInv, StageInv
  <2>2. Head(tasks) = Task("failed", 0) /\ Tail(tasks) = <<>>
    BY <2>1, SingleTask
  <2>3. Head(tasks).kind = "failed"
    BY <2>2 DEF Task
  <2> QED BY <1>6, <2>2, <2>3
<1> QED BY <1>2, <1>3, <1>4, <1>5, <1>6

-----------------------------------------------------------------------------
(* The actions. *)

LEMMA OpenKeeps ==
    ASSUME ClientInv, Open
    PROVE  ClientInv'
<1> USE DEF ClientInv
<1>1. TypeOK'
  BY TaskTyped DEF TypeOK, Open, wire, server, Stages
<1>2. StageInv' /\ ClosedIsQuiet'
  BY DEF TypeOK, StageInv, ClosedIsQuiet, Task, Open, Idle, wire, server
<1> QED BY <1>1, <1>2

LEMMA OpenTimeoutKeeps ==
    ASSUME ClientInv, OpenTimeout
    PROVE  ClientInv'
<1> USE DEF ClientInv
<1>1. TypeOK'
  BY NoTasks, RejectedTyped DEF TypeOK, OpenTimeout, wire, server
<1>2. StageInv' /\ ClosedIsQuiet'
  BY DEF TypeOK, StageInv, ClosedIsQuiet, Task, OpenTimeout, Idle, Rejected, wire, server
<1> QED BY <1>1, <1>2

LEMMA RunOpenedKeeps ==
    ASSUME ClientInv, RunOpened
    PROVE  ClientInv'
<1> USE DEF ClientInv
<1>1. TypeOK'
  BY HeadTail, RequestTyped DEF TypeOK, RunOpened, Idle, server, Ops, Stages
<1>2. stage = "opened" /\ tasks' = <<>> /\ ~closed
  BY StageOfTask DEF RunOpened, Idle, StageInv
<1>3. StageInv' /\ ClosedIsQuiet'
  BY <1>2 DEF TypeOK, StageInv, ClosedIsQuiet, Task, RunOpened, Idle, Request, Post, server
<1> QED BY <1>1, <1>3

LEMMA RunConnectedKeeps ==
    ASSUME ClientInv, RunConnected
    PROVE  ClientInv'
<1> USE DEF ClientInv
<1>1. TypeOK'
  BY HeadTail DEF TypeOK, RunConnected, Idle, wire, server, Stages
<1>2. stage = "answered" /\ tasks' = <<>>
  BY StageOfTask DEF RunConnected, Idle
<1>3. stage' = "ready" /\ UNCHANGED <<batched, socket, closed, pending, handlers, late>>
  BY DEF RunConnected
<1>4. ~closed /\ pending = {} /\ socket # "connecting"
  BY <1>2 DEF StageInv
<1>5. StageInv'
  BY <1>2, <1>3, <1>4 DEF StageInv
<1>6. ClosedIsQuiet'
  BY <1>3, <1>4 DEF ClosedIsQuiet
<1> QED BY <1>1, <1>5, <1>6

LEMMA RunFailedKeeps ==
    ASSUME ClientInv, RunFailed
    PROVE  ClientInv'
<1> USE DEF ClientInv
<1>1. TypeOK'
  BY HeadTail, ForgetTyped DEF TypeOK, RunFailed, Idle, wire, server, Stages
<1>2. stage = "failing" /\ tasks' = <<>>
  BY StageOfTask DEF RunFailed, Idle
<1>3. StageInv' /\ ClosedIsQuiet'
  BY <1>2 DEF TypeOK, StageInv, ClosedIsQuiet, Task, RunFailed, Idle, Forget, wire, server
<1> QED BY <1>1, <1>3

LEMMA RunSubscribedKeeps ==
    ASSUME ClientInv, RunSubscribed
    PROVE  ClientInv'
<1> USE DEF ClientInv
<1>1. Head(tasks) \in Tasks /\ Tail(tasks) \in Seq(Tasks)
  BY HeadTail DEF TypeOK, RunSubscribed, Idle
<1>2. Head(tasks).subscription \in Nat
  BY <1>1 DEF Tasks
<1>3. TypeOK'
  BY <1>1, <1>2 DEF TypeOK, RunSubscribed, wire, server
<1>4. stage = "ready" /\ (closed => batched)
  BY StageOfTask DEF RunSubscribed, Idle
<1>5. UNCHANGED <<batched, socket, stage, closed, pending>>
  BY DEF RunSubscribed
<1>6. ClosedIsQuiet'
  <2>1. handlers' = handlers \cup {Head(tasks).subscription}
        /\ late' = IF closed THEN late \cup {Head(tasks).subscription} ELSE late
    BY DEF RunSubscribed
  <2>2. CASE closed
    BY <1>4, <1>5, <2>1, <2>2 DEF ClosedIsQuiet
  <2>3. CASE ~closed
    BY <1>4, <1>5, <2>1, <2>3 DEF ClosedIsQuiet
  <2> QED BY <2>2, <2>3
<1>7. \A i \in 1 .. Len(tasks') : tasks'[i].kind = "subscribed"
  BY <1>4 DEF TypeOK, StageInv, RunSubscribed, Idle
<1>8. StageInv'
  BY <1>4, <1>5, <1>7 DEF TypeOK, StageInv
<1> QED BY <1>3, <1>6, <1>8

LEMMA CallKeeps ==
    ASSUME ClientInv, NEW op, Call(op)
    PROVE  ClientInv'
<1> USE DEF ClientInv
<1>1. TypeOK'
  BY RequestTyped DEF TypeOK, Call, server, Ops
<1>2. StageInv' /\ ClosedIsQuiet'
  BY DEF TypeOK, StageInv, ClosedIsQuiet, Task, Call, Ready, Idle, Request, Post, server
<1> QED BY <1>1, <1>2

LEMMA CancelKeeps ==
    ASSUME ClientInv, NEW s \in Subscriptions, Cancel(s)
    PROVE  ClientInv'
<1> USE DEF ClientInv
<1>1. TypeOK'
  BY RequestTyped DEF TypeOK, Cancel, Subscriptions, server, Ops
<1>2. StageInv' /\ ClosedIsQuiet'
  BY DEF TypeOK, StageInv, ClosedIsQuiet, Task, Cancel, Ready, Idle, Request, Post, server
<1> QED BY <1>1, <1>2

LEMMA CloseKeeps ==
    ASSUME ClientInv, Close
    PROVE  ClientInv'
<1> USE DEF ClientInv
<1>1. TypeOK'
  BY ForgetTyped, RejectedTyped DEF TypeOK, Close, Finalize, wire, server
<1>2. StageInv' /\ ClosedIsQuiet'
  BY DEF TypeOK, StageInv, ClosedIsQuiet, Task, Close, Ready, Idle, Finalize, Forget, Rejected, wire, server
<1> QED BY <1>1, <1>2

LEMMA OnEventKeeps ==
    ASSUME ClientInv, OnEvent
    PROVE  ClientInv'
<1> USE DEF ClientInv
<1>1. TypeOK'
  BY HeadTail DEF TypeOK, OnEvent, Receives, client, server, ServerFrames
<1>2. StageInv' /\ ClosedIsQuiet'
  BY DEF TypeOK, StageInv, ClosedIsQuiet, Task, OnEvent, Receives, client, server
<1> QED BY <1>1, <1>2

LEMMA OnCloseKeeps ==
    ASSUME ClientInv, OnClose
    PROVE  ClientInv'
<1> USE DEF ClientInv
<1>1. TypeOK'
  BY NoTasks, ForgetTyped, RejectedTyped DEF TypeOK, OnClose, Finalize
<1>2. tasks = <<>> /\ socket' = "closed"
  BY DEF OnClose, Idle
<1>3. CASE closed
  <2>1. UNCHANGED <<stage, closed, pending, handlers, tasks>>
    BY <1>3 DEF OnClose, Finalize, Forget
  <2>2. UNCHANGED <<batched, late>>
    BY DEF OnClose
  <2> QED BY <1>1, <1>2, <1>3, <2>1, <2>2 DEF TypeOK, StageInv, ClosedIsQuiet
<1>4. CASE ~closed
  <2>1. closed' /\ pending' = {} /\ handlers' = {} /\ Rejected(tasks)
    BY <1>4 DEF OnClose, Finalize, Forget
  <2>2. UNCHANGED <<batched, late>> /\ late = {}
    BY <1>4 DEF OnClose, ClosedIsQuiet
  <2>3. stage \in {"opening", "handshake", "ready"}
    BY <1>2, <1>4 DEF TypeOK, Stages, StageInv, ClosedIsQuiet, Task
  <2>4. CASE stage = "ready"
    <3>1. stage' = "ready" /\ tasks' = <<>>
      BY <1>2, <2>1, <2>4 DEF Rejected
    <3>2. StageInv'
      BY <1>2, <2>1, <3>1 DEF StageInv
    <3> QED BY <1>1, <1>2, <1>4, <2>1, <2>2, <3>1, <3>2 DEF ClosedIsQuiet
  <2>5. CASE stage # "ready"
    <3>1. stage' = "failing" /\ tasks' = <<Task("failed", 0)>>
      BY <1>2, <2>1, <2>3, <2>5 DEF Rejected
    <3>2. StageInv'
      BY <1>2, <2>1, <3>1 DEF StageInv
    <3> QED BY <1>1, <1>2, <1>4, <2>1, <2>2, <3>1, <3>2 DEF ClosedIsQuiet
  <2> QED BY <2>4, <2>5
<1> QED BY <1>3, <1>4

LEMMA SendEventKeeps ==
    ASSUME ClientInv, NEW s \in Subscriptions, SendEvent(s)
    PROVE  ClientInv'
<1> USE DEF ClientInv
<1>1. Frame("event", 0, TRUE, s) \in ServerFrames
  <2>1. s \in Nat /\ s # 0
    BY BoundsAssumption DEF Subscriptions
  <2> QED BY <2>1, FrameTyped
<1>2. toClient' \in Seq(ServerFrames) /\ events' \in Nat /\ called' \in Nat
  <2>1. toClient' = Append(toClient, Frame("event", 0, TRUE, s)) /\ events' = events + 1 /\ called' = 0
    BY DEF SendEvent
  <2>2. toClient \in Seq(ServerFrames) /\ events \in Nat
    BY DEF TypeOK
  <2>3. Append(toClient, Frame("event", 0, TRUE, s)) \in Seq(ServerFrames)
    BY <1>1, <2>2, AppendTyped
  <2>4. events' \in Nat /\ called' \in Nat
    BY <2>1, <2>2
  <2> QED BY <2>1, <2>3, <2>4, Zenon
<1>3. TypeOK'
  BY <1>2 DEF TypeOK, SendEvent, client
<1>4. StageInv' /\ ClosedIsQuiet'
  BY DEF TypeOK, StageInv, ClosedIsQuiet, Task, SendEvent, Frame, client, Subscriptions
<1> QED BY <1>3, <1>4

LEMMA ServerCloseKeeps ==
    ASSUME ClientInv, ServerClose
    PROVE  ClientInv'
<1> USE DEF ClientInv
<1>1. TypeOK'
  BY DEF TypeOK, ServerClose, client, wire
<1>2. StageInv' /\ ClosedIsQuiet'
  BY DEF TypeOK, StageInv, ClosedIsQuiet, Task, ServerClose, client, wire
<1> QED BY <1>1, <1>2

LEMMA AnswerKeeps ==
    ASSUME ClientInv, NEW ok \in BOOLEAN, NEW shuts \in BOOLEAN, Answer(ok, shuts)
    PROVE  ClientInv'
<1> USE DEF ClientInv
<1> DEFINE request == Head(toServer)
           granting == ok /\ request.op = "SubscribeEvent"
           given == IF granting THEN nextSubscription ELSE 0
<1>1. request \in Messages /\ toServer' \in Seq(Messages)
  BY HeadTail DEF TypeOK, Answer, Served
<1>2. Frame("response", request.id, ok, given) \in ServerFrames
  BY <1>1, FrameTyped DEF TypeOK, Messages
<1>3. toClient' \in Seq(ServerFrames)
  <2>1. toClient' = Append(toClient, Frame("response", request.id, ok, given))
    BY DEF Answer
  <2> HIDE DEF request, given
  <2> QED BY <1>2, <2>1 DEF TypeOK
<1>4. /\ nextSubscription' \in Nat \ {0} /\ serverSubscriptions' \subseteq Nat
      /\ peerOpen' \in BOOLEAN
  <2>1. nextSubscription' = IF granting THEN nextSubscription + 1 ELSE nextSubscription
    BY DEF Answer
  <2>2. serverSubscriptions' = IF granting THEN serverSubscriptions \cup {nextSubscription}
                              ELSE IF request.op = "CancelEvent"
                                   THEN serverSubscriptions \ {request.subscription}
                                   ELSE serverSubscriptions
    BY DEF Answer
  <2>3. peerOpen' \in BOOLEAN
    BY Zenon DEF Answer
  <2>4. /\ nextSubscription \in Nat \ {0} /\ serverSubscriptions \subseteq Nat
    BY DEF TypeOK
  <2> HIDE DEF request, granting
  <2>5. nextSubscription' \in Nat \ {0}
    BY <2>1, <2>4
  <2>6. serverSubscriptions' \subseteq Nat
    BY <2>2, <2>4
  <2> QED BY <2>3, <2>5, <2>6
<1>5. /\ UNCHANGED <<batched, socket, client, serverOpen, events, unanswered, settled, granted, late>>
      /\ called' = 0
  BY DEF Answer
<1>6. TypeOK'
  BY <1>1, <1>3, <1>4, <1>5 DEF TypeOK, client
<1>7. StageInv' /\ ClosedIsQuiet'
  BY <1>5 DEF StageInv, ClosedIsQuiet, client
<1> QED BY <1>6, <1>7

LEMMA UnansweredKeeps ==
    ASSUME ClientInv, Unanswered
    PROVE  ClientInv'
<1> USE DEF ClientInv
<1> DEFINE request == Head(toServer)
<1>1. request \in Messages /\ toServer' \in Seq(Messages)
  BY HeadTail DEF TypeOK, Unanswered, Served
<1>2. request.id \in Nat
  BY <1>1 DEF Messages
<1>3. toClient' = toClient \/ toClient' = Append(toClient, Frame("response", 0, FALSE, 0))
  BY DEF Unanswered
<1>4. Frame("response", 0, FALSE, 0) \in ServerFrames
  BY FrameTyped
<1>5. toClient' \in Seq(ServerFrames)
  <2>1. toClient \in Seq(ServerFrames)
    BY DEF TypeOK
  <2>2. Append(toClient, Frame("response", 0, FALSE, 0)) \in Seq(ServerFrames)
    BY <1>4, <2>1, AppendTyped
  <2> QED BY <1>3, <2>1, <2>2
<1>6. peerOpen' \in BOOLEAN
  BY DEF Unanswered, TypeOK
<1>7. unanswered' \subseteq Nat /\ serverSubscriptions' \subseteq Nat
  BY <1>2 DEF Unanswered, TypeOK
<1>8. /\ UNCHANGED <<batched, socket, client, serverOpen, nextSubscription, events,
                     settled, granted, late>>
      /\ called' = 0
  BY DEF Unanswered
<1>9. TypeOK'
  BY <1>1, <1>5, <1>6, <1>7, <1>8 DEF TypeOK, client
<1>10. StageInv' /\ ClosedIsQuiet'
  BY <1>8 DEF StageInv, ClosedIsQuiet, client
<1> QED BY <1>9, <1>10

\* A response settles what awaits it: at most the Connect during the handshake, and
\* nothing once the client is closed.
LEMMA OnResponseKeeps ==
    ASSUME ClientInv, OnResponse
    PROVE  ClientInv'
<1> USE DEF ClientInv
<1> DEFINE frame == Head(toClient)
           awaited == {r \in pending : r.id = frame.id}
           op == (CHOOSE r \in awaited : TRUE).op
<1>1. frame \in ServerFrames /\ toClient' \in Seq(ServerFrames)
  BY HeadTail DEF TypeOK, OnResponse, Receives
<1>2. /\ UNCHANGED <<batched, socket, closed, nextId, handlers, held, toServer, server, late>>
      /\ called' = 0
  BY DEF OnResponse
<1>3. CASE awaited = {}
  <2>1. UNCHANGED <<stage, pending, tasks, settled, granted>>
    BY <1>3 DEF OnResponse
  <2> QED BY <1>1, <1>2, <2>1 DEF TypeOK, StageInv, ClosedIsQuiet, server
<1>4. CASE awaited # {}
  <2>1. PICK r \in awaited : op = r.op
    BY <1>4, ChosenBelongs
  <2>2. r \in pending /\ op \in Ops /\ ~closed
    BY <2>1 DEF TypeOK, ClosedIsQuiet
  <2>3. stage \in {"handshake", "ready", "failed"}
    BY <2>2 DEF TypeOK, Stages, StageInv
  <2>4. stage # "failed"
    BY <2>2 DEF ClosedIsQuiet
  <2>5. /\ pending' = pending \ awaited
        /\ settled' = settled \cup {frame.id}
        /\ IF op = "Connect" /\ ~frame.ok THEN Rejected(tasks)
           ELSE /\ stage' = IF op = "Connect" THEN "answered" ELSE stage
                /\ tasks' = CASE op = "Connect" -> Append(tasks, Task("connected", 0))
                              [] op = "SubscribeEvent" /\ frame.ok ->
                                    Append(tasks, Task("subscribed", frame.subscription))
                              [] OTHER -> tasks
        /\ granted' = IF op = "SubscribeEvent" /\ frame.ok
                      THEN granted \cup {frame.subscription} ELSE granted
    BY <1>4 DEF OnResponse
  <2>6. frame.id \in Nat /\ frame.subscription \in Nat
    BY <1>1, FrameFields
  <2>7. /\ pending' \subseteq pending
        /\ settled' \subseteq Nat /\ granted' \subseteq Nat
    BY <2>5, <2>6 DEF TypeOK
  <2> HIDE DEF op, frame
  <2>8. CASE stage = "handshake"
    <3>1. op = "Connect" /\ pending' = {}
      BY <2>1, <2>2, <2>5, <2>8 DEF StageInv
    <3>2. CASE ~frame.ok
      <4>1. stage' = "failing" /\ tasks' = <<Task("failed", 0)>>
        BY <2>5, <2>8, <3>1, <3>2 DEF Rejected, StageInv
      <4>2. TypeOK'
        BY <1>1, <1>2, <2>7, <4>1, TaskTyped DEF TypeOK, Stages, server
      <4> QED BY <1>2, <2>2, <3>1, <4>1, <4>2 DEF TypeOK, StageInv, ClosedIsQuiet
    <3>3. CASE frame.ok
      <4>1. stage' = "answered" /\ tasks' = <<Task("connected", 0)>>
        BY <2>5, <2>8, <3>1, <3>3 DEF StageInv
      <4>2. TypeOK'
        BY <1>1, <1>2, <2>7, <4>1, TaskTyped DEF TypeOK, Stages, server
      <4> QED BY <1>2, <2>2, <2>8, <3>1, <4>1, <4>2 DEF TypeOK, StageInv, ClosedIsQuiet
    <3> QED BY <3>2, <3>3
  <2>9. CASE stage = "ready"
    <3>1. op # "Connect" /\ stage' = "ready"
      BY <2>1, <2>2, <2>5, <2>9 DEF StageInv
    <3>2. CASE op = "SubscribeEvent" /\ frame.ok
      <4>1. tasks' = Append(tasks, Task("subscribed", frame.subscription))
        BY <2>5, <3>1, <3>2
      <4>2. Task("subscribed", frame.subscription) \in Tasks
        BY <2>6, TaskTyped
      <4>3. TypeOK'
        BY <1>1, <1>2, <2>7, <3>1, <4>1, <4>2 DEF TypeOK, Stages, server
      <4>4. \A i \in 1 .. Len(tasks') : tasks'[i].kind = "subscribed"
        BY <2>9, <4>1, <4>2 DEF TypeOK, StageInv, Task
      <4> QED BY <1>2, <2>2, <2>7, <2>9, <3>1, <4>3, <4>4 DEF TypeOK, StageInv, ClosedIsQuiet
    <3>3. CASE ~(op = "SubscribeEvent" /\ frame.ok)
      <4>1. tasks' = tasks
        BY <2>5, <3>1, <3>3
      <4>2. TypeOK'
        BY <1>1, <1>2, <2>7, <3>1, <4>1 DEF TypeOK, Stages, server
      <4> QED BY <1>2, <2>2, <2>7, <2>9, <3>1, <4>1, <4>2 DEF TypeOK, StageInv, ClosedIsQuiet
    <3> QED BY <3>2, <3>3
  <2> QED BY <2>3, <2>4, <2>8, <2>9
<1> QED BY <1>3, <1>4

-----------------------------------------------------------------------------
(* The numbers of the subscriptions, and the handlers and tasks that they have. *)

LEMMA NamesTail ==
    ASSUME NEW S, NEW q \in Seq(S), q # <<>>, NEW kind, NEW s
    PROVE  Names(q, kind, s) <=> \/ Head(q).kind = kind /\ Head(q).subscription = s
                                 \/ Names(Tail(q), kind, s)
<1>1. Head(q) = q[1] /\ Len(q) \in Nat /\ Len(q) >= 1
  OBVIOUS
<1>2. Len(Tail(q)) = Len(q) - 1 /\ \A i \in 1 .. Len(Tail(q)) : Tail(q)[i] = q[i + 1]
  OBVIOUS
<1>3. ASSUME Names(q, kind, s)
      PROVE  \/ Head(q).kind = kind /\ Head(q).subscription = s
             \/ Names(Tail(q), kind, s)
  <2>1. PICK i \in 1 .. Len(q) : q[i].kind = kind /\ q[i].subscription = s
    BY <1>3 DEF Names
  <2>2. CASE i = 1
    BY <1>1, <2>1, <2>2
  <2>3. CASE i # 1
    <3>1. i - 1 \in 1 .. Len(Tail(q)) /\ Tail(q)[i - 1] = q[i]
      BY <1>1, <1>2, <2>3
    <3> QED BY <2>1, <3>1 DEF Names
  <2> QED BY <2>2, <2>3
<1>4. ASSUME Names(Tail(q), kind, s)
      PROVE  Names(q, kind, s)
  <2>1. PICK i \in 1 .. Len(Tail(q)) : Tail(q)[i].kind = kind /\ Tail(q)[i].subscription = s
    BY <1>4 DEF Names
  <2>2. i + 1 \in 1 .. Len(q) /\ Tail(q)[i] = q[i + 1]
    BY <1>1, <1>2
  <2> QED BY <2>1, <2>2 DEF Names
<1>5. ASSUME Head(q).kind = kind, Head(q).subscription = s
      PROVE  Names(q, kind, s)
  BY <1>1, <1>5 DEF Names
<1> QED BY <1>3, <1>4, <1>5

LEMMA NamesAppend ==
    ASSUME NEW S, NEW q \in Seq(S), NEW x \in S, NEW kind, NEW s
    PROVE  Names(Append(q, x), kind, s) <=> Names(q, kind, s) \/ (x.kind = kind /\ x.subscription = s)
<1> DEFINE r == Append(q, x)
<1>1. Len(q) \in Nat /\ Len(r) = Len(q) + 1 /\ r[Len(q) + 1] = x
  OBVIOUS
<1>2. \A i \in 1 .. Len(q) : r[i] = q[i]
  OBVIOUS
<1> HIDE DEF r
<1>3. ASSUME Names(r, kind, s)
      PROVE  Names(q, kind, s) \/ (x.kind = kind /\ x.subscription = s)
  <2>1. PICK i \in 1 .. Len(r) : r[i].kind = kind /\ r[i].subscription = s
    BY <1>3 DEF Names
  <2>2. CASE i \in 1 .. Len(q)
    BY <1>2, <2>1, <2>2 DEF Names
  <2>3. CASE i = Len(q) + 1
    BY <1>1, <2>1, <2>3
  <2> QED BY <1>1, <2>2, <2>3
<1>4. ASSUME Names(q, kind, s)
      PROVE  Names(r, kind, s)
  <2>1. PICK i \in 1 .. Len(q) : q[i].kind = kind /\ q[i].subscription = s
    BY <1>4 DEF Names
  <2>2. i \in 1 .. Len(r) /\ r[i] = q[i]
    BY <1>1, <1>2
  <2> QED BY <2>1, <2>2 DEF Names
<1>5. ASSUME x.kind = kind, x.subscription = s
      PROVE  Names(r, kind, s)
  <2>1. Len(q) + 1 \in 1 .. Len(r)
    BY <1>1
  <2> QED BY <1>1, <1>5, <2>1 DEF Names
<1> QED BY <1>3, <1>4, <1>5 DEF r

LEMMA NamesEmpty ==
    ASSUME NEW kind
    PROVE  Once(<<>>, kind) /\ \A s : ~Names(<<>>, kind, s)
  BY DEF Names, Once

LEMMA OnceTail ==
    ASSUME NEW S, NEW q \in Seq(S), q # <<>>, NEW kind, Once(q, kind)
    PROVE  /\ Once(Tail(q), kind)
           /\ Head(q).kind = kind /\ Head(q).subscription # 0 =>
                 ~Names(Tail(q), kind, Head(q).subscription)
<1>1. Head(q) = q[1] /\ Len(q) \in Nat /\ Len(q) >= 1
  OBVIOUS
<1>2. /\ Len(Tail(q)) = Len(q) - 1
      /\ \A i \in 1 .. Len(Tail(q)) : i + 1 \in 1 .. Len(q) /\ Tail(q)[i] = q[i + 1]
  OBVIOUS
<1>3. Once(Tail(q), kind)
  <2> SUFFICES ASSUME NEW i \in 1 .. Len(Tail(q)), NEW j \in 1 .. Len(Tail(q)),
                      Tail(q)[i].kind = kind, Tail(q)[j].kind = kind,
                      Tail(q)[i].subscription = Tail(q)[j].subscription,
                      Tail(q)[i].subscription # 0
               PROVE  i = j
    BY DEF Once
  <2>1. i + 1 = j + 1
    BY <1>2 DEF Once
  <2> QED BY <1>1, <1>2, <2>1
<1>4. ASSUME Head(q).kind = kind, Head(q).subscription # 0,
             Names(Tail(q), kind, Head(q).subscription)
      PROVE  FALSE
  <2>1. PICK i \in 1 .. Len(Tail(q)) :
             Tail(q)[i].kind = kind /\ Tail(q)[i].subscription = Head(q).subscription
    BY <1>4 DEF Names
  <2>2. 1 \in 1 .. Len(q) /\ i + 1 \in 1 .. Len(q) /\ Tail(q)[i] = q[i + 1]
    BY <1>1, <1>2
  <2>3. i + 1 = 1
    BY <1>1, <1>4, <2>1, <2>2 DEF Once
  <2> QED BY <1>1, <1>2, <2>1, <2>3
<1> QED BY <1>3, <1>4

LEMMA OnceAppend ==
    ASSUME NEW S, NEW q \in Seq(S), NEW x \in S, NEW kind, Once(q, kind),
           x.kind = kind /\ x.subscription # 0 => ~Names(q, kind, x.subscription)
    PROVE  Once(Append(q, x), kind)
<1> DEFINE r == Append(q, x)
<1>1. Len(q) \in Nat /\ Len(r) = Len(q) + 1 /\ r[Len(q) + 1] = x
  OBVIOUS
<1>2. \A i \in 1 .. Len(q) : r[i] = q[i]
  OBVIOUS
<1> HIDE DEF r
<1> SUFFICES ASSUME NEW i \in 1 .. Len(r), NEW j \in 1 .. Len(r),
                    r[i].kind = kind, r[j].kind = kind,
                    r[i].subscription = r[j].subscription, r[i].subscription # 0
             PROVE  i = j
  BY DEF Once, r
<1>3. CASE i \in 1 .. Len(q) /\ j \in 1 .. Len(q)
  BY <1>2, <1>3 DEF Once
<1>4. CASE i \in 1 .. Len(q) /\ j = Len(q) + 1
  BY <1>1, <1>2, <1>4 DEF Names
<1>5. CASE i = Len(q) + 1 /\ j \in 1 .. Len(q)
  BY <1>1, <1>2, <1>5 DEF Names
<1>6. CASE i = Len(q) + 1 /\ j = Len(q) + 1
  BY <1>6
<1> QED BY <1>1, <1>3, <1>4, <1>5, <1>6

\* A step that names no subscription anew.
TasksKept ==
    \/ tasks' = tasks
    \/ \E t \in Tasks : tasks' = Append(tasks, t) /\ t.kind # "subscribed"
    \/ tasks # <<>> /\ tasks' = Tail(tasks) /\ Head(tasks).kind # "subscribed"

FramesKept ==
    \/ toClient' = toClient
    \/ \E f \in ServerFrames :
          toClient' = Append(toClient, f) /\ (f.kind = "event" \/ f.subscription = 0)
    \/ toClient # <<>> /\ toClient' = Tail(toClient)
    \/ toClient' = <<>>

LEMMA TasksName ==
    ASSUME TypeOK, TasksKept
    PROVE  /\ Once(tasks, "subscribed") => Once(tasks', "subscribed")
           /\ \A s : Names(tasks', "subscribed", s) <=> Names(tasks, "subscribed", s)
<1>1. tasks \in Seq(Tasks)
  BY DEF TypeOK
<1>2. CASE tasks' = tasks
  BY <1>2
<1>3. ASSUME NEW t \in Tasks, tasks' = Append(tasks, t), t.kind # "subscribed"
      PROVE  /\ Once(tasks, "subscribed") => Once(tasks', "subscribed")
             /\ \A s : Names(tasks', "subscribed", s) <=> Names(tasks, "subscribed", s)
  BY <1>1, <1>3, NamesAppend, OnceAppend
<1>4. CASE tasks # <<>> /\ tasks' = Tail(tasks) /\ Head(tasks).kind # "subscribed"
  BY <1>1, <1>4, NamesTail, OnceTail
<1> QED BY <1>2, <1>3, <1>4 DEF TasksKept

LEMMA FramesName ==
    ASSUME TypeOK, FramesKept
    PROVE  /\ Once(toClient, "response") => Once(toClient', "response")
           /\ \A s \in Nat \ {0} : Names(toClient', "response", s) => Names(toClient, "response", s)
<1>1. toClient \in Seq(ServerFrames)
  BY DEF TypeOK
<1>2. CASE toClient' = toClient
  BY <1>2
<1>3. ASSUME NEW f \in ServerFrames, toClient' = Append(toClient, f),
             f.kind = "event" \/ f.subscription = 0
      PROVE  /\ Once(toClient, "response") => Once(toClient', "response")
             /\ \A s \in Nat \ {0} : Names(toClient', "response", s) => Names(toClient, "response", s)
  BY <1>1, <1>3, NamesAppend, OnceAppend
<1>4. CASE toClient # <<>> /\ toClient' = Tail(toClient)
  BY <1>1, <1>4, NamesTail, OnceTail
<1>5. CASE toClient' = <<>>
  BY <1>5, NamesEmpty
<1> QED BY <1>2, <1>3, <1>4, <1>5 DEF FramesKept

LEMMA FreshStays ==
    ASSUME TypeOK, FreshInv, TasksKept, FramesKept, held' \subseteq held,
           UNCHANGED nextSubscription
    PROVE  FreshInv'
<1>1. /\ Once(toClient', "response") /\ Once(tasks', "subscribed")
      /\ \A s : Names(tasks', "subscribed", s) <=> Names(tasks, "subscribed", s)
      /\ \A s \in Nat \ {0} : Names(toClient', "response", s) => Names(toClient, "response", s)
  BY TasksName, FramesName DEF FreshInv
<1> QED BY <1>1 DEF FreshInv

\* The responses that are not grants of subscriptions, and the tasks that store no handler.
LEMMA PlainTasks ==
    \A kind \in {"opened", "connected", "failed"} :
        Task(kind, 0) \in Tasks /\ Task(kind, 0).kind # "subscribed"
  BY DEF Task, Tasks

LEMMA RejectedTasks ==
    ASSUME TypeOK, Rejected(tasks)
    PROVE  TasksKept
<1>1. tasks' = tasks \/ tasks' = Append(tasks, Task("failed", 0))
  BY DEF Rejected
<1> QED BY <1>1, PlainTasks DEF TasksKept

LEMMA FinalizeTasks ==
    ASSUME TypeOK, Finalize
    PROVE  TasksKept
<1>1. CASE closed
  BY <1>1 DEF Finalize, TasksKept
<1>2. CASE ~closed
  BY <1>2, RejectedTasks DEF Finalize
<1> QED BY <1>1, <1>2

\* What the answer to a request leaves among the tasks.
LEMMA ResponseTasks ==
    ASSUME ClientInv, OnResponse
    PROVE  \/ TasksKept /\ UNCHANGED granted
           \/ /\ Head(toClient) \in ServerFrames
              /\ tasks' = Append(tasks, Task("subscribed", Head(toClient).subscription))
              /\ granted' = granted \cup {Head(toClient).subscription}
              /\ ~closed
<1> USE DEF ClientInv
<1> DEFINE frame == Head(toClient)
           awaited == {q \in pending : q.id = frame.id}
           op == (CHOOSE q \in awaited : TRUE).op
<1>1. frame \in ServerFrames
  BY HeadTail DEF OnResponse, Receives, TypeOK
<1>2. CASE awaited = {}
  BY <1>2 DEF OnResponse, TasksKept
<1>3. CASE awaited # {} /\ op = "Connect" /\ ~frame.ok
  BY <1>3, RejectedTasks DEF OnResponse
<1>4. CASE awaited # {} /\ op = "Connect" /\ frame.ok
  <2>1. tasks' = Append(tasks, Task("connected", 0)) /\ UNCHANGED granted
    BY <1>4 DEF OnResponse
  <2> QED BY <2>1, PlainTasks DEF TasksKept
<1>5. CASE awaited # {} /\ op = "SubscribeEvent" /\ frame.ok
  <2>1. /\ tasks' = Append(tasks, Task("subscribed", frame.subscription))
        /\ granted' = granted \cup {frame.subscription}
    BY <1>5 DEF OnResponse
  <2>2. ~closed
    BY <1>5 DEF ClosedIsQuiet
  <2> QED BY <1>1, <2>1, <2>2
<1>6. CASE awaited # {} /\ op # "Connect" /\ ~(op = "SubscribeEvent" /\ frame.ok)
  BY <1>6 DEF OnResponse, TasksKept
<1>7. frame.ok \in BOOLEAN
  BY <1>1, FrameFields
<1> HIDE DEF op, frame, awaited
<1> QED BY <1>2, <1>3, <1>4, <1>5, <1>6, <1>7 DEF frame

LEMMA FreshKept ==
    ASSUME ClientInv, FreshInv, [Next]_vars
    PROVE  FreshInv'
<1> USE DEF ClientInv
<1>1. CASE UNCHANGED vars
  BY <1>1, FreshStays DEF vars, client, server, wire, TasksKept, FramesKept
<1>2. CASE Open \/ OpenTimeout
  <2>1. \E kind \in {"opened", "failed"} : tasks' = Append(tasks, Task(kind, 0))
    BY <1>2 DEF Open, OpenTimeout, Idle, Rejected
  <2>2. TasksKept
    BY <2>1, PlainTasks DEF TasksKept
  <2>3. FramesKept /\ UNCHANGED <<held, nextSubscription>>
    BY <1>2 DEF Open, OpenTimeout, wire, server, FramesKept
  <2> QED BY <2>2, <2>3, FreshStays
<1>3. CASE RunOpened \/ RunConnected \/ RunFailed
  <2>1. TasksKept
    BY <1>3 DEF RunOpened, RunConnected, RunFailed, Idle, TasksKept
  <2>2. FramesKept /\ UNCHANGED <<held, nextSubscription>>
    BY <1>3 DEF RunOpened, RunConnected, RunFailed, wire, server, FramesKept
  <2> QED BY <2>1, <2>2, FreshStays
<1>4. CASE User
  <2>1. TasksKept
    BY <1>4, FinalizeTasks DEF User, Call, Cancel, Close, TasksKept
  <2>2. FramesKept /\ UNCHANGED nextSubscription /\ held' \subseteq held
    BY <1>4 DEF User, Call, Cancel, Close, wire, server, FramesKept
  <2> QED BY <2>1, <2>2, FreshStays
<1>5. CASE OnEvent
  <2>1. TasksKept /\ FramesKept /\ UNCHANGED <<held, nextSubscription>>
    BY <1>5 DEF OnEvent, Receives, client, server, TasksKept, FramesKept
  <2> QED BY <2>1, FreshStays
<1>6. CASE OnClose
  <2>1. FramesKept /\ UNCHANGED <<held, nextSubscription>>
    BY <1>6 DEF OnClose, FramesKept
  <2>2. TasksKept
    BY <1>6, FinalizeTasks DEF OnClose
  <2> QED BY <2>1, <2>2, FreshStays
<1>7. CASE Unanswered \/ ServerClose
  <2>1. toClient' = toClient \/ toClient' = Append(toClient, Frame("response", 0, FALSE, 0))
    BY <1>7 DEF Unanswered, ServerClose, wire
  <2>2. Frame("response", 0, FALSE, 0) \in ServerFrames /\ Frame("response", 0, FALSE, 0).subscription = 0
    BY FrameTyped DEF Frame
  <2>3. FramesKept
    BY <2>1, <2>2 DEF FramesKept
  <2>4. TasksKept /\ UNCHANGED <<held, nextSubscription>>
    BY <1>7 DEF Unanswered, ServerClose, client, TasksKept
  <2> QED BY <2>3, <2>4, FreshStays
<1>8. ASSUME NEW s \in Subscriptions, SendEvent(s)
      PROVE  FreshInv'
  <2>1. Frame("event", 0, TRUE, s) \in ServerFrames /\ Frame("event", 0, TRUE, s).kind = "event"
    <3>1. s \in Nat /\ s # 0
      BY BoundsAssumption DEF Subscriptions
    <3>2. Frame("event", 0, TRUE, s) \in ServerFrames
      BY <3>1, FrameTyped
    <3> QED BY <3>2 DEF Frame
  <2>2. toClient' = Append(toClient, Frame("event", 0, TRUE, s))
    BY <1>8 DEF SendEvent
  <2>3. FramesKept
    BY <2>1, <2>2 DEF FramesKept
  <2>4. TasksKept /\ UNCHANGED <<held, nextSubscription>>
    BY <1>8 DEF SendEvent, client, TasksKept
  <2> QED BY <2>3, <2>4, FreshStays
<1>9. ASSUME NEW ok \in BOOLEAN, NEW shuts \in BOOLEAN, Answer(ok, shuts)
      PROVE  FreshInv'
  <2> DEFINE request == Head(toServer)
             granting == ok /\ request.op = "SubscribeEvent"
             f == Frame("response", request.id, ok, IF granting THEN nextSubscription ELSE 0)
  <2>1. /\ toClient' = Append(toClient, f)
        /\ nextSubscription' = IF granting THEN nextSubscription + 1 ELSE nextSubscription
        /\ UNCHANGED <<tasks, held>>
    BY <1>9 DEF Answer, client
  <2>2. request.id \in Nat
    <3>1. toServer # <<>> /\ toServer \in Seq(Messages)
      BY <1>9 DEF Answer, Served, TypeOK
    <3>2. request \in Messages
      BY <3>1, HeadTail
    <3> QED BY <3>2 DEF Messages
  <2>3. f.kind = "response" /\ f.subscription = IF granting THEN nextSubscription ELSE 0
    BY DEF Frame
  <2>4. nextSubscription \in Nat \ {0} /\ toClient \in Seq(ServerFrames)
    BY DEF TypeOK
  <2> HIDE DEF granting
  <2>5. f \in ServerFrames
    BY <2>2, <2>4, FrameTyped
  <2> HIDE DEF f
  <2>6. CASE ~granting
    <3>1. TasksKept /\ FramesKept /\ UNCHANGED <<held, nextSubscription>>
      BY <2>1, <2>3, <2>5, <2>6 DEF TasksKept, FramesKept
    <3> QED BY <3>1, FreshStays
  <2>7. CASE granting
    <3>1. ~Names(toClient, "response", f.subscription)
      BY <2>3, <2>4, <2>7 DEF FreshInv
    <3>2. Once(toClient', "response")
      BY <2>1, <2>3, <2>4, <2>5, <3>1, OnceAppend DEF FreshInv
    <3>3. \A s : Names(toClient', "response", s) <=>
                    Names(toClient, "response", s) \/ s = nextSubscription
      BY <2>1, <2>3, <2>4, <2>5, <2>7, NamesAppend
    <3>4. nextSubscription' = nextSubscription + 1 /\ held \subseteq Nat
      BY <2>1, <2>7 DEF TypeOK
    <3> QED BY <2>1, <2>4, <3>2, <3>3, <3>4 DEF FreshInv
  <2> QED BY <2>6, <2>7
<1>10. CASE RunSubscribed
  <2> DEFINE n == Head(tasks).subscription
  <2>1. /\ tasks # <<>> /\ tasks' = Tail(tasks) /\ Head(tasks).kind = "subscribed"
        /\ held' = held \cup {n}
        /\ UNCHANGED <<toClient, nextSubscription>>
    BY <1>10 DEF RunSubscribed, Idle, wire, server
  <2>2. tasks \in Seq(Tasks)
    BY DEF TypeOK
  <2>3. /\ Once(tasks', "subscribed")
        /\ n # 0 => ~Names(tasks', "subscribed", n)
    BY <2>1, <2>2, OnceTail DEF FreshInv
  <2>4. \A s : Names(tasks, "subscribed", s) <=> s = n \/ Names(tasks', "subscribed", s)
    BY <2>1, <2>2, NamesTail
  <2> HIDE DEF n
  <2> QED BY <2>1, <2>3, <2>4 DEF FreshInv
<1>11. CASE OnResponse
  <2>1. /\ toClient # <<>> /\ toClient' = Tail(toClient) /\ Head(toClient).kind = "response"
        /\ UNCHANGED <<held, nextSubscription>>
    BY <1>11 DEF OnResponse, Receives, server
  <2>2. FramesKept
    BY <2>1 DEF FramesKept
  <2>3. CASE TasksKept
    BY <2>1, <2>2, <2>3, FreshStays
  <2>4. CASE ~TasksKept
    <3> DEFINE n == Head(toClient).subscription
    <3>1. tasks' = Append(tasks, Task("subscribed", n)) /\ Head(toClient) \in ServerFrames
      BY <1>11, <2>4, ResponseTasks
    <3>2. n \in Nat
      BY <3>1, FrameFields
    <3>3. /\ Task("subscribed", n) \in Tasks
          /\ Task("subscribed", n).kind = "subscribed" /\ Task("subscribed", n).subscription = n
      BY <3>2, TaskTyped DEF Task
    <3>4. tasks \in Seq(Tasks) /\ toClient \in Seq(ServerFrames)
      BY DEF TypeOK
    <3>5. /\ Once(toClient', "response")
          /\ n # 0 => ~Names(toClient', "response", n)
          /\ \A s : Names(toClient, "response", s) <=> s = n \/ Names(toClient', "response", s)
      BY <2>1, <3>4, NamesTail, OnceTail DEF FreshInv
    <3> HIDE DEF n
    <3>6. n # 0 => ~Names(tasks, "subscribed", n) /\ n \notin held /\ n < nextSubscription
      BY <3>2, <3>5 DEF FreshInv
    <3>7. Once(tasks', "subscribed")
      BY <3>1, <3>3, <3>4, <3>6, OnceAppend DEF FreshInv
    <3>8. \A s : Names(tasks', "subscribed", s) <=> Names(tasks, "subscribed", s) \/ s = n
      BY <3>1, <3>3, <3>4, NamesAppend
    <3> QED BY <2>1, <3>5, <3>6, <3>7, <3>8 DEF FreshInv
  <2> QED BY <2>3, <2>4
<1> QED
  BY <1>1, <1>2, <1>3, <1>4, <1>5, <1>6, <1>7, <1>8, <1>9, <1>10, <1>11 DEF Next, RunTask, Answers

LEMMA GrantedKept ==
    ASSUME ClientInv, FreshInv, GrantedInv, [Next]_vars
    PROVE  GrantedInv'
<1> USE DEF ClientInv
\* A step that grants nothing, stores nothing and forgets nothing.
<1>1. ASSUME TasksKept, UNCHANGED <<closed, handlers, granted, late>>
      PROVE  GrantedInv'
  BY <1>1, TasksName DEF GrantedInv
\* One that closes the client.
<1>2. ASSUME TasksKept, UNCHANGED <<granted, late>>, Forget
      PROVE  GrantedInv'
  <2>1. CASE closed
    BY <1>1, <1>2, <2>1 DEF Forget
  <2>2. CASE ~closed
    <3>1. closed' /\ handlers' = {} /\ late = {}
      BY <1>2, <2>2 DEF Forget, ClosedIsQuiet
    <3> QED BY <1>2, <3>1, TasksName DEF GrantedInv
  <2> QED BY <2>1, <2>2
<1>3. CASE UNCHANGED vars
  BY <1>1, <1>3 DEF vars, client, history, TasksKept
<1>4. CASE Open \/ OpenTimeout
  <2>1. \E kind \in {"opened", "failed"} : tasks' = Append(tasks, Task(kind, 0))
    <3>1. CASE Open
      BY <3>1 DEF Open, Idle
    <3>2. CASE OpenTimeout
      BY <3>2 DEF OpenTimeout, Idle, Rejected
    <3> QED BY <1>4, <3>1, <3>2
  <2>2. TasksKept
    BY <2>1, PlainTasks DEF TasksKept
  <2> QED BY <1>1, <1>4, <2>2 DEF Open, OpenTimeout
<1>5. CASE RunOpened \/ RunConnected
  <2>1. TasksKept
    BY <1>5 DEF RunOpened, RunConnected, Idle, TasksKept
  <2> QED BY <1>1, <1>5, <2>1 DEF RunOpened, RunConnected
<1>6. CASE RunFailed
  <2>1. TasksKept
    BY <1>6 DEF RunFailed, Idle, TasksKept
  <2> QED BY <1>2, <1>6, <2>1 DEF RunFailed
<1>7. ASSUME NEW op, Call(op)
      PROVE  GrantedInv'
  BY <1>1, <1>7 DEF Call, TasksKept
<1>8. ASSUME NEW n \in Subscriptions, Cancel(n)
      PROVE  GrantedInv'
  <2>1. /\ n \in held /\ UNCHANGED <<tasks, closed, late>>
        /\ handlers' = handlers \ {n} /\ granted' = granted \ {n}
    BY <1>8 DEF Cancel
  <2>2. n \in Nat \ {0}
    BY BoundsAssumption DEF Subscriptions
  <2>3. ~Names(tasks, "subscribed", n)
    BY <2>1, <2>2 DEF FreshInv
  <2> QED BY <2>1, <2>3 DEF GrantedInv
<1>9. CASE Close \/ OnClose
  <2>1. TasksKept
    BY <1>9, FinalizeTasks DEF Close, OnClose
  <2> QED BY <1>2, <1>9, <2>1 DEF Close, OnClose, Finalize
<1>10. CASE OnEvent \/ Answers \/ (\E s \in Subscriptions : SendEvent(s)) \/ ServerClose
  <2>1. UNCHANGED <<client, granted, late>>
    BY <1>10 DEF OnEvent, Answers, Answer, Unanswered, SendEvent, ServerClose
  <2> QED BY <1>1, <2>1 DEF client, TasksKept
<1>11. CASE RunSubscribed
  <2> DEFINE n == Head(tasks).subscription
  <2>1. /\ tasks # <<>> /\ tasks' = Tail(tasks) /\ Head(tasks).kind = "subscribed"
        /\ handlers' = handlers \cup {n}
        /\ late' = IF closed THEN late \cup {n} ELSE late
        /\ UNCHANGED <<closed, granted>>
    BY <1>11 DEF RunSubscribed, Idle
  <2>2. \A s : Names(tasks, "subscribed", s) <=> s = n \/ Names(tasks', "subscribed", s)
    BY <2>1, NamesTail DEF TypeOK
  <2> HIDE DEF n
  <2>3. CASE closed
    BY <2>1, <2>2, <2>3 DEF GrantedInv
  <2>4. CASE ~closed
    BY <2>1, <2>2, <2>4 DEF GrantedInv
  <2> QED BY <2>3, <2>4
<1>12. CASE OnResponse
  <2>1. UNCHANGED <<closed, handlers, late>>
    BY <1>12 DEF OnResponse
  <2>2. CASE TasksKept /\ UNCHANGED granted
    BY <1>1, <2>1, <2>2
  <2>3. CASE ~(TasksKept /\ UNCHANGED granted)
    <3> DEFINE n == Head(toClient).subscription
    <3>1. /\ Head(toClient) \in ServerFrames
          /\ tasks' = Append(tasks, Task("subscribed", n))
          /\ granted' = granted \cup {n} /\ ~closed
      BY <1>12, <2>3, ResponseTasks
    <3>2. n \in Nat
      BY <3>1, FrameFields
    <3>3. /\ Task("subscribed", n) \in Tasks
          /\ Task("subscribed", n).kind = "subscribed" /\ Task("subscribed", n).subscription = n
      BY <3>2, TaskTyped DEF Task
    <3>4. tasks \in Seq(Tasks)
      BY DEF TypeOK
    <3> HIDE DEF n
    <3>5. \A s : Names(tasks', "subscribed", s) <=> Names(tasks, "subscribed", s) \/ s = n
      BY <3>1, <3>3, <3>4, NamesAppend
    <3> QED BY <2>1, <3>1, <3>5 DEF GrantedInv
  <2> QED BY <2>2, <2>3
<1> QED
  BY <1>3, <1>4, <1>5, <1>6, <1>7, <1>8, <1>9, <1>10, <1>11, <1>12 DEF Next, RunTask, User

-----------------------------------------------------------------------------
(* The theorems. *)

\* The parts of the invariant, among them that no task outlives the stage it belongs
\* to.
THEOREM ClientInvariant == Spec => []ClientInv
<1>1. Init => ClientInv
  <2> SUFFICES ASSUME Init
               PROVE  ClientInv
    OBVIOUS
  <2>1. TypeOK
    <3>1. /\ tasks \in Seq(Tasks)
          /\ toServer \in Seq(Messages)
          /\ toClient \in Seq(ServerFrames)
      BY NoTasks DEF Init
    <3>2. /\ socket \in {"connecting", "open", "closing", "closed"}
          /\ stage \in Stages
          /\ closed \in BOOLEAN /\ serverOpen \in BOOLEAN /\ peerOpen \in BOOLEAN
      BY DEF Init, Stages
    <3> QED BY <3>1, <3>2 DEF Init, TypeOK
  <2>2. StageInv /\ ClosedIsQuiet
    BY DEF Init, StageInv, ClosedIsQuiet
  <2> QED BY <2>1, <2>2 DEF ClientInv
<1>2. ClientInv /\ [Next]_vars => ClientInv'
  <2> SUFFICES ASSUME ClientInv, [Next]_vars
               PROVE  ClientInv'
    OBVIOUS
  <2>1. CASE UNCHANGED vars
    BY <2>1 DEF vars, client, wire, server, history, ClientInv, TypeOK, StageInv, ClosedIsQuiet
  <2>2. CASE RunTask
    BY <2>2, RunOpenedKeeps, RunConnectedKeeps, RunFailedKeeps, RunSubscribedKeeps DEF RunTask
  <2>3. CASE User
    BY <2>3, CallKeeps, CancelKeeps, CloseKeeps DEF User
  <2>4. CASE Open \/ OpenTimeout
    BY <2>4, OpenKeeps, OpenTimeoutKeeps
  <2>5. CASE OnResponse \/ OnEvent \/ OnClose
    BY <2>5, OnResponseKeeps, OnEventKeeps, OnCloseKeeps
  <2>6. CASE Answers \/ (\E s \in Subscriptions : SendEvent(s)) \/ ServerClose
    BY <2>6, AnswerKeeps, UnansweredKeeps, SendEventKeeps, ServerCloseKeeps DEF Answers
  <2> QED BY <2>1, <2>2, <2>3, <2>4, <2>5, <2>6 DEF Next
<1> QED BY <1>1, <1>2, PTL DEF Spec

\* A closed client keeps no request, and no handler but those that were stored after the
\* close, of which there are none unless frames share a task; and connect never returns a
\* client that it has given up.
THEOREM ClosedKeepsNothing == Spec => []ClosedIsQuiet
<1>1. ClientInv => ClosedIsQuiet
  BY DEF ClientInv
<1> QED BY <1>1, ClientInvariant, PTL

\* An event of a subscription reaches its handler exactly if the client has had the answer
\* to subscribe and has neither cancelled nor been closed since, but for the time in which
\* the code after the await has still to run, and there is none where every frame has a
\* task of its own.
THEOREM HandlersReached == Spec => EventsReachHandlers
<1>1. Init => FreshInv /\ GrantedInv
  BY NamesEmpty DEF Init, FreshInv, GrantedInv
<1>2. ClientInv /\ FreshInv /\ GrantedInv /\ [Next]_vars => FreshInv' /\ GrantedInv'
  BY FreshKept, GrantedKept
<1>3. ClientInv /\ GrantedInv /\ [Next]_vars =>
          [OnEvent =>
             LET s == Head(toClient).subscription
             IN  /\ called' = s => s \in granted /\ (closed => s \in late)
                 /\ s \in granted /\ (closed => s \in late) => called' = s \/ Waiting(s)
                 /\ Waiting(s) => batched]_vars
  <2> SUFFICES ASSUME ClientInv, GrantedInv, OnEvent
               PROVE  LET s == Head(toClient).subscription
                      IN  /\ called' = s => s \in granted /\ (closed => s \in late)
                          /\ s \in granted /\ (closed => s \in late) => called' = s \/ Waiting(s)
                          /\ Waiting(s) => batched
    OBVIOUS
  <2> DEFINE s == Head(toClient).subscription
  <2>1. Head(toClient) \in ServerFrames /\ Head(toClient).kind = "event"
    BY HeadTail DEF OnEvent, Receives, ClientInv, TypeOK
  <2>2. s \in Nat /\ s # 0
    BY <2>1, FrameFields
  <2>3. called' = IF s \in handlers THEN s ELSE 0
    BY DEF OnEvent
  <2>4. tasks = <<>> \/ batched
    BY DEF OnEvent, Receives, Idle
  <2> HIDE DEF s
  <2>5. Waiting(s) <=> Names(tasks, "subscribed", s)
    BY DEF Waiting, Names
  <2>6. Waiting(s) => batched
    BY <2>4, <2>5, NamesEmpty
  <2>7. called' = s => s \in granted /\ (closed => s \in late)
    BY <2>2, <2>3 DEF GrantedInv, ClientInv, ClosedIsQuiet
  <2>8. s \in granted /\ (closed => s \in late) => called' = s \/ Waiting(s)
    BY <2>2, <2>3, <2>5 DEF GrantedInv
  <2> QED BY <2>6, <2>7, <2>8 DEF s
<1> QED BY <1>1, <1>2, <1>3, ClientInvariant, PTL DEF Spec, EventsReachHandlers
==============================================================================
