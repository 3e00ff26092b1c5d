---------------------------- MODULE IObjectClient ----------------------------
(***************************************************************************)
(* IObjectClient (src/js/src/client.ts), the other end of a BridgePeer: it *)
(* opens a WebSocket, sends requests, and matches the answers and events   *)
(* that come back with promises and handlers.                              *)
(*                                                                         *)
(* JavaScript runs one task at a time: an event of the socket, the timer,  *)
(* or code of the user, for whom a handler of an event is no different.    *)
(* The code after an await is a task of its own: it runs when the task     *)
(* that settled the promise is over, and before the next one.  The sockets *)
(* of Node and ws hand over several frames in one task (batched): a frame, *)
(* and the handler that it calls, may come before code after an await.     *)
(*                                                                         *)
(* The socket keeps frames in order and may lose the connection at any     *)
(* time.  The server is a RuntimeBridgePeer behind a WebSocketServer, as   *)
(* the client sees it: its requests are taken in order, and answered once, *)
(* under their identifiers, except those that are too long, end in an      *)
(* exception of the application, or come after the peer has shut itself;   *)
(* events come at any time for the subscriptions it has.                   *)
(***************************************************************************)
EXTENDS Integers, Sequences

CONSTANTS
    MaxRequests,    \* bound: requests that the client sends
    MaxEvents       \* bound: events that the server sends

ASSUME BoundsAssumption == MaxRequests \in Nat \ {0} /\ MaxEvents \in Nat

VARIABLES
    batched,        \* whether frames may come without the tasks between them
    socket,         \* readyState
    stage,          \* how far IObjectClient.connect has come
    closed,
    nextId,
    pending,        \* the requests that await their answers
    handlers,       \* the subscriptions with a handler
    held,           \* the Subscription objects that are active
    tasks,          \* the code after awaits whose promises have been settled
    toServer, toClient,     \* the frames under way
    serverOpen,     \* the server's end of the connection
    peerOpen,       \* the peer takes requests
    serverSubscriptions, nextSubscription,
    events,         \* events sent so far
    called,         \* the subscription whose handler the last step called, or 0
    settled,        \* history: the requests whose promises have been settled
    granted,        \* history: the subscriptions answered and not cancelled since
    late,           \* history: the subscriptions stored after the client was closed
    unanswered      \* history: the requests that the server will not answer

wire == <<toServer, toClient>>
server == <<serverOpen, peerOpen, serverSubscriptions, nextSubscription, events, unanswered>>
client == <<stage, closed, nextId, pending, handlers, held, tasks>>
history == <<called, settled, granted, late>>
vars == <<batched, socket, client, wire, server, history>>

Init ==
    /\ batched \in BOOLEAN
    /\ socket = "connecting" /\ stage = "opening" /\ closed = FALSE
    /\ nextId = 1 /\ pending = {} /\ handlers = {} /\ held = {} /\ tasks = <<>>
    /\ toServer = <<>> /\ toClient = <<>>
    /\ serverOpen = TRUE /\ peerOpen = TRUE
    /\ serverSubscriptions = {} /\ nextSubscription = 1 /\ events = 0
    /\ called = 0 /\ settled = {} /\ granted = {} /\ late = {} /\ unanswered = {}

-----------------------------------------------------------------------------
(* Types.  A response to a message that was not understood has identifier 0, *)
(* an event has none.                                                        *)

Stages == {"opening", "opened", "handshake", "answered", "ready", "failing", "failed"}
Ops == {"Connect", "Invoke", "SubscribeEvent", "CancelEvent"}
Tasks == [kind : {"opened", "connected", "failed", "subscribed"}, subscription : Nat]
Messages == [id : Nat \ {0}, op : Ops, subscription : Nat]
Responses == [kind : {"response"}, id : Nat, ok : BOOLEAN, subscription : Nat]
EventFrames == [kind : {"event"}, id : {0}, ok : BOOLEAN, subscription : Nat \ {0}]
ServerFrames == Responses \cup EventFrames

TypeOK ==
    /\ batched \in BOOLEAN
    /\ socket \in {"connecting", "open", "closing", "closed"}
    /\ stage \in Stages
    /\ closed \in BOOLEAN
    /\ nextId \in Nat \ {0}
    /\ pending \subseteq [id : Nat, op : Ops]
    /\ handlers \subseteq Nat /\ held \subseteq Nat
    /\ tasks \in Seq(Tasks)
    /\ toServer \in Seq(Messages)
    /\ toClient \in Seq(ServerFrames)
    /\ serverOpen \in BOOLEAN /\ peerOpen \in BOOLEAN
    /\ serverSubscriptions \subseteq Nat
    /\ nextSubscription \in Nat \ {0} /\ events \in Nat /\ called \in Nat
    /\ settled \subseteq Nat /\ granted \subseteq Nat /\ late \subseteq Nat
    /\ unanswered \subseteq Nat

-----------------------------------------------------------------------------
(* Requests, and the end of the client. *)

Task(kind, subscription) == [kind |-> kind, subscription |-> subscription]

\* A frame sent on a socket that is closing is lost.
Post(message) == toServer' = IF socket = "open" THEN Append(toServer, message) ELSE toServer

\* Mutant: a closed client takes requests.
RequestUnchecked(op, subscription) ==
    /\ nextId <= MaxRequests
    /\ nextId' = nextId + 1
    /\ pending' = pending \cup {[id |-> nextId, op |-> op]}
    /\ Post([id |-> nextId, op |-> op, subscription |-> subscription])

\* request: a closed client throws.
Request(op, subscription) ==
    IF closed THEN UNCHANGED <<nextId, pending, toServer>>
    ELSE /\ nextId <= MaxRequests
         /\ nextId' = nextId + 1
         /\ pending' = pending \cup {[id |-> nextId, op |-> op]}
         /\ Post([id |-> nextId, op |-> op, subscription |-> subscription])

\* What connect awaits is rejected: it goes on in its catch clause.
Rejected(rest) ==
    IF stage \in {"opening", "handshake"}
    THEN stage' = "failing" /\ tasks' = Append(rest, Task("failed", 0))
    ELSE UNCHANGED stage /\ tasks' = rest

\* Mutant: the handlers stay.
ForgetRequests ==
    /\ closed' = TRUE
    /\ pending' = {}
    /\ settled' = settled \cup {r.id : r \in pending}
    /\ UNCHANGED handlers

\* What finalize does to the requests and the handlers; the second time it has no
\* effect.
Forget ==
    IF closed THEN UNCHANGED <<closed, pending, handlers, settled>>
    ELSE /\ closed' = TRUE
         /\ pending' = {} /\ handlers' = {}
         /\ settled' = settled \cup {r.id : r \in pending}

Finalize ==
    /\ Forget
    /\ IF closed THEN UNCHANGED <<stage, tasks>> ELSE Rejected(tasks)

-----------------------------------------------------------------------------
(* IObjectClient.connect. *)

Idle == tasks = <<>>

\* onopen resolves waitOpen.
Open ==
    /\ Idle /\ socket = "connecting" /\ serverOpen
    /\ socket' = "open"
    /\ stage' = "opened"
    /\ tasks' = <<Task("opened", 0)>>
    /\ called' = 0
    /\ UNCHANGED <<batched, closed, nextId, pending, handlers, held, wire, server, settled,
                   granted, late>>

\* The timer of waitOpen, which its settlement clears, and onerror before the open.
OpenTimeout ==
    /\ Idle /\ stage = "opening"
    /\ Rejected(<<>>)
    /\ called' = 0
    /\ UNCHANGED <<batched, socket, closed, nextId, pending, handlers, held, wire, server,
                   settled, granted, late>>

\* connect sends its request when the socket has opened.
RunOpened ==
    /\ ~Idle /\ Head(tasks).kind = "opened"
    /\ Request("Connect", 0)
    /\ stage' = "handshake"
    /\ tasks' = Tail(tasks)
    /\ called' = 0
    /\ UNCHANGED <<batched, socket, closed, handlers, held, toClient, server, settled,
                   granted, late>>

RunConnected ==
    /\ ~Idle /\ Head(tasks).kind = "connected"
    /\ stage' = "ready"
    /\ tasks' = Tail(tasks)
    /\ called' = 0
    /\ UNCHANGED <<batched, socket, closed, nextId, pending, handlers, held, wire, server,
                   settled, granted, late>>

\* The catch clause of connect.
RunFailed ==
    /\ ~Idle /\ Head(tasks).kind = "failed"
    /\ socket' = IF socket = "closed" THEN "closed" ELSE "closing"
    /\ Forget
    /\ stage' = "failed"
    /\ tasks' = Tail(tasks)
    /\ called' = 0
    /\ UNCHANGED <<batched, nextId, held, wire, server, granted, late>>

-----------------------------------------------------------------------------
(* Calls of the user, who gets the client when connect has returned. *)

\* The client runs a handler or a task of the user's.
Ready == stage = "ready" /\ (Idle \/ batched)

\* RemoteObject: a request that leaves nothing behind, and the first half of subscribe.
Call(op) ==
    /\ Ready
    /\ op \in {"Invoke", "SubscribeEvent"}
    /\ Request(op, 0)
    /\ called' = 0
    /\ UNCHANGED <<batched, socket, stage, closed, handlers, held, tasks, toClient, server,
                   settled, granted, late>>

\* Mutant: the handler is forgotten when the answer comes, not when it is asked for.
CancelLate(s) ==
    /\ Ready
    /\ s \in held
    /\ held' = held \ {s}
    /\ granted' = granted \ {s}
    /\ Request("CancelEvent", s)
    /\ called' = 0
    /\ UNCHANGED <<batched, socket, stage, closed, handlers, tasks, toClient, server, settled,
                   late>>

\* Subscription.cancel and cancelEvent: the handler is forgotten before the request.
Cancel(s) ==
    /\ Ready
    /\ s \in held
    /\ held' = held \ {s}
    /\ handlers' = handlers \ {s}
    /\ granted' = granted \ {s}
    /\ Request("CancelEvent", s)
    /\ called' = 0
    /\ UNCHANGED <<batched, socket, stage, closed, tasks, toClient, server, settled, late>>

Close ==
    /\ Ready /\ ~closed
    /\ socket' = IF socket = "closed" THEN "closed" ELSE "closing"
    /\ Finalize
    /\ called' = 0
    /\ UNCHANGED <<batched, nextId, held, wire, server, granted, late>>

\* The second half of subscribe, which does not ask if the client has been closed.
RunSubscribed ==
    /\ ~Idle /\ Head(tasks).kind = "subscribed"
    /\ LET s == Head(tasks).subscription
       IN  /\ handlers' = handlers \cup {s}
           /\ held' = held \cup {s}
           /\ late' = IF closed THEN late \cup {s} ELSE late
    /\ tasks' = Tail(tasks)
    /\ called' = 0
    /\ UNCHANGED <<batched, socket, stage, closed, nextId, pending, wire, server, settled,
                   granted>>

-----------------------------------------------------------------------------
(* onMessage and onclose. *)

Frame(kind, id, ok, subscription) ==
    [kind |-> kind, id |-> id, ok |-> ok, subscription |-> subscription]

Receives == toClient # <<>> /\ socket \in {"open", "closing"} /\ (Idle \/ batched)

\* onResponse: a frame with an identifier, ignored unless a request awaits it.
OnResponse ==
    /\ Receives /\ Head(toClient).kind = "response"
    /\ LET frame == Head(toClient)
           awaited == {r \in pending : r.id = frame.id}
           op == (CHOOSE r \in awaited : TRUE).op
       IN  IF awaited = {} THEN UNCHANGED <<stage, pending, tasks, settled, granted>>
           ELSE /\ pending' = pending \ awaited
                /\ settled' = settled \cup {frame.id}
                /\ IF op = "Connect" /\ ~frame.ok THEN Rejected(tasks)
                   ELSE /\ stage' = IF op = "Connect" THEN "answered" ELSE stage
                        /\ tasks' = CASE op = "Connect" -> Append(tasks, Task("connected", 0))
                                      [] op = "SubscribeEvent" /\ frame.ok ->
                                            Append(tasks, Task("subscribed", frame.subscription))
                                      [] OTHER -> tasks
                /\ granted' = IF op = "SubscribeEvent" /\ frame.ok
                              THEN granted \cup {frame.subscription} ELSE granted
    /\ toClient' = Tail(toClient)
    /\ called' = 0
    /\ UNCHANGED <<batched, socket, closed, nextId, handlers, held, toServer, server, late>>

\* onEvent: a frame without one, ignored without a handler.
OnEvent ==
    /\ Receives /\ Head(toClient).kind = "event"
    /\ LET s == Head(toClient).subscription IN called' = IF s \in handlers THEN s ELSE 0
    /\ toClient' = Tail(toClient)
    /\ UNCHANGED <<batched, socket, client, toServer, server, settled, granted, late>>

\* The connection ends, by either side or by itself: what is under way is lost.
OnClose ==
    /\ Idle /\ socket # "closed"
    /\ socket' = "closed"
    /\ toServer' = <<>> /\ toClient' = <<>>
    /\ serverOpen' = FALSE /\ peerOpen' = FALSE /\ serverSubscriptions' = {}
    /\ Finalize
    /\ called' = 0
    /\ UNCHANGED <<batched, nextId, held, nextSubscription, events, unanswered, granted, late>>

-----------------------------------------------------------------------------
(* The server: RuntimeBridgePeer, which has no word in the end of the connection. *)

Served == serverOpen /\ toServer # <<>> /\ toServer' = Tail(toServer)

\* The peer answers the next request with success or an error; after one to Connect it
\* may shut itself.
Answer(ok, shuts) ==
    /\ Served /\ peerOpen
    /\ LET request == Head(toServer)
           subscribed == ok /\ request.op = "SubscribeEvent"
       IN  /\ shuts => request.op = "Connect" /\ ~ok
           /\ request.op = "CancelEvent" => ok = (request.subscription \in serverSubscriptions)
           /\ toClient' = Append(toClient,
                  Frame("response", request.id, ok, IF subscribed THEN nextSubscription ELSE 0))
           /\ nextSubscription' = IF subscribed THEN nextSubscription + 1 ELSE nextSubscription
           /\ serverSubscriptions' =
                  IF subscribed THEN serverSubscriptions \cup {nextSubscription}
                  ELSE IF request.op = "CancelEvent" THEN serverSubscriptions \ {request.subscription}
                  ELSE serverSubscriptions
    /\ peerOpen' = ~shuts
    /\ called' = 0
    /\ UNCHANGED <<batched, socket, client, serverOpen, events, unanswered, settled, granted,
                   late>>

\* The requests with data of the user's, which may be too long (the name of a domain, in
\* Connect, is taken to be short).
Carries == {"Invoke", "SubscribeEvent"}

\* A request that gets no answer: one that is too long is answered under identifier 0,
\* and the peer shuts itself; an exception of the application leaves the peer, and the
\* loop, which may not run again; a peer that has shut itself takes no request.
Unanswered ==
    /\ Served
    /\ LET request == Head(toServer)
       IN  /\ \/ /\ peerOpen /\ request.op \in Carries
                 /\ peerOpen' = FALSE
                 /\ toClient' = Append(toClient, Frame("response", 0, FALSE, 0))
              \/ /\ peerOpen /\ request.op = "Invoke"
                 /\ peerOpen' \in BOOLEAN
                 /\ UNCHANGED toClient
              \/ /\ ~peerOpen
                 /\ UNCHANGED <<peerOpen, toClient>>
           /\ unanswered' = unanswered \cup {request.id}
    /\ serverSubscriptions' = IF peerOpen' THEN serverSubscriptions ELSE {}
    /\ called' = 0
    /\ UNCHANGED <<batched, socket, client, serverOpen, nextSubscription, events,
                   settled, granted, late>>

\* An event of a subscription.
SendEvent(s) ==
    /\ serverOpen /\ peerOpen /\ s \in serverSubscriptions
    /\ events < MaxEvents
    /\ events' = events + 1
    /\ toClient' = Append(toClient, Frame("event", 0, TRUE, s))
    /\ called' = 0
    /\ UNCHANGED <<batched, socket, client, toServer, serverOpen, peerOpen, serverSubscriptions,
                   nextSubscription, unanswered, settled, granted, late>>

\* The server stops.  The frames that it has sent come before the end of the connection.
ServerClose ==
    /\ serverOpen /\ socket # "connecting"
    /\ serverOpen' = FALSE /\ peerOpen' = FALSE /\ serverSubscriptions' = {}
    /\ called' = 0
    /\ UNCHANGED <<batched, socket, client, wire, nextSubscription, events, unanswered,
                   settled, granted, late>>

-----------------------------------------------------------------------------
RunTask == RunOpened \/ RunConnected \/ RunFailed \/ RunSubscribed

Subscriptions == 1 .. MaxRequests

User ==
    \/ \E op \in {"Invoke", "SubscribeEvent"} : Call(op)
    \/ \E s \in Subscriptions : Cancel(s)
    \/ Close

Answers == (\E ok \in BOOLEAN, shuts \in BOOLEAN : Answer(ok, shuts)) \/ Unanswered

Next ==
    \/ Open \/ OpenTimeout \/ RunTask
    \/ User
    \/ OnResponse \/ OnEvent \/ OnClose
    \/ Answers \/ (\E s \in Subscriptions : SendEvent(s)) \/ ServerClose

\* A connection that a side has closed ends, as the close handshake of WebSocket has it.
Ending == socket = "closing" \/ (~serverOpen /\ toClient = <<>>)

\* Tasks and the timer are run by the JavaScript engine, frames delivered by the
\* socket, and requests taken because the handlers of the application return.
Spec ==
    /\ Init
    /\ [][Next]_vars
    /\ WF_vars(RunTask)
    /\ WF_vars(OpenTimeout)
    /\ WF_vars(OnResponse \/ OnEvent)
    /\ WF_vars(Answers)
    /\ WF_vars(Ending /\ OnClose)

-----------------------------------------------------------------------------
(* Properties. *)

\* The code after the await of subscribe that stores the handler of s has not run.
Waiting(s) == \E i \in 1 .. Len(tasks) : tasks[i].kind = "subscribed" /\ tasks[i].subscription = s

\* An event of a subscription reaches its handler if the client has had the answer to
\* subscribe, and has neither cancelled nor been closed since, unless the code after the
\* await has still to run: that happens only where several frames share a task.  None
\* that was under way when cancel or close was called reaches a handler, but for a
\* subscription that was stored after the close.
EventsReachHandlers ==
    [][OnEvent =>
          LET s == Head(toClient).subscription
          IN  /\ called' = s => s \in granted /\ (closed => s \in late)
              /\ s \in granted /\ (closed => s \in late) => called' = s \/ Waiting(s)
              /\ Waiting(s) => batched]_vars

\* A closed client keeps no request, and no handler but those of the subscriptions whose
\* answers came before the close and whose code after the await came later, of which
\* there are none where every frame has a task of its own; and connect never returns a
\* client that it has given up.
ClosedIsQuiet ==
    /\ closed => pending = {} /\ handlers \subseteq late
    /\ late # {} => batched /\ closed
    /\ stage = "failed" => closed /\ socket \in {"closing", "closed"}

\* Every promise is settled: connect ends, at the latest by its timer or with the
\* connection, and so does every request, which has no timer of its own, also one sent
\* into a socket that is closing, unless the server has taken it without an answer.
PromisesSettle ==
    /\ <>(stage \in {"ready", "failed"})
    /\ \A id \in 1 .. MaxRequests : nextId > id ~> id \in settled \cup unanswered
==============================================================================
