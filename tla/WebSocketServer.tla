--------------------------- MODULE WebSocketServer ---------------------------
(***************************************************************************)
(* WebSocketServer (src/src/WebSocketServer.cpp): one thread of the        *)
(* network library takes what comes from the clients, and hands everything *)
(* that touches objects to the loop thread, through the executor.          *)
(*                                                                         *)
(* A callback of the network thread is one step, but onMessage is two: it  *)
(* finds the connection under a mutex and uses its peer after the mutex is *)
(* released.  Stop is called by a task of the loop or by another thread of *)
(* the host, and waits for the network thread in the middle.               *)
(*                                                                         *)
(* Of a peer there remains whether it has a session and is open; its       *)
(* requests are those of BridgePeer, and here none of them throws.  The    *)
(* executor keeps running: what it drops when it is stopped is not looked  *)
(* at.  Stop is called once, and not from within a request, where it would *)
(* delete the peer that handles it.  What becomes of the sockets when the  *)
(* network thread has ended is left out.                                   *)
(***************************************************************************)
EXTENDS Integers, Sequences, FiniteSets

CONSTANTS
    Conns,          \* connections, each a client that comes once
    Domains,        \* names of domains
    None,           \* no domain, no task, no frame
    MaxFrames       \* bound: frames that all clients send together

ASSUME BoundsAssumption == MaxFrames \in Nat

VARIABLES
    domains,        \* the names that have a route
    transport,      \* per connection: new, open, closing (by the server), closed
    connections,    \* the connections in the table of the server
    peer,           \* per connection: none, idle, session, or shut by itself
    route,          \* the domain that the peer was made for
    net,            \* the network thread: running, stopping, ended
    hand,           \* the frame that onMessage is about to use the peer for
    stop,           \* Stop: whether it is called, and on the loop thread or elsewhere
    frames,         \* how many frames came
    inLoop, pending, current, stopping     \* the executor

executor == <<inLoop, pending, current, stopping>>
tables == <<domains, connections, peer, route>>
vars == <<tables, transport, net, hand, stop, frames, executor>>

\* A long frame is one that the socket takes and the peer does not.
Frames == [op : {"Connect"}, domain : Domains]
          \cup [op : {"Request", "Close"}, domain : {None}]
          \cup [op : {"Long"}, domain : Domains \cup {None}]
Messages == [conn : Conns, frame : Frames]
StopTask == [op |-> "stop"]
Tasks == Messages \cup [reset : SUBSET Conns] \cup {StopTask}

ASSUME NoneAssumption == None \notin Domains \cup Tasks

Loop == INSTANCE SerialExecutor WITH NoTask <- None

TypeOK ==
    /\ domains \in SUBSET Domains
    /\ transport \in [Conns -> {"new", "open", "closing", "closed"}]
    /\ connections \in SUBSET Conns
    /\ peer \in [Conns -> {"none", "idle", "session", "shut"}]
    /\ route \in [Conns -> Domains \cup {None}]
    /\ \A c \in Conns : peer[c] # "none" => route[c] \in Domains
    /\ net \in {"running", "stopping", "ended"}
    /\ hand \in Messages \cup {None}
    /\ stop \in {"none", "posted", "joining on the loop", "returned on the loop",
                "joining", "returned"}
    /\ frames \in 0 .. MaxFrames
    /\ inLoop \in BOOLEAN /\ stopping = FALSE
    /\ pending \in Seq(Tasks) /\ current \in Tasks \cup {None}

\* Where the port is taken there is no network thread.
Init ==
    /\ domains = {}
    /\ transport = [c \in Conns |-> "new"]
    /\ connections = {}
    /\ peer = [c \in Conns |-> "none"]
    /\ route = [c \in Conns |-> None]
    /\ net \in {"running", "ended"}
    /\ hand = None
    /\ stop = "none"
    /\ frames = 0
    /\ Loop!Init

BindDomain(d) ==
    /\ domains' = domains \cup {d}
    /\ UNCHANGED <<connections, peer, route, transport, net, hand, stop, frames, executor>>

-----------------------------------------------------------------------------
(* The network thread. *)

\* io.run calls the next handler, unless the io_service has been stopped.
NetFree == net = "running" /\ hand = None

OnOpen(c) ==
    /\ NetFree
    /\ transport[c] = "new"
    /\ transport' = [transport EXCEPT ![c] = "open"]
    /\ connections' = connections \cup {c}
    /\ UNCHANGED <<domains, peer, route, net, hand, stop, frames, executor>>

\* Mutant: the peer is not reset.
OnCloseForgets(c) ==
    /\ NetFree
    /\ transport[c] \in {"open", "closing"}
    /\ transport' = [transport EXCEPT ![c] = "closed"]
    /\ connections' = connections \ {c}
    /\ UNCHANGED <<domains, peer, route, net, hand, stop, frames, executor>>

\* Mutant: onClose runs on a second thread of the io_service, next to onMessage.
OnCloseConcurrent(c) ==
    /\ net = "running"
    /\ transport[c] \in {"open", "closing"}
    /\ transport' = [transport EXCEPT ![c] = "closed"]
    /\ connections' = connections \ {c}
    /\ Loop!Submit([reset |-> {c}])
    /\ UNCHANGED <<domains, peer, route, net, hand, stop, frames>>

\* Mutant: onClose resets the peer itself.
OnCloseDirect(c) ==
    /\ NetFree
    /\ transport[c] \in {"open", "closing"}
    /\ transport' = [transport EXCEPT ![c] = "closed"]
    /\ connections' = connections \ {c}
    /\ peer' = [peer EXCEPT ![c] = "none"]
    /\ UNCHANGED <<domains, route, net, hand, stop, frames, executor>>

\* The client or the server closes the connection.
OnClose(c) ==
    /\ NetFree
    /\ transport[c] \in {"open", "closing"}
    /\ transport' = [transport EXCEPT ![c] = "closed"]
    /\ connections' = connections \ {c}
    /\ Loop!Submit([reset |-> {c}])
    /\ UNCHANGED <<domains, peer, route, net, hand, stop, frames>>

\* onMessage up to the end of its first block.  A connection that the server is
\* closing gets no more frames.
FindConnection(c, frame) ==
    /\ NetFree
    /\ transport[c] = "open"
    /\ c \in connections
    /\ frames < MaxFrames /\ frames' = frames + 1
    /\ hand' = [conn |-> c, frame |-> frame]
    /\ UNCHANGED <<tables, transport, net, stop, executor>>

\* A text frame.
RejectText(c) ==
    /\ NetFree
    /\ transport[c] = "open"
    /\ frames < MaxFrames /\ frames' = frames + 1
    /\ transport' = [transport EXCEPT ![c] = "closing"]
    /\ UNCHANGED <<tables, net, hand, stop, executor>>

\* None for a frame that is no Connect, however long it is.
PeekConnectDomain(frame) == frame.domain

\* A first frame that is not a Connect, or names a domain without a route.
Reject ==
    /\ hand # None
    /\ peer[hand.conn] = "none"
    /\ PeekConnectDomain(hand.frame) \notin domains
    /\ transport' = [transport EXCEPT ![hand.conn] = "closing"]
    /\ hand' = None
    /\ UNCHANGED <<tables, net, stop, frames, executor>>

\* The frame goes to the peer, which is made for the first one.
Forward ==
    /\ hand # None
    /\ \/ /\ peer[hand.conn] = "none"
          /\ PeekConnectDomain(hand.frame) \in domains
          /\ peer' = [peer EXCEPT ![hand.conn] = "idle"]
          /\ route' = [route EXCEPT ![hand.conn] = PeekConnectDomain(hand.frame)]
       \/ /\ peer[hand.conn] # "none"
          /\ UNCHANGED <<peer, route>>
    /\ Loop!Submit(hand)
    /\ hand' = None
    /\ UNCHANGED <<domains, connections, transport, net, stop, frames>>

\* io.run returns once the handler has.
NetEnds ==
    /\ net = "stopping" /\ hand = None
    /\ net' = "ended"
    /\ UNCHANGED <<tables, transport, hand, stop, frames, executor>>

-----------------------------------------------------------------------------
(* The loop thread. *)

EnterLoop ==
    /\ Loop!EnterLoop
    /\ UNCHANGED <<tables, transport, net, hand, stop, frames>>

Start ==
    /\ Loop!Start
    /\ UNCHANGED <<tables, transport, net, hand, stop, frames>>

\* What Connect does to a peer without a session: it opens one, finds the bridge
\* unusable, or names another domain than the first frame did.
Connected(c, frame) ==
    IF frame.domain = route[c] THEN {"session", "idle"} ELSE {"shut"}

\* ReceiveMessage of a peer.  A frame that is too long makes it shut itself.
Received(c, frame) ==
    CASE peer[c] \in {"idle", "session"} /\ frame.op = "Long" -> {"shut"}
      [] peer[c] = "idle" /\ frame.op = "Connect" -> Connected(c, frame)
      [] peer[c] = "session" /\ frame.op = "Close" -> {"shut"}
      [] OTHER -> {peer[c]}

RunMessage ==
    /\ current \in Messages
    /\ \E p \in Received(current.conn, current.frame) :
          peer' = [peer EXCEPT ![current.conn] = p]
    /\ Loop!Finish
    /\ UNCHANGED <<domains, connections, route, transport, net, hand, stop, frames>>

Reset(conns) == peer' = [c \in Conns |-> IF c \in conns THEN "none" ELSE peer[c]]

RunReset ==
    /\ current \in [reset : SUBSET Conns]
    /\ Reset(current.reset)
    /\ Loop!Finish
    /\ UNCHANGED <<domains, connections, route, transport, net, hand, stop, frames>>

-----------------------------------------------------------------------------
(* Stop. *)

\* The host has Stop called on the loop thread ...
PostStop ==
    /\ stop = "none"
    /\ stop' = "posted"
    /\ Loop!Submit(StopTask)
    /\ UNCHANGED <<tables, transport, net, hand, frames>>

\* Mutant: joined without io.stop.
StopNetForgotten == net' = net

\* io.stop; without a network thread there is nothing to stop.
StopNet == net' = IF net = "running" THEN "stopping" ELSE net

RunStop ==
    /\ current = StopTask /\ stop = "posted"
    /\ stop' = "joining on the loop"
    /\ StopNet
    /\ UNCHANGED <<tables, transport, hand, frames, executor>>

\* ... or calls it on another thread.
CallStop ==
    /\ stop = "none"
    /\ stop' = "joining"
    /\ StopNet
    /\ UNCHANGED <<tables, transport, hand, frames, executor>>

\* On the loop thread the peers go at once.
FinishStopOnLoop ==
    /\ stop = "joining on the loop" /\ net = "ended"
    /\ connections' = {}
    /\ Reset(connections)
    /\ stop' = "returned on the loop"
    /\ Loop!Finish
    /\ UNCHANGED <<domains, route, transport, net, hand, frames>>

\* Mutant: the connections are dropped where there is no loop to run the task.
FinishStopDropping ==
    /\ stop = "joining" /\ net = "ended"
    /\ connections' = {}
    /\ IF inLoop /\ connections # {} THEN Loop!Submit([reset |-> connections])
                                     ELSE UNCHANGED executor
    /\ stop' = "returned"
    /\ UNCHANGED <<domains, peer, route, transport, net, hand, frames>>

\* Elsewhere their end is posted, if there are any.
FinishStop ==
    /\ stop = "joining" /\ net = "ended"
    /\ connections' = {}
    /\ IF connections = {} THEN UNCHANGED executor
                           ELSE Loop!Submit([reset |-> connections])
    /\ stop' = "returned"
    /\ UNCHANGED <<domains, peer, route, transport, net, hand, frames>>

-----------------------------------------------------------------------------
Network ==
    \/ \E c \in Conns : \/ OnOpen(c) \/ OnClose(c) \/ RejectText(c)
                        \/ \E frame \in Frames : FindConnection(c, frame)
    \/ Reject \/ Forward \/ NetEnds

LoopThread == EnterLoop \/ Start \/ RunMessage \/ RunReset \/ RunStop \/ FinishStopOnLoop

Host == (\E d \in Domains : BindDomain(d)) \/ PostStop \/ CallStop \/ FinishStop

Next == Network \/ LoopThread \/ Host

Spec == Init /\ [][Next]_vars

\* Callbacks end, the loop takes its tasks, Stop goes on when it can, and a
\* connection that the server closes is closed in the end, its client willing or not.
FairSpec ==
    /\ Spec
    /\ WF_vars(Reject \/ Forward \/ NetEnds)
    /\ WF_vars(LoopThread)
    /\ WF_vars(FinishStop)
    /\ \A c \in Conns : WF_vars(transport[c] = "closing" /\ OnClose(c))

-----------------------------------------------------------------------------
(* Properties. *)

\* The task t ends the peer of c.
Resets(t, c) == t \in [reset : SUBSET Conns] /\ c \in t.reset

Waiting == {pending[i] : i \in DOMAIN pending} \cup {current}

\* onMessage reads and sets the peer without a mutex: whoever may reset it has to
\* wait until the callback is over.
PeerUnshared ==
    hand # None => /\ hand.conn \in connections
                   /\ net # "ended"
                   /\ \A t \in Waiting : ~Resets(t, hand.conn)

\* A peer holds its connection and the connection its peer, so that only a reset ends
\* them: every peer is in the table or waits for its reset.
PeersOwned ==
    \A c \in Conns : peer[c] # "none" => c \in connections \/ \E t \in Waiting : Resets(t, c)

\* What a client sent before its connection ended still finds the peer: each message
\* on its way to the loop does.  Only a Stop on the loop thread resets the peers ahead
\* of the messages that wait.
FramesReachPeers ==
    \A t \in Waiting :
        t \in Messages => peer[t.conn] # "none" \/ stop = "returned on the loop"

Returned == stop \in {"returned", "returned on the loop"}

\* A connection that ended leaves no peer behind, and neither does a stopped server.
SessionsEnd ==
    \A c \in Conns : (transport[c] = "closed" \/ Returned) ~> (peer[c] = "none")

StopReturns == stop # "none" ~> Returned

-----------------------------------------------------------------------------
(* What the documentation says of the server, and the code does not do. *)

\* "After the response the server closes the session and the connection".
ClosedPeersDisconnect ==
    \A c \in Conns : (peer[c] = "shut") ~> (transport[c] # "open" \/ stop # "none")

=============================================================================
