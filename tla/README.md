# IRuntimeObject in TLA+

This directory models IRuntimeObject: the object kernel of
`src/src/RuntimeObject.cpp`, the executor of `src/src/Executor.cpp`, the remote
bridge on top of them (`RuntimeBridge.cpp`, `RuntimeBridgeProtocol.cpp`,
`WebSocketServer.cpp`), and the JavaScript client at its other end (`src/js/src`).
TLC checks the modules on small instances; TLAPS proves most of the safety
properties for instances of any size.

## The system

IRuntimeObject is a C++17 object runtime. Native objects are wrapped in
`IRuntimeObject`s that form a named directed acyclic graph, publish events, sync
byte channels, and can be reached from a browser through a WebSocket bridge. All
objects of a process are confined to one *loop thread* (`assertLoopThread`), on
which an executor runs tasks in order.

| Component | State | Operations | Correct when | Modelled |
|---|---|---|---|---|
| Topology (`RuntimeTopology`, `RuntimeObject`) | `childrenByParent_`, derived `parentsByChild_`, life cycle | `Connect`, `Disconnect`, `releaseInternal`, `GetChildItem` | acyclic; edges join Active objects; index exact | `RuntimeTopology`, `CycleSearch` |
| Pointers (`RuntimeObjectPointer`) | `target_`, `released_`, `pointersByTarget_` | `Bind`, `Unbind`, `Release`, forwarding | never dangle | `RuntimeTopology` |
| Subscriptions | two tables by identifier, four indexes, a counter | `SubscribeEvent`, `SubscribeChannel`, cancel, clean-up at release | indexes exact; nothing outlives an end | `SubscriptionRegistry` |
| Event dispatch | the call stack; active path and count of a chain | `publishEvent`, `publish`, events of the operations above | right receivers; releases complete; calls return | `RuntimeKernel` |
| Channel synchronisation | the branches in progress and their path | `synchronizeChannels`, `ReadData`, `WriteData` | every channel that is subscribed gets the change, once per way; the ends are alive | `RuntimeKernel`, `ChannelPropagation` |
| Executor | queue, stop flag, owner, loop thread | `Post`, `Run`, `Stop` | serial, in order, no lost wakeup | `SerialExecutor`, `SingleThreadExecutor` |
| `HostLoopExecutor`, `UseExecutor` | callbacks of the host | forwarding | that of the host | no |
| Session, domain (`RuntimeBridge.cpp`, `RuntimeDomain.cpp`) | handle tables, Released watches, relay object | `registerObject`, `invalidate`, `SubscribeEvent`, `Close` | a handle never names a dead object | `RuntimeSession` |
| Protocol peer (`RuntimeBridgeProtocol.cpp`) | session of a connection, closed flag | `receive`, request handlers, `close` | one answer per request, none after close | `BridgePeer` |
| WebSocket server (`WebSocketServer.cpp`) | connections, peers, network thread | `onOpen`, `onMessage`, `onClose`, `Stop` | peers never used by two threads at once; none left over | `WebSocketServer` |
| JavaScript client (`js/src`) | stage of `connect`, pending requests, event handlers, code after awaits | `connect`, `request`, `subscribe`, `cancel`, `close`, frames | promises settle; events reach their handlers; nothing is kept after a close | `IObjectClient` |
| Logger | sinks | codec of records | decoding inverts encoding | no |

How they interact: the executor runs everything else on the loop thread. The
kernel's operations change the topology or the registry *first* and then call
event handlers synchronously; a handler may call any operation again. Sessions
are subscribers of the kernel (a relay object per session) and learn of the end
of an object by its `Released` event. The server carries messages from its
network thread to the loop thread with `Post`. A change of a data channel is an
event like any other; when its handlers have run, the publish goes on to copy the
channel along its subscriptions, which reads and writes objects and announces
each copy as the next change.

The hard parts are therefore: reentrancy (the handler of a half-done operation
changes the tables), state that is copied before the handlers run (snapshots of
subscribers, detached edges, `previous` in `Connect`), exceptions of handlers,
identifiers that are used again, the limits that cut off an event chain, and the
few places where threads do meet: the executor and the server. Where the
application runs in the middle of a request or of an event frame, it may take
away what the bridge is working with. `PROJECT.json` lists each one as a hazard, at
its line, with the properties that cover it.

## Modules

    RuntimeTopology <--(EXTENDS)-- CycleSearch
         ^
         | INSTANCE
    RuntimeKernel <--(EXTENDS)-- ChannelPropagation
         |      ^
         |      +----(INSTANCE)-- RuntimeSession
         | INSTANCE
         v
    SubscriptionRegistry

    SingleThreadExecutor --implements--> SerialExecutor <--(INSTANCE)-- WebSocketServer

    BridgePeer          IObjectClient (its server is the peer as the client sees it)

**RuntimeTopology** has one action per operation on the tables: `Create`,
`Connect`, `Disconnect`, `BeginRelease`, `EndRelease`, `Destroy`, `Bind`,
`Unbind`, `ReleasePointer`. Each is atomic because the code calls no handler
between its guards and its last write; this is read from the code, and nothing
here tests it. A release is two actions: handlers run
while the object is Releasing. The maps of the code are total functions here, a
missing entry being `NoNode` or the empty set. The parent index is a variable of
its own that actions update as the code does (`rebuildIncoming`), and
`DetachTopology` reads the parents *from the index*, so that a stale index would
do the damage it would do in the code. `WouldCreateCycle` is stated as
reachability.

**CycleSearch** is the loop of `wouldCreateCycle`, one iteration per step, on
the graphs that `RuntimeTopology` reaches. Its answers are shown to be those of
`WouldCreateCycle`; this is why `RuntimeTopology` may use the definition. The
vector of the code is a set: a second copy of an object is dropped by the
`visited` test whenever its turn comes.

**SubscriptionRegistry** has the tables of event and channel subscriptions, their
indexes and `allocateSubscriptionId` with its wrap. `RemoveEvents` and
`RemoveChannels` take a set of identifiers, so that the loops of
`removeSubscriptionsFor` are one step; what the loops find is read from the
indexes (`EventsOf`, `ChannelsOf`).

**RuntimeKernel** puts the two together and adds what makes the single thread
concurrent: an explicit call stack. Its frames are running handlers, publishes
with the rest of their snapshot, synchronisations with the channel subscriptions
they have still to follow, `Connect`/`Disconnect` calls with the events they have
still to publish, and releases with the edges they have still to announce. User
code (any operation) runs when the stack is empty, when a handler is on top, and
inside the `ReadData` and `WriteData` of objects; the runtime's own steps run
otherwise. An exception drops frames down to a catcher, which is
`releaseInternal`, user code, or the caller of the outermost call.

A `sync` frame takes one subscription after the other (`NextBranch`). For one it
follows, its phase tells how far the copy has come: `ReadData` of the source runs
(`reading`), it calls the receiver (`Receive`), which writes the target if it is
still Active (`writing`), then `ReadData` goes on and returns; a copy that was
made is announced from the target with a publish of its own, which synchronises
in turn. `ChannelPath` is the path that keeps a branch from coming back.
`EventDispatchScope` is `Truncated` and `CountFor`. The data of an event is an
object of the runtime, too. Where the publish owns it (`owned`: the data of the
child events and of the copies of a channel, and what user code hands over), it
dies when the publish is over, and its own `Released` event, to which nobody
subscribes, counts in the chain like any other: `OwnersLeft` and `DataDies`. A
handler may delete an object that no call in progress still holds (`InUse`); the
rule book demands no less (`src/IObject_规则书与设计评估.md`, lines 54-64).

**ChannelPropagation** bounds the kernel to a given set of channel subscriptions
and adds the history of the outermost call: whether user code, an exception, a
failed copy or a limit has disturbed it, and what it has written (`undisturbed`,
`copied`; `nested` counts the operations called inside, for a bound). With it the
promise of a propagation can be stated against a definition of its own, the ways
along subscriptions that pass no object twice.

**SerialExecutor** is what the comments of `Executor.hpp` promise.
**SingleThreadExecutor** is the class: each critical section is a step, except
that the loop holds the mutex from its evaluation of the predicate until it
blocks or has taken a task, because `Stop()` writes its flag without the mutex and
can come in between. Notifications are steps of their own. The flag is read as
last written; its relaxed ordering allows later, not earlier, knowledge of it.

**RuntimeSession** is one remote session, on the kernel: `registerObject` with
its Released watch, `invalidate`, the event subscriptions, and `close` step by
step, called from any user code, handlers included. A handle is the address of
its object, so an object that is deleted and made again has the same one. Every
step is an operation of the kernel or leaves it alone, and the run shows that the
session implements `RuntimeKernel`. `unheard` records the objects whose Released
event did not reach the watch: the limits dropped it, or a handler before it
threw.

**BridgePeer** is the protocol of one connection. `ReadData`, `WriteData` and
`Invoke` go into the application: such a request is `Call`, any steps of the
application, and then `Return`, which answers, or `Throw`, which does not. The
application also runs in the handlers of other subscribers to an event and in the
`ReadData` that the callback of a change makes before it sends its frame
(`Deliver`, `Send`). There it may publish and release again, so `stack` holds the
events and the releases in progress. A release makes the object inactive first;
then its `ChildDisconnected` and `Released` events go out (`Announce`), the watch
hears of the second (`Hear`) and drops the handle, the client is told, and at
last the subscriptions end (`EndRelease`). At each event the runtime may drop
what it has to say, because the same event is in progress or a limit is reached,
and at each handler an exception may cut off the events up to the release or the
request that is above; then handles outlive their objects, as `session_stale`
shows. The count of the events of a chain is not kept: any event inside of
another one may be one too many. The objects are children of `Root`, objects in
use are not deleted, and the callback that sends a frame does not throw. A handle
that outlived its object is used while the object is still there, or after
another has come to its address; the code would read freed memory in between, and
that is left out. `known` is what the client believes it has subscribed to,
`forsaken` counts the requests that an exception or the host left without an
answer, and `missed` has the subscriptions whose `Released` event was lost.

**IObjectClient** is the client of one connection. JavaScript runs a task at a
time, and the code behind an `await` is a task of its own, which runs after the
one that settled the promise: `tasks` holds what is due. So between the answer to
`SubscribeEvent` and the task that stores the handler (`RunSubscribed`) there is
a gap, and so is there between the answer to `Connect` and the return of
`connect`. `batched`, chosen in the initial state, says whether the socket hands
over several frames without those tasks in between, as the sockets of Node and
`ws` may; `js/README.md` supports these beside the browser's. There frames, and
what the user does in the handlers that they call, fall into the gap. `late`
has the subscriptions whose handler was stored after the client had been closed.
The socket keeps frames in order and may end at any time.

The server is `RuntimeBridgePeer` as the client sees it. It takes requests in
order and answers under their identifiers, except for three cases
(`Unanswered`): a request that the socket lets through and the peer finds too
long is answered under identifier 0, and the peer shuts itself; an exception of
the application leaves the handler of an `Invoke`, the peer and the loop, which
may not run again; a peer that has shut itself ignores what comes. The name of
the domain in `Connect` is taken to be short.

**WebSocketServer** runs over `SerialExecutor`: a callback of the network thread
submits tasks, the loop thread starts and finishes them. `onMessage` is two steps,
the look-up under the mutex (`FindConnection`) and the use of the peer after it
(`Reject`, `Forward`); `Stop` is two as well, around its join, and is called by a
task of the loop or by another thread. A frame that the socket takes and the peer
does not (`Long`) makes the peer shut itself. Requests throw nothing here: what an
exception does to the loop is in `SingleThreadExecutor` (`TaskThrows`).

Modules ending in `Proofs` hold the theorems. `MC*` modules add the bounds and
definitions of small instances. Definitions marked *Mutant* are the deliberate
bugs with which each property is shown to be able to fail; no specification uses
them.

## Runs

| Run | Instance | Shows |
|---|---|---|
| `topology` | 4 objects, 2 pointers, 2 names, `WithinBounds` | exact index, edges join Active objects, acyclicity, pointers; a step changes one edge or removes those of one object; the search for a cycle, begun on any of these graphs, answers reachability and ends |
| `registry` | 2 objects, 2 event types, 2 channels, 3 identifiers, symmetry | exact indexes, unshared identifiers, nothing outlives an end; a step ends one subscription or those of one object |
| `kernel` | 2 objects, 1 pointer, 1 name, 1 user event, 1 channel, 3 identifiers, depth 2, 2 events per chain, `PointersOutside`, `ChangesOwned` | one release per Releasing object, sound snapshots, `Released` once, handlers hear only of the living; every step is a step of the topology and of the registry; every outermost call returns |
| `channels` | 3 objects, 2 channels, 4 channel subscriptions, 1 event subscription, 2 operations inside a call, depth 3, 6 events per chain | an undisturbed change reaches exactly the channels it should; no copy reads or writes a dead object, whatever the disturbance |
| `executor` | 2 threads beside the loop, 3 tasks, tasks may throw | order, no sleep beside a task, refinement, queued tasks are run |
| `session` | root, relay and 1 more object, 5 subscriptions, 1 entry, 1 listener, depth 2, 2 events per chain, handlers may throw | a watch behind every handle that can be told, nothing left behind, refinement of the kernel |
| `peer` | 3 objects, changes and the events of the runtime, 2 subscriptions, 5 requests, depth 2, symmetry of the objects beside `Root` | one answer per request that no exception and no host cut off, frames match subscriptions, the client is told of the releases that are not lost, the tables agree |
| `server` | 2 connections, 2 domains, 2 frames | peers unshared and owned, messages find their peers; peers go, `Stop` returns |
| `client` | 4 requests, 3 events, sockets of both kinds | events reach their handlers but for the gap behind an answer, a closed client keeps nothing but what that gap lets in, every promise settles that the server does not leave open |
| `executor_stop`, `session_stale`, `server_close` | as small as the case allows | the findings below |

Bounds. Four objects and two names give every shape that matters to the tables:
diamonds, double edges, chains of length three, and a revisited object in the
search. Pointers add nothing to a graph but a way to name a child, so
`WithinBounds` lets them be used beside at most one edge, and keeps the search,
which looks at edges alone, to states where none is in use. Three identifiers
make the counter of the registry wrap with all combinations of free and used
ones. In the kernel the counter does not wrap (`IdsRemain`): it is 64 bits wide,
and the snapshot property is about handles that are used again within one
publish.

Depth 2 already nests a publish in a handler of another and is cut off in all
three ways. Two objects are a source and a subscriber, a parent and a child, or
the two ends of a channel; the kernel is kept this small because its safety
invariants and both refinements are proved for every size, and the run has to
leave room for channels, for exceptions and for the liveness of calls. The limits
of the code (32 and 128) are the constants `MaxDepth` and `MaxPublishes`.
`PointersOutside` is a state constraint: no pointer is bound while a call is in
progress. A call made *through* a bound pointer is therefore checked in its first
step only; a call made while none is bound runs to its end. The constraint hides
no fair run of those: what leaves the constraint from inside a call is a `Bind`
that user code need never make, so a run that never ended would be seen.

`ChangesOwned` has user code hand over the data exactly where it names a channel:
both values of `owned` occur, without doubling every publish.

The channels of `channels` form two ways from `a` to `c`, one direct and one
through `b` by another channel, and a way back from `c` to `a`: a branch that is
cut, one that is entered twice by right, and a cycle. Depth 3 and 6 events, of which
every copy costs two (the change, and the end of its data), let the ways finish and
a longer chain be cut off. Two operations inside a call
are a release of one end and a cancellation, in either order.

The executor's interleavings are between two notifiers, the loop and a task; a
third thread repeats one of them. In the session run, one object beside the root
is enough to be a child, a listener, a released object and a new one at the same
address; the relay takes part as an ordinary object of the kernel. Five requests
allow a connect, the children, two subscriptions and a call that publishes or
releases. Depth 2 nests an event in the `ReadData` of a frame and loses the next.
Two frames are a
connect and what follows it, a request, a close, or a frame that is too long.
Four requests of the client
are the connect, a subscribe, a cancel and one more.

Fairness. `RuntimeKernel` has weak fairness of the runtime's own steps, which are
sequential code, and strong fairness of `UserReturn`, that is of `HandlerReturn`
and of the return of `WriteData` and `ReadData`: code that is brought back to
itself again and again returns at some time. No fairness is assumed of an
exception, and none of any user operation. `SingleThreadExecutor` has weak
fairness of the loop thread where it is not blocked (a task returns; the mutex is
held for bounded sections only), of calling `Run()`, and of the notification that
a thread in `Post` or `Stop` still owes. Spurious wakeups are allowed and never
relied on: fairness for them would hide the lost wakeup of `Stop`.
`WebSocketServer` has weak fairness of the loop, of the callback that is running,
of the end of the network thread, of `Stop`, and of the closing of a connection
that the server closes (the network library times it out). Nothing is assumed of
clients. `CycleSearch` has weak fairness of the loop. `IObjectClient` has weak
fairness of the tasks and the timer of the JavaScript engine, of the delivery of
frames, of the taking of requests (the handlers of the application return or
throw; a request that the server does not answer is taken too), and of
the end of a connection that a side has closed; none of the user and none of an
opening socket, which is why `connect` needs its timer.

## Theorems

All proofs are for any constants that satisfy the named assumptions (the null
values lie outside the sets they stand beside, the limits are positive
naturals, user code leaves the three event types of the runtime alone).

- **Topology** (`RuntimeTopologyProofs`). The conjunction of the invariants is
  inductive: acyclicity needs the exact index, because a release deletes through
  it, and a new edge keeps the graph acyclic because a cycle through it would
  make the parent reachable from the child. `EdgesLocal` uses the invariant for
  the release.
- **Search** (`RuntimeTopologyProofs`, too). `SearchInvariant` says that what has been
  visited has its children visited or pending. When nothing is pending the
  visited objects are a closed set around the child without the parent, which is
  the negation of `WouldCreateCycle`.
- **Registry** (`SubscriptionRegistryProofs`). The indexes must be exact for the
  clean-up of a release to be complete, so exactness, unshared identifiers and
  living ends are inductive together.
- **Kernel** (`RuntimeKernelProofs`). The kernel implements both components.
  Its actions are conjunctions of theirs, so that what has content here is where it
  leaves a component alone and where it destroys objects. The components' invariants are then *inherited*, by citing the theorems of the component
  modules through `INSTANCE`. On top of them `StackInv` is inductive: the
  releases on the stack match the Releasing objects one to one, every identifier
  of a snapshot lies below the counter and, if still in use, subscribes to the
  event of its publish, and a publish of `Released` lies on the release that
  announced it. Lemmas say how the parts survive a push, a pop, an advance of the
  top frame and the frames dropped by an exception.
  `HandlersHearTheLiving` needs that nothing but its last events is published from
  an object that is Releasing. A publish or a `Connect` that was in progress when
  the release began would do so if it went on; `Shielded` says that the release
  lies above it on the stack, and so ends, with the subscriptions of the object,
  before the call goes on. The same invariant has every copy go between living
  objects (`CopiesStayAmongTheLiving`).
- **Propagation** (at the end of `RuntimeKernelProofs`). `PropagationInv` holds as
  long as nothing has disturbed the outermost change. From the bottom, the stack
  then alternates between changes and what lies above each of them, a handler that
  hears of it or the loop that copies it; consecutive changes are joined by a
  subscription, no release is in progress, and no object changes twice. The heart
  is an account of the *ways*, the chains of subscriptions that pass no object
  twice: the end of every way of the outermost change is copied, or the way is
  *pending* where it leaves the branch under way, because the change there is
  still to be announced, its next subscription is still in the snapshot of the
  loop, or it is the one being followed. A loop moves to a subscription exactly
  when its target is not on the branch (`PathIsSources`: the recorded path is the
  objects that change), and what it gives up is a way that would pass one twice.
  Conversely what is copied is the end of a way, the one along the stack. When the
  outermost change returns, no way is left pending. The snapshots need the exact
  index of the registry, and that links join objects that are Active.
- **Session** (`RuntimeSessionProofs`). The session drives the kernel by the
  operations of the kernel only, so that every theorem of the kernel holds under
  a session and is cited for it (`KernelFacts`). `SessionInv` then adds what the
  session has recorded. Its *tables*: identifiers are given out once; the watch of
  a handle, when it is recorded, is the newest subscription of it or an older one
  that is never used again; an entry of the relay has a handle or an object that
  is Releasing; the watch was made before every other subscription of the relay to
  the object. Its *calls*: a request between two calls of the runtime has recorded
  what the first one returned (`PhaseInv`), and while a release is announced the
  watch of the object is in its snapshot, in the hand of the relay, or has been
  dropped by the limits (`unheard`). `RelaySubscriptionsOwned` and `WatchesStand`
  read the tables, `ToldAfterInvalidation` the order of watch and subscription.
- **Executor** (`SingleThreadExecutorProofs`). The invariant records what the
  mutex protects between the predicate and the wait: the queue is still empty when
  the loop blocks. From it follow that the loop never sleeps on a task, and that
  the class implements `SerialExecutor`.
- **Server** (`WebSocketServerProofs`). No reset waits for a connection that is
  in the table or still to come (`QuietInv`), and the frame in the hand of the
  network thread is of a connection in the table while that thread lives
  (`HandInv`). Hence a peer in use is never about to be reset, and a peer taken from
  the table always has its reset waiting. In the queue the messages of a
  connection stand before its reset (`FramesFirst`), and while `Stop` joins on the
  loop thread no task starts (`StopInv`): a message on its way still finds the
  peer, until that `Stop` has returned.
- **Peer** (`BridgePeerProofs`). Three accounts are kept together. Of answers: a
  request without one is the request whose handler is running, or one that an
  exception or the host cut off (`forsaken`). Of snapshots (`SnapshotOf`): what is
  left of the snapshot of any event on the stack names only subscriptions to that
  event, and the one whose frame is on its way is known to the client if the peer
  is still open. Of releases (`CoversAt`): when a release has published
  `Released`, every subscription that ends with the object is told, lost
  (`missed`), or still in the snapshot or the hand of the event right above the
  release. `ShapeOf` says what may lie above what on the stack, so that this event
  is the right one. The tables of peer, session and client agree in every state,
  also in the gaps in which the application runs.
- **Client** (`IObjectClientProofs`). `StageInv` says what may be pending and which
  tasks may wait at each stage of `connect`; that no task which stores a handler
  is left when the client is closed holds only where every frame has a task of its
  own, and `late` accounts for the rest. `FreshInv` says that the number of a
  subscription is at one place on its way from the server to the user, so that no
  handler is cancelled before it is stored. `GrantedInv` follows: a granted
  subscription has its handler or a task on the way to it, and nothing else has.
  Both theorems are for sockets of either kind.

Theorems without a run of their own are the type invariants of the topology, the
kernel and the peer, the invariant of the session, and `LoopThreadRecorded`. The
type invariants of the search, the registry, the executor, the server and the
client are part of the inductive invariants.

Only model-checked: the liveness properties (`SearchEnds`, `CallsReturn`,
`PostedTasksRun`, `SessionsEnd`, `StopReturns`, `PromisesSettle`), which are beyond
the prover's support for fairness.

## Findings

- `executor_stop`: `Stop()` stores its flag and notifies without the mutex. Both
  can happen after `Run()` has evaluated the predicate of its wait and before it
  blocks; the wakeup is lost and `Run()` sleeps although it was asked to stop.
  `Executor.hpp:21` says that it returns after the current task. `Post()` does
  not have the problem, because it takes the mutex; the run `executor` shows it.
- `session_stale`: the watch that invalidates a handle is a subscription, and the
  limits of the event chain drop its event like any other. The handle of the
  released object then stays valid, which the rule book (line 241) excludes.
- `server_close`: a peer that closes itself, after `Close` for example, leaves its
  connection open; the protocol (section 4.6) says that the server closes both.

More places where a text and the code part, or where a promise has a condition,
are in the modules as the code has them, without a run of their own:

- A task that throws leaves `Run()` past the lines that clear the owner and the
  loop thread (`TaskThrows`), while `ThreadAffinity.hpp:8` says that the loop
  thread is empty when no loop runs.
- `Stop()` on another thread than the loop only posts the end of the sessions
  (`FinishStop`), and messages queued before may still open new ones after it has
  returned; `WebSocketServer.hpp:55` says that it destroys all sessions. What
  does hold is `SessionsEnd`.
- An unknown domain in the first frame closes the connection (`Reject`) without
  the `DomainNotFound` answer of section 4.1 of the protocol.
- `Stop()` on the loop thread (`FinishStopOnLoop`) resets the peers ahead of the
  messages that wait in the queue, which are then dropped: `FramesReachPeers`
  excepts it.
- With a socket that hands over several frames in one task, an event that comes in
  the same task as the answer to `SubscribeEvent` is lost, and a client that is
  closed there stores the handler afterwards (`client.ts:138` does not ask).
  `EventsReachHandlers` and `ClosedIsQuiet` say that nothing else is lost or kept;
  in a browser every frame has its own task, and neither happens.
- A request that is too long for the peer, that throws, or that comes to a peer
  which has shut itself gets no answer under its identifier, and its promise stays
  open until the connection ends: requests have no timer. `PromisesSettle` and
  `EachAnsweredOnce` except exactly these.
- The executor starts no task after a stop in the sense that none is *taken* once
  the flag has been read (`Executor.cpp:52`); the body of a task taken before may
  begin after `Stop()` has returned on another thread.
- A change that user code publishes inside of another one adds to the path of the
  outer one (`RuntimeObject.cpp:128-131`), so that it does not reach objects that
  the outer one has come through, while the design speaks of a context for each
  outermost propagation. `ChannelPath` is what the code does, and
  `PropagationComplete` is about propagations without such a publish.
- The receiver writes at its first call, also when a second call, which
  `ReadData` should not make, has the copy fail afterwards. A receiver that is
  kept and called after `ReadData` has returned is outside of the contract and of
  the model.

## Not modelled, and the plan

Left out for good: vendored libraries, the template adapters (no state of their
own), allocation failures, the payloads of events and channels, and lookups that
only read. User-defined implementations of `IRuntimeObject` are taken to be
runtime objects. `HostLoopExecutor` forwards to callbacks of the host, and
`UseExecutor` is called before a loop runs. The listeners of the client's
`onClose` change nothing of the client, and its decoding of frames is left to
MessagePack. The `Logger` is synchronous formatting and forwarding of records.

Next, in this order:

1. An executor that is stopped while the server runs, and a second `Stop`.
2. A mirror of the children of an object, as a client builds it from the events,
   against the overwrite whose handler changes the edge again
   (`RuntimeObject.cpp:380`).
3. The record codec of the logger, by bounded arithmetic.
