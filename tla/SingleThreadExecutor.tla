------------------------ MODULE SingleThreadExecutor ------------------------
(***************************************************************************)
(* SingleThreadExecutor (src/src/Executor.cpp): one thread runs the loop,  *)
(* others post tasks and ask it to stop, and so do the tasks themselves.   *)
(*                                                                         *)
(* A critical section of the mutex is one step, except that of the loop,   *)
(* which holds the mutex while it evaluates the predicate of the wait and  *)
(* until it either blocks or takes a task: Stop() writes its flag without  *)
(* the mutex, so it can run in between.  Post() and Stop() notify after    *)
(* their write, in a step of their own.  The flag is read as it was last   *)
(* written; its relaxed ordering would allow the loop to see it later.     *)
(***************************************************************************)
EXTENDS Integers, Sequences

CONSTANTS
    Workers,        \* threads other than the one that calls Run()
    Loop,           \* the thread that calls Run()
    NoThread,       \* std::thread::id()
    NoTask,         \* no task is running
    MaxPosts,       \* bound of the model: tasks posted
    TasksThrow      \* whether a task may throw

ASSUME LoopAssumption == Loop # NoThread
ASSUME PostsAssumption == MaxPosts \in Nat
ASSUME NoTaskAssumption == NoTask \notin Nat
ASSUME ThrowAssumption == TasksThrow \in BOOLEAN

VARIABLES
    pc,             \* where the loop thread is in Run()
    workerPc,       \* the notification each worker still has to send
    queue,
    current,        \* the task being run
    posted,         \* how many tasks have been posted; names the next one
    stopped,
    owner,
    loopThread      \* detail::loopThread()

shared == <<queue, current, posted, stopped>>
affinity == <<owner, loopThread>>
vars == <<pc, workerPc, shared, affinity>>

Tasks == 1 .. MaxPosts

TypeOK ==
    /\ pc \in {"out", "enter", "lock", "check", "block", "wait", "take", "running",
               "leave", "left"}
    /\ workerPc \in [Workers -> {"ready", "notify"}]
    /\ queue \in Seq(Tasks)
    /\ current \in Tasks \cup {NoTask}
    /\ posted \in 0 .. MaxPosts
    /\ stopped \in BOOLEAN
    /\ owner \in {Loop, NoThread}
    /\ loopThread \in {Loop, NoThread}

Init ==
    /\ pc = "out"
    /\ workerPc = [w \in Workers |-> "ready"]
    /\ queue = <<>>
    /\ current = NoTask
    /\ posted = 0
    /\ stopped = FALSE
    /\ owner = NoThread
    /\ loopThread = NoThread

LoopHoldsMutex == pc \in {"check", "block", "take"}

-----------------------------------------------------------------------------
(* Run(). *)

CallRun ==
    /\ pc = "out"
    /\ pc' = "enter"
    /\ loopThread' = Loop
    /\ UNCHANGED <<workerPc, shared, owner>>

BecomeOwner ==
    /\ pc = "enter"
    /\ pc' = "lock"
    /\ owner' = Loop
    /\ UNCHANGED <<workerPc, shared, loopThread>>

Acquire ==
    /\ pc = "lock"
    /\ pc' = "check"
    /\ UNCHANGED <<workerPc, shared, affinity>>

\* The predicate of the wait.
CheckPredicate ==
    /\ pc = "check"
    /\ pc' = IF stopped \/ queue # <<>> THEN "take" ELSE "block"
    /\ UNCHANGED <<workerPc, shared, affinity>>

\* The wait releases the mutex and blocks in one step.
Block ==
    /\ pc = "block"
    /\ pc' = "wait"
    /\ UNCHANGED <<workerPc, shared, affinity>>

\* A condition variable may wake without a notification.
SpuriousWakeup ==
    /\ pc = "wait"
    /\ pc' = "lock"
    /\ UNCHANGED <<workerPc, shared, affinity>>

\* Mutant: the newest task is taken.
TakeNewest ==
    /\ pc = "take"
    /\ IF stopped
       THEN pc' = "leave" /\ UNCHANGED <<queue, current>>
       ELSE /\ pc' = "running"
            /\ current' = queue[Len(queue)]
            /\ queue' = SubSeq(queue, 1, Len(queue) - 1)
    /\ UNCHANGED <<workerPc, posted, stopped, affinity>>

\* The flag is read again; a stopped loop leaves the queue as it is.
Take ==
    /\ pc = "take"
    /\ IF stopped
       THEN pc' = "leave" /\ UNCHANGED <<queue, current>>
       ELSE /\ pc' = "running"
            /\ current' = Head(queue)
            /\ queue' = Tail(queue)
    /\ UNCHANGED <<workerPc, posted, stopped, affinity>>

FinishTask ==
    /\ pc = "running"
    /\ pc' = "lock"
    /\ current' = NoTask
    /\ UNCHANGED <<workerPc, queue, posted, stopped, affinity>>

\* An exception of a task leaves Run() past the lines that clear the thread.
TaskThrows ==
    /\ TasksThrow
    /\ pc = "running"
    /\ pc' = "out"
    /\ current' = NoTask
    /\ UNCHANGED <<workerPc, queue, posted, stopped, affinity>>

GiveUpOwnership ==
    /\ pc = "leave"
    /\ pc' = "left"
    /\ owner' = NoThread
    /\ UNCHANGED <<workerPc, shared, loopThread>>

ReturnFromRun ==
    /\ pc = "left"
    /\ pc' = "out"
    /\ loopThread' = NoThread
    /\ UNCHANGED <<workerPc, shared, owner>>

-----------------------------------------------------------------------------
(* Post() and Stop(). *)

Push ==
    /\ posted < MaxPosts
    /\ queue' = Append(queue, posted + 1)
    /\ posted' = posted + 1
    /\ UNCHANGED <<current, stopped, affinity>>

\* Mutant: a task is queued without the mutex.
PostUnlocked(w) ==
    /\ workerPc[w] = "ready"
    /\ Push
    /\ workerPc' = [workerPc EXCEPT ![w] = "notify"]
    /\ UNCHANGED pc

\* Mutant: nobody is notified of a task.
PostWithoutNotify(w) ==
    /\ workerPc[w] = "ready"
    /\ ~LoopHoldsMutex
    /\ Push
    /\ UNCHANGED <<pc, workerPc>>

Post(w) ==
    /\ workerPc[w] = "ready"
    /\ ~LoopHoldsMutex
    /\ Push
    /\ workerPc' = [workerPc EXCEPT ![w] = "notify"]
    /\ UNCHANGED pc

\* The flag is stored without the mutex.
Stop(w) ==
    /\ workerPc[w] = "ready"
    /\ stopped' = TRUE
    /\ workerPc' = [workerPc EXCEPT ![w] = "notify"]
    /\ UNCHANGED <<pc, queue, current, posted, affinity>>

\* notify_one and notify_all are the same where one thread can wait; they are
\* lost when it does not.
Notify(w) ==
    /\ workerPc[w] = "notify"
    /\ workerPc' = [workerPc EXCEPT ![w] = "ready"]
    /\ pc' = IF pc = "wait" THEN "lock" ELSE pc
    /\ UNCHANGED <<shared, affinity>>

\* On the loop thread itself nobody waits, so there is nobody to notify.
TaskPosts ==
    /\ pc = "running"
    /\ Push
    /\ UNCHANGED <<pc, workerPc>>

TaskStops ==
    /\ pc = "running"
    /\ stopped' = TRUE
    /\ UNCHANGED <<pc, workerPc, queue, current, posted, affinity>>

-----------------------------------------------------------------------------
LoopStep ==
    \/ BecomeOwner
    \/ Acquire
    \/ CheckPredicate
    \/ Block
    \/ Take
    \/ FinishTask
    \/ GiveUpOwnership
    \/ ReturnFromRun

Next ==
    \/ CallRun
    \/ LoopStep
    \/ SpuriousWakeup
    \/ TaskThrows
    \/ TaskPosts
    \/ TaskStops
    \/ \E w \in Workers : Post(w) \/ Stop(w) \/ Notify(w)

Spec == Init /\ [][Next]_vars

\* The loop thread goes on wherever it is not blocked, tasks return, the program
\* calls Run(), and a thread that has begun a Post() or a Stop() finishes it.
FairSpec ==
    /\ Spec
    /\ WF_vars(LoopStep)
    /\ WF_vars(CallRun)
    /\ \A w \in Workers : WF_vars(Notify(w))

-----------------------------------------------------------------------------
(* Safety. *)

\* The loop never sleeps on a task: when it waits beside a queue that is not
\* empty, a thread that has posted is still to notify it.
SleepsOnlyWhileNotified ==
    pc = "wait" /\ queue # <<>> => \E w \in Workers : workerPc[w] = "notify"

\* Wherever tasks and the predicate run, both records of the loop thread name it,
\* so that IsOnExecutionThread() and the affinity assertions judge by it.
LoopThreadKnown ==
    /\ pc \in {"lock", "check", "block", "wait", "take", "running", "leave"} => owner = Loop
    /\ pc # "out" => loopThread = Loop

\* The class keeps the promise of the abstract executor: the tasks are run one at
\* a time in the order of their posts, and none is started after a stop.
Abstract == INSTANCE SerialExecutor WITH
    inLoop <- pc # "out",
    pending <- queue,
    stopping <- stopped

ImplementsSerialExecutor == Abstract!Spec

(* Liveness. *)

\* A task that is waiting in the queue is run, unless the executor is stopped:
\* no wakeup of Post() is lost.
PostedTasksRun ==
    \A task \in Tasks :
        (\E i \in DOMAIN queue : queue[i] = task) ~> (current = task \/ stopped)

(* What the documentation says. *)

\* Executor.hpp: after Stop(), Run() returns once the current task is done.
StopEndsRun == stopped ~> pc = "out"
==============================================================================
