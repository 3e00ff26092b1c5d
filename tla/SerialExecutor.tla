--------------------------- MODULE SerialExecutor ---------------------------
(***************************************************************************)
(* What class Executor promises (src/include/iobject/Executor.hpp): tasks  *)
(* are run one at a time, in the order they were posted, and once a stop   *)
(* has been requested no further one is started.                           *)
(***************************************************************************)
EXTENDS Sequences

CONSTANTS
    Tasks,
    NoTask      \* no task is running

VARIABLES
    inLoop,     \* Run() is between its entry and its exit
    pending,    \* posted and not started, oldest first
    current,    \* the task being run
    stopping    \* Stop() has been called

vars == <<inLoop, pending, current, stopping>>

Init ==
    /\ inLoop = FALSE
    /\ pending = <<>>
    /\ current = NoTask
    /\ stopping = FALSE

EnterLoop ==
    /\ ~inLoop
    /\ inLoop' = TRUE
    /\ UNCHANGED <<pending, current, stopping>>

\* Run() returns, or is left by the exception of a task.
LeaveLoop ==
    /\ inLoop
    /\ stopping \/ current # NoTask
    /\ inLoop' = FALSE
    /\ current' = NoTask
    /\ UNCHANGED <<pending, stopping>>

Submit(task) ==
    /\ pending' = Append(pending, task)
    /\ UNCHANGED <<inLoop, current, stopping>>

Start ==
    /\ inLoop
    /\ current = NoTask
    /\ ~stopping
    /\ pending # <<>>
    /\ current' = Head(pending)
    /\ pending' = Tail(pending)
    /\ UNCHANGED <<inLoop, stopping>>

Finish ==
    /\ current # NoTask
    /\ current' = NoTask
    /\ UNCHANGED <<inLoop, pending, stopping>>

RequestStop ==
    /\ stopping' = TRUE
    /\ UNCHANGED <<inLoop, pending, current>>

Next ==
    \/ EnterLoop
    \/ LeaveLoop
    \/ \E task \in Tasks : Submit(task)
    \/ Start
    \/ Finish
    \/ RequestStop

Spec == Init /\ [][Next]_vars
==============================================================================
