---------------------- MODULE SingleThreadExecutorProofs ----------------------
(***************************************************************************)
(* SingleThreadExecutor is safe for any number of threads and tasks: the   *)
(* loop does not sleep on a task, and the class keeps the promise of the   *)
(* abstract executor.                                                      *)
(***************************************************************************)
EXTENDS SingleThreadExecutor, TLAPS

\* What each point of Run() knows.  The mutex is held from the predicate to the
\* wait and from the predicate to the task, so the answer of the predicate is
\* still true there, but for a stop, which is never taken back.
LoopKnows ==
    /\ pc = "block" => queue = <<>>
    /\ pc = "take" => stopped \/ queue # <<>>
    /\ pc \in {"leave", "left"} => stopped
    /\ current # NoTask <=> pc = "running"

IInv ==
    /\ TypeOK
    /\ LoopKnows
    /\ SleepsOnlyWhileNotified
    /\ LoopThreadKnown

\* The invariant holds before Run() is called.
LEMMA InitIInv == Init => IInv
<1>1. Init => TypeOK
  <2>1. <<>> \in Seq(Tasks)
    OBVIOUS
  <2>2. 0 \in 0 .. MaxPosts
    BY PostsAssumption
  <2> QED
    BY <2>1, <2>2 DEF Init, TypeOK
<1>2. Init => LoopKnows /\ SleepsOnlyWhileNotified /\ LoopThreadKnown
  BY DEF Init, LoopKnows, SleepsOnlyWhileNotified, LoopThreadKnown
<1> QED
  BY <1>1, <1>2 DEF IInv

\* A task that is posted is one of the tasks of the model.
LEMMA PushTyped ==
    ASSUME TypeOK, Push
    PROVE  /\ queue' \in Seq(Tasks) /\ queue' # <<>>
           /\ posted' \in 0 .. MaxPosts
           /\ posted + 1 \in Tasks
<1>1. posted + 1 \in Tasks /\ posted' \in 0 .. MaxPosts
  BY PostsAssumption DEF TypeOK, Push, Tasks
<1> QED
  BY <1>1 DEF TypeOK, Push

\* The steps of the loop thread outside tasks.
LEMMA LoopStepIInv == ASSUME IInv, CallRun \/ LoopStep \/ SpuriousWakeup \/ TaskThrows PROVE IInv'
<1> USE DEF IInv, TypeOK, LoopKnows, SleepsOnlyWhileNotified, LoopThreadKnown, shared, affinity
<1>1. CASE CallRun
  BY <1>1 DEF CallRun
<1>2. CASE BecomeOwner
  BY <1>2 DEF BecomeOwner
<1>3. CASE Acquire
  BY <1>3 DEF Acquire
<1>4. CASE CheckPredicate
  BY <1>4 DEF CheckPredicate
<1>5. CASE Block
  BY <1>5 DEF Block
<1>6. CASE SpuriousWakeup
  BY <1>6 DEF SpuriousWakeup
<1>7. CASE Take
  <2>1. CASE stopped
    BY <1>7, <2>1 DEF Take
  <2>2. CASE ~stopped
    <3>1. queue # <<>> /\ Head(queue) \in Tasks /\ Tail(queue) \in Seq(Tasks)
      BY <1>7, <2>2 DEF Take
    <3>2. Head(queue) # NoTask
      BY <3>1, NoTaskAssumption, PostsAssumption DEF Tasks
    <3> QED
      BY <1>7, <2>2, <3>1, <3>2 DEF Take
  <2> QED
    BY <2>1, <2>2
<1>8. CASE FinishTask
  BY <1>8 DEF FinishTask
<1>9. CASE TaskThrows
  BY <1>9 DEF TaskThrows
<1>10. CASE GiveUpOwnership
  BY <1>10 DEF GiveUpOwnership
<1>11. CASE ReturnFromRun
  BY <1>11 DEF ReturnFromRun
<1> QED
  BY <1>1, <1>2, <1>3, <1>4, <1>5, <1>6, <1>7, <1>8, <1>9, <1>10, <1>11 DEF LoopStep

\* Posts and stops, from other threads and from tasks.
LEMMA PostStopIInv ==
    ASSUME IInv, \/ TaskPosts
                 \/ TaskStops
                 \/ \E w \in Workers : Post(w) \/ Stop(w) \/ Notify(w)
    PROVE  IInv'
<1> USE DEF IInv, TypeOK, LoopKnows, SleepsOnlyWhileNotified, LoopThreadKnown, shared, affinity
<1>1. CASE TaskPosts
  BY <1>1, PushTyped DEF TaskPosts, Push
<1>2. CASE TaskStops
  BY <1>2 DEF TaskStops
<1>3. ASSUME NEW w \in Workers, Post(w) PROVE IInv'
  <2>1. workerPc' \in [Workers -> {"ready", "notify"}] /\ workerPc'[w] = "notify"
    BY <1>3 DEF Post
  <2> QED
    BY <1>3, <2>1, PushTyped DEF Post, Push, LoopHoldsMutex
<1>4. ASSUME NEW w \in Workers, Stop(w) PROVE IInv'
  <2>1. workerPc' \in [Workers -> {"ready", "notify"}] /\ workerPc'[w] = "notify"
    BY <1>4 DEF Stop
  <2> QED
    BY <1>4, <2>1 DEF Stop
<1>5. ASSUME NEW w \in Workers, Notify(w) PROVE IInv'
  <2>1. workerPc' \in [Workers -> {"ready", "notify"}] /\ pc' # "wait"
    BY <1>5 DEF Notify
  <2> QED
    BY <1>5, <2>1 DEF Notify
<1> QED
  BY <1>1, <1>2, <1>3, <1>4, <1>5

\* Every step keeps the invariant.
LEMMA NextIInv == IInv /\ [Next]_vars => IInv'
<1>1. ASSUME IInv, UNCHANGED vars PROVE IInv'
  BY <1>1 DEF vars, shared, affinity, IInv, TypeOK, LoopKnows, SleepsOnlyWhileNotified, LoopThreadKnown
<1> QED
  BY <1>1, LoopStepIInv, PostStopIInv DEF Next

\* The inductive invariant holds in every reachable state.
THEOREM Invariance == Spec => []IInv
<1> QED
  BY InitIInv, NextIInv, PTL DEF Spec

\* The executor's variables have their types.
THEOREM TypeCorrect == Spec => []TypeOK
<1>1. IInv => TypeOK
  BY DEF IInv
<1> QED
  BY <1>1, Invariance, PTL

\* The loop never sleeps beside a task that nobody is going to notify it of
\* (SingleThreadExecutor::Post and the wait of Run).
THEOREM NoTaskSleptOn == Spec => []SleepsOnlyWhileNotified
<1>1. IInv => SleepsOnlyWhileNotified
  BY DEF IInv
<1> QED
  BY <1>1, Invariance, PTL

\* Tasks run while both records of the loop thread name it (SingleThreadExecutor::Run).
THEOREM LoopThreadRecorded == Spec => []LoopThreadKnown
<1>1. IInv => LoopThreadKnown
  BY DEF IInv
<1> QED
  BY <1>1, Invariance, PTL

-----------------------------------------------------------------------------
(* Refinement. *)

\* A step of the loop thread is a step of the abstract executor or none.
LEMMA LoopStepMaps ==
    ASSUME IInv, CallRun \/ LoopStep \/ SpuriousWakeup \/ TaskThrows
    PROVE  [Abstract!Next]_(Abstract!vars)
<1> USE DEF IInv, LoopKnows, shared, affinity, Abstract!Next, Abstract!vars
<1>1. CASE CallRun
  BY <1>1 DEF CallRun, Abstract!EnterLoop
<1>2. CASE BecomeOwner \/ Acquire \/ CheckPredicate \/ Block \/ SpuriousWakeup \/ GiveUpOwnership
  BY <1>2 DEF BecomeOwner, Acquire, CheckPredicate, Block, SpuriousWakeup, GiveUpOwnership
<1>3. CASE Take
  BY <1>3 DEF Take, Abstract!Start
<1>4. CASE FinishTask
  BY <1>4 DEF FinishTask, Abstract!Finish
<1>5. CASE TaskThrows
  BY <1>5 DEF TaskThrows, Abstract!LeaveLoop
<1>6. CASE ReturnFromRun
  BY <1>6 DEF ReturnFromRun, Abstract!LeaveLoop
<1> QED
  BY <1>1, <1>2, <1>3, <1>4, <1>5, <1>6 DEF LoopStep

\* So is a post or a stop.
LEMMA PostStopMaps ==
    ASSUME IInv, \/ TaskPosts
                 \/ TaskStops
                 \/ \E w \in Workers : Post(w) \/ Stop(w) \/ Notify(w)
    PROVE  [Abstract!Next]_(Abstract!vars)
<1> USE DEF IInv, LoopKnows, shared, affinity, Abstract!Next, Abstract!vars
<1>1. CASE TaskPosts
  BY <1>1, PushTyped DEF TaskPosts, Push, Abstract!Submit
<1>2. CASE TaskStops
  BY <1>2 DEF TaskStops, Abstract!RequestStop
<1>3. ASSUME NEW w \in Workers, Post(w) PROVE [Abstract!Next]_(Abstract!vars)
  BY <1>3, PushTyped DEF Post, Push, Abstract!Submit
<1>4. ASSUME NEW w \in Workers, Stop(w) PROVE [Abstract!Next]_(Abstract!vars)
  BY <1>4 DEF Stop, Abstract!RequestStop
<1>5. ASSUME NEW w \in Workers, Notify(w) PROVE [Abstract!Next]_(Abstract!vars)
  BY <1>5 DEF Notify
<1> QED
  BY <1>1, <1>2, <1>3, <1>4, <1>5

\* The class implements the abstract executor: tasks run one at a time in the order
\* of their posts, and none starts after a stop (Executor.hpp).
THEOREM KeepsThePromise == Spec => ImplementsSerialExecutor
<1>1. Init => Abstract!Init
  BY DEF Init, Abstract!Init
<1>2. IInv /\ [Next]_vars => [Abstract!Next]_(Abstract!vars)
  <2>1. ASSUME UNCHANGED vars PROVE UNCHANGED Abstract!vars
    BY <2>1 DEF vars, shared, affinity, Abstract!vars
  <2> QED
    BY <2>1, LoopStepMaps, PostStopMaps DEF Next
<1> QED
  BY <1>1, <1>2, Invariance, PTL DEF Spec, ImplementsSerialExecutor, Abstract!Spec
==============================================================================
