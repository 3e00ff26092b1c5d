--------------------------- MODULE MCRuntimeKernel ---------------------------
(* RuntimeKernel on a small instance for TLC. *)
EXTENDS RuntimeKernel

\* Bound: no pointer is bound while a call is in progress, so that of a call made
\* through a pointer only the first step is explored.  RuntimeTopology is checked
\* without this bound.
PointersOutside ==
    \A p \in Pointers : p \notin pointerReleased /\ (stack # <<>> => target[p] = NoNode)

\* Bound: what user code publishes owns its data where that names a channel.
ChangesOwned ==
    \A i \in FramesOf(stack, "publish") :
        stack[i].type = Changed => (stack[i].owned <=> stack[i].channel # NoChannel)
==============================================================================
