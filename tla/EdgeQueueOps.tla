---------------------------- MODULE EdgeQueueOps ----------------------------
(***************************************************************************)
(* What EdgeQueue::push and EdgeQueue::pop do to the deque queue_ once the *)
(* mutex is held, as operators on sequences.  EdgeQueue.tla puts threads   *)
(* around them; GraphExecutor.tla uses them for every edge of a pipeline.  *)
(***************************************************************************)
EXTENDS Naturals, Sequences

\* EdgeDropPolicy.
Block      == "block"
DropNewest == "drop_newest"
DropOldest == "drop_oldest"
EdgeDropPolicies == {Block, DropNewest, DropOldest}

\* queue_.size() >= cfg_.capacity
Full(q, capacity) == Len(q) >= capacity

\* The deque after a push that succeeds: a full queue loses its oldest event
\* first (that only happens under DropOldest: the other policies do not get
\* here with a full queue).
PushBack(q, event, capacity) ==
    Append(IF Full(q, capacity) THEN Tail(q) ELSE q, event)
=============================================================================
