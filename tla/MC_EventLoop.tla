---------------------------- MODULE MC_EventLoop ----------------------------
(* EventLoop with the loop's thread and one or two others. *)
EXTENDS EventLoop

CONSTANTS loop, t1, t2

MCThreads == {loop, t1, t2}
MCPair == {loop, t1}

\* One thread queues twice, so that its order can go wrong; both do in a pair.
MCPosts == [t \in MCThreads |-> IF t = t1 THEN 2 ELSE 1]
MCPairPosts == [t \in MCPair |-> 2]
=============================================================================
