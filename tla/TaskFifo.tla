------------------------------ MODULE TaskFifo ------------------------------
(***************************************************************************)
(* What EventLoop::runInThisLoop promises about the callbacks it queues,   *)
(* with the mutex, the async handle, the wake-ups and the swapped batches   *)
(* abstracted away: one queue, filled by any thread and emptied from the    *)
(* front by the loop thread, one callback at a time.                        *)
(* The n-th callback that thread t queues is the pair <<t, n>>.             *)
(***************************************************************************)
EXTENDS Naturals, Sequences

CONSTANT Threads

VARIABLES queue,   \* callbacks registered and not yet finished
          sent,    \* sent[t]: how many callbacks thread t has queued
          ran      \* ran[t]: number of the last callback of t that ran

fifoVars == <<queue, sent, ran>>

FifoInit ==
    /\ queue = <<>>
    /\ sent = [t \in Threads |-> 0]
    /\ ran = [t \in Threads |-> 0]

Post(t) ==
    /\ sent' = [sent EXCEPT ![t] = @ + 1]
    /\ queue' = Append(queue, <<t, sent[t] + 1>>)
    /\ UNCHANGED ran

Run ==
    /\ queue # <<>>
    /\ ran' = [ran EXCEPT ![queue[1][1]] = queue[1][2]]
    /\ queue' = Tail(queue)
    /\ UNCHANGED sent

FifoNext == Run \/ \E t \in Threads : Post(t)

FifoSpec == FifoInit /\ [][FifoNext]_fifoVars

-----------------------------------------------------------------------------
\* The part of the invariant that types the state.
FifoTypeOK ==
    /\ queue \in Seq(Threads \X Nat)
    /\ sent \in [Threads -> Nat]
    /\ ran \in [Threads -> Nat]

\* Numbers queued for t lie in ran[t]+1 .. sent[t] ...
Bounded ==
    /\ \A t \in Threads : ran[t] <= sent[t]
    /\ \A i \in 1..Len(queue) :
          queue[i][2] > ran[queue[i][1]] /\ queue[i][2] <= sent[queue[i][1]]

\* ... in increasing order ...
Ordered ==
    \A i, j \in 1..Len(queue) :
       i < j /\ queue[i][1] = queue[j][1] => queue[i][2] < queue[j][2]

\* ... with none missing.
Complete ==
    \A t \in Threads : \A n \in Nat :
       n > ran[t] /\ n <= sent[t] => \E i \in 1..Len(queue) : queue[i] = <<t, n>>

FifoInv == FifoTypeOK /\ Bounded /\ Ordered /\ Complete

\* Exactly once and in order: the callbacks of one thread run as its 1st, 2nd,
\* 3rd ... one; none is skipped, repeated or overtaken by a later one.
OnceInOrder ==
    [][\A t \in Threads : ran'[t] # ran[t] => ran'[t] = ran[t] + 1]_fifoVars
=============================================================================
