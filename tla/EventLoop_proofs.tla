-------------------------- MODULE EventLoop_proofs --------------------------
(* Theorems about EventLoop for any set of threads and any bound on posts. *)
EXTENDS EventLoop, TLAPS

\* The inductive invariant: the wake-up argument needs the control facts (who
\* may be where when handle_ changes), and those need nothing else.
IndInv == TypeOK /\ ControlOK /\ NoLostWakeup /\ InlineOnlyAfterRun

\* The initial state, in which nothing runs and nothing is queued.
LEMMA InitEstablishes == Init => IndInv
<1> SUFFICES ASSUME Init PROVE IndInv  OBVIOUS
<1> USE LoopAssumption DEF Init
<1>1. TypeOK
  <2>1. callbacks \in Seq(Tasks) /\ batch \in Seq(Tasks)  OBVIOUS
  <2>2. /\ pc \in [Threads -> CallPoints]
        /\ sent \in [Threads -> Nat]
        /\ ran \in [Threads -> Nat]  BY DEF CallPoints
  <2> QED BY <2>1, <2>2 DEF TypeOK, HandleStates, LoopPoints
<1>2. ControlOK  BY DEF ControlOK
<1>3. NoLostWakeup  BY DEF NoLostWakeup
<1>4. InlineOnlyAfterRun  BY DEF InlineOnlyAfterRun
<1> QED BY <1>1, <1>2, <1>3, <1>4 DEF IndInv

\* A step of runInThisLoop() in some thread.
LEMMA CallStepPreserves ==
  ASSUME IndInv, NEW t \in Threads, CallStep(t) PROVE IndInv'
<1> USE LoopAssumption DEF IndInv, TypeOK, HandleStates, LoopPoints, CallPoints
<1>1. CASE CallRunInThisLoop(t)
  <2> USE <1>1 DEF CallRunInThisLoop, queueVars, CanCall, RunsInline,
          isRunInLoopThread, isStoped
  <2>1. TypeOK'  OBVIOUS
  <2>2. ControlOK'  BY DEF ControlOK
  <2>3. NoLostWakeup'  BY DEF NoLostWakeup
  <2>4. InlineOnlyAfterRun'  BY DEF InlineOnlyAfterRun, ControlOK
  <2> QED BY <2>1, <2>2, <2>3, <2>4
<1>2. CASE InlineDone(t)
  <2> USE <1>2 DEF InlineDone, queueVars
  <2>1. TypeOK'  OBVIOUS
  <2>2. ControlOK'  BY DEF ControlOK
  <2>3. NoLostWakeup'  BY DEF NoLostWakeup
  <2>4. InlineOnlyAfterRun'  BY DEF InlineOnlyAfterRun
  <2> QED BY <2>1, <2>2, <2>3, <2>4
<1>3. CASE Push(t)
  <2> USE <1>3 DEF Push
  <2>1. TypeOK'
    <3>1. <<t, sent[t] + 1>> \in Tasks  BY DEF Tasks
    <3> QED BY <3>1
  <2>2. ControlOK'  BY DEF ControlOK
  <2>3. NoLostWakeup'  BY DEF NoLostWakeup
  <2>4. InlineOnlyAfterRun'  BY DEF InlineOnlyAfterRun
  <2> QED BY <2>1, <2>2, <2>3, <2>4
<1>4. CASE CheckHandle(t)
  <2> USE <1>4 DEF CheckHandle, queueVars
  <2>1. TypeOK'  OBVIOUS
  <2>2. ControlOK'  BY DEF ControlOK
  <2>3. NoLostWakeup'  BY DEF NoLostWakeup
  <2>4. InlineOnlyAfterRun'  BY DEF InlineOnlyAfterRun
  <2> QED BY <2>1, <2>2, <2>3, <2>4
<1>5. CASE Send(t)
  <2> USE <1>5 DEF Send, AsyncSend, queueVars
  <2>1. TypeOK'
    <3>1. pending' \in BOOLEAN /\ crashed' \in BOOLEAN  OBVIOUS
    <3>2. pc' \in [Threads -> CallPoints]  OBVIOUS
    <3> HIDE DEF AsyncSend
    <3> QED BY <3>1, <3>2
  <2>2. ControlOK'  BY DEF ControlOK
  <2>3. NoLostWakeup'  BY DEF NoLostWakeup
  <2>4. InlineOnlyAfterRun'  BY DEF InlineOnlyAfterRun
  <2> QED BY <2>1, <2>2, <2>3, <2>4
<1> QED BY <1>1, <1>2, <1>3, <1>4, <1>5 DEF CallStep

\* A step of the loop thread inside run() or runNoWait().
LEMMA LoopStepPreserves == ASSUME IndInv, LoopStep PROVE IndInv'
<1> USE LoopAssumption DEF IndInv, TypeOK, HandleStates, LoopPoints, CallPoints
<1> USE DEF ControlOK, NoLostWakeup, InlineOnlyAfterRun
<1>1. CASE InitAlloc  BY <1>1 DEF InitAlloc, queueVars
<1>2. CASE InitHandle  BY <1>2 DEF InitHandle, queueVars
<1>3. CASE InitSend  BY <1>3 DEF InitSend, AsyncSend, queueVars
<1>4. CASE SetRuned  BY <1>4 DEF SetRuned, queueVars
<1>5. CASE PollAsync  BY <1>5 DEF PollAsync, queueVars
<1>6. CASE PollDone  BY <1>6 DEF PollDone, queueVars
<1>7. CASE Swap
  <2>1. <<>> \in Seq(Tasks)  OBVIOUS
  <2> QED BY <1>7, <2>1 DEF Swap
<1>8. CASE RunTask
  <2>1. batch[1] \in Tasks /\ Tail(batch) \in Seq(Tasks)  BY <1>8 DEF RunTask
  <2>2. batch[1][1] \in Threads /\ batch[1][2] \in Nat  BY <2>1 DEF Tasks
  <2>3. TypeOK'  BY <1>8, <2>1, <2>2 DEF RunTask
  <2>4. ControlOK'  BY <1>8 DEF RunTask
  <2>5. NoLostWakeup'  BY <1>8 DEF RunTask
  <2>6. InlineOnlyAfterRun'  BY <1>8 DEF RunTask
  <2> QED BY <2>3, <2>4, <2>5, <2>6
<1>9. CASE ProcessDone  BY <1>9 DEF ProcessDone, queueVars
<1>10. CASE CloseHandles  BY <1>10 DEF CloseHandles, NextIteration, queueVars
<1>11. CASE Return  BY <1>11 DEF Return, queueVars
<1> QED BY <1>1, <1>2, <1>3, <1>4, <1>5, <1>6, <1>7, <1>8, <1>9, <1>10, <1>11
        DEF LoopStep

\* Every step, the calls of run(), runNoWait() and stop() included.
LEMMA NextPreserves == ASSUME IndInv, [Next]_vars PROVE IndInv'
<1> USE LoopAssumption DEF IndInv, TypeOK, HandleStates, LoopPoints, CallPoints
<1>1. CASE EnterAny
  BY <1>1 DEF EnterAny, EnterRun, queueVars, ControlOK, NoLostWakeup,
     InlineOnlyAfterRun
<1>2. CASE LoopStep  BY <1>2, LoopStepPreserves
<1>3. CASE Stop
  BY <1>3 DEF Stop, queueVars, ControlOK, NoLostWakeup, InlineOnlyAfterRun
<1>4. CASE \E t \in Threads : CallStep(t)  BY <1>4, CallStepPreserves
<1>5. CASE UNCHANGED vars
  BY <1>5 DEF vars, ControlOK, NoLostWakeup, InlineOnlyAfterRun
<1> QED BY <1>1, <1>2, <1>3, <1>4, <1>5 DEF Next

\* The inductive invariant holds in every reachable state.
THEOREM LoopInvariant == Spec => []IndInv
  BY InitEstablishes, NextPreserves, PTL DEF Spec

\* The state of the loop and of its async handle is consistent at every point
\* of run() and runNoWait(), whatever the threads do.
THEOREM LoopWellFormed == Spec => []WellFormed
<1>1. IndInv => WellFormed  BY DEF IndInv, WellFormed
<1> QED BY LoopInvariant, <1>1, PTL

\* No schedule of any number of posting threads, runNoWait() rounds and stop()
\* calls loses the wake-up for a queued callback.
THEOREM WakeupNeverLost == Spec => []NoLostWakeup
<1>1. IndInv => NoLostWakeup  BY DEF IndInv
<1> QED BY LoopInvariant, <1>1, PTL

\* A foreign thread executes a callback itself only when run() has returned.
THEOREM InlineSafe == Spec => []InlineOnlyAfterRun
<1>1. IndInv => InlineOnlyAfterRun  BY DEF IndInv
<1> QED BY LoopInvariant, <1>1, PTL

-----------------------------------------------------------------------------
(* EventLoop implements TaskFifo. *)

\* Moving the head of a nonempty prefix.
LEMMA ConcatTail ==
  ASSUME NEW S, NEW a \in Seq(S), NEW b \in Seq(S), a # <<>>
  PROVE  /\ a \o b # <<>>
         /\ (a \o b)[1] = a[1]
         /\ Tail(a \o b) = Tail(a) \o b
  OBVIOUS

\* Appending to the suffix.
LEMMA ConcatAppend ==
  ASSUME NEW S, NEW a \in Seq(S), NEW b \in Seq(S), NEW e \in S
  PROVE  a \o Append(b, e) = Append(a \o b, e)
  OBVIOUS

\* The empty prefix.
LEMMA ConcatEmpty ==
  ASSUME NEW S, NEW b \in Seq(S)
  PROVE  <<>> \o b = b /\ b \o <<>> = b
  OBVIOUS

\* A step of EventLoop is a step of TaskFifo on the batch followed by the
\* queue, or leaves it alone: the swap in process() and every wake-up are
\* invisible there.
LEMMA StepSimulation ==
  ASSUME TypeOK, ControlOK, [Next]_vars
  PROVE  [Fifo!FifoNext]_(Fifo!fifoVars)
<1> DEFINE q == batch \o callbacks
<1> USE DEF Fifo!FifoNext, Fifo!fifoVars
<1>0. callbacks \in Seq(Tasks) /\ batch \in Seq(Tasks)  BY DEF TypeOK
<1>1. ASSUME NEW t \in Threads, Push(t) PROVE Fifo!Post(t)
  <2>1. <<t, sent[t] + 1>> \in Tasks  BY DEF TypeOK, Tasks
  <2>2. q' = Append(q, <<t, sent[t] + 1>>)
    BY <1>0, <1>1, <2>1, ConcatAppend DEF Push
  <2> QED BY <1>1, <2>2 DEF Push, Fifo!Post
<1>2. ASSUME RunTask PROVE Fifo!Run
  <2>1. q # <<>> /\ q[1] = batch[1] /\ Tail(q) = Tail(batch) \o callbacks
    BY <1>0, <1>2, ConcatTail DEF RunTask
  <2> QED BY <1>2, <2>1 DEF RunTask, Fifo!Run
<1>3. ASSUME Swap PROVE UNCHANGED Fifo!fifoVars
  <2>1. batch = <<>>  BY <1>3 DEF Swap, ControlOK
  <2>2. q = callbacks /\ q' = callbacks
    BY <1>0, <1>3, <2>1, ConcatEmpty DEF Swap
  <2> QED BY <1>3, <2>2 DEF Swap
<1>4. ASSUME UNCHANGED queueVars PROVE UNCHANGED Fifo!fifoVars
  BY <1>4 DEF queueVars
<1>5. CASE \E t \in Threads : CallStep(t)
  <2> PICK t \in Threads : CallStep(t)  BY <1>5
  <2>1. CASE Push(t)  BY <2>1, <1>1
  <2>2. CASE ~Push(t)
    BY <2>2, <1>4 DEF CallStep, CallRunInThisLoop, InlineDone, CheckHandle, Send
  <2> QED BY <2>1, <2>2
<1>6. CASE LoopStep
  <2>1. CASE Swap  BY <2>1, <1>3
  <2>2. CASE RunTask  BY <2>2, <1>2
  <2>3. CASE ~Swap /\ ~RunTask
    BY <1>6, <2>3, <1>4 DEF LoopStep, InitAlloc, InitHandle, InitSend, SetRuned,
       PollAsync, PollDone, ProcessDone, CloseHandles, Return
  <2> QED BY <2>1, <2>2, <2>3
<1>7. CASE EnterAny  BY <1>7, <1>4 DEF EnterAny, EnterRun
<1>8. CASE Stop  BY <1>8, <1>4 DEF Stop
<1>9. CASE UNCHANGED vars  BY <1>9 DEF vars
<1> QED BY <1>5, <1>6, <1>7, <1>8, <1>9 DEF Next

\* Queueing callbacks with runInThisLoop and running them in batches from
\* process() behaves as one first-in first-out queue.
THEOREM LoopImplementsFifo == Spec => ImplementsFifo
<1>1. Init => Fifo!FifoInit
  <2> SUFFICES ASSUME Init PROVE Fifo!FifoInit  OBVIOUS
  <2>1. batch \o callbacks = <<>>  BY DEF Init
  <2> QED BY <2>1 DEF Init, Fifo!FifoInit
<1>2. IndInv => TypeOK /\ ControlOK  BY DEF IndInv
<1> QED BY <1>1, <1>2, LoopInvariant, StepSimulation, PTL
        DEF Spec, ImplementsFifo, Fifo!FifoSpec

FifoProofs == INSTANCE TaskFifo_proofs WITH queue <- batch \o callbacks

\* However posts, batches, runNoWait() rounds and stop() interleave, the
\* callbacks of one thread run once each and in the order it queued them.
THEOREM LoopRunsOnceInOrder == Spec => RunOnceInOrder
<1>1. Fifo!FifoSpec => Fifo!OnceInOrder
  BY FifoProofs!FifoOnceInOrder, PTL
     DEF Fifo!FifoSpec, Fifo!OnceInOrder, Fifo!FifoInit, Fifo!FifoNext,
         Fifo!fifoVars, Fifo!Post, Fifo!Run, FifoProofs!FifoSpec,
         FifoProofs!OnceInOrder, FifoProofs!FifoInit, FifoProofs!FifoNext,
         FifoProofs!fifoVars, FifoProofs!Post, FifoProofs!Run
<1> QED BY <1>1, LoopImplementsFifo, PTL DEF ImplementsFifo, RunOnceInOrder
=============================================================================
