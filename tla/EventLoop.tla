----------------------------- MODULE EventLoop -----------------------------
(***************************************************************************)
(* uv::EventLoop and the uv::Async it owns: the thread that calls run() or *)
(* runNoWait(), and every thread that hands it callbacks with              *)
(* runInThisLoop().                                                        *)
(*                                                                         *)
(* Each step is one access to state another thread can see: the atomic     *)
(* status_, the mutex-protected queue callbacks_ (push and swap are one    *)
(* step each, the mutex covers them whole), the plain pointer handle_, and *)
(* the pending flag of the libuv async handle.                             *)
(*                                                                         *)
(* libuv (uv_run, uv_async_*, uv_close, uv_stop) is not part of the source *)
(* and is modelled from its documented contract: sends coalesce into one   *)
(* pending wake-up, the closing phase follows the poll phase, a closing    *)
(* handle ignores sends.  Calling it with memory that is not an            *)
(* initialised handle is undefined: either nothing happens or the program  *)
(* dies.                                                                   *)
(***************************************************************************)
EXTENDS Naturals, Sequences

CONSTANTS
    Threads,     \* every thread that calls runInThisLoop
    Loop,        \* the one of them that calls run() / runNoWait()
    MaxPosts     \* MaxPosts[t], bound: callbacks t queues

ASSUME LoopAssumption == Loop \in Threads /\ MaxPosts \in [Threads -> Nat]

VARIABLES
    status,      \* EventLoop::status_
    handle,      \* what Async::handle_ points at
    pending,     \* the wake-up flag of the async handle
    callbacks,   \* Async::callbacks_
    batch,       \* the local queue of Async::process()
    lpc,         \* where the loop thread is inside run() / runNoWait()
    mode,        \* which of the two it called
    stopFlag,    \* uv_loop_t::stop_flag
    pc,          \* where each thread is inside runInThisLoop()
    sent,        \* sent[t]: callbacks t has pushed
    ran,         \* ran[t]: number of the last pushed callback of t that ran
    crashed      \* undefined behaviour has ended the program

queueVars == <<callbacks, batch, sent, ran>>
vars == <<status, handle, pending, callbacks, batch, lpc, mode, stopFlag, pc,
          sent, ran, crashed>>

\* "null": nullptr; "raw": allocated, uv_async_init not done; "freed": deleted
\* by the close callback, handle_ still pointing there.
HandleStates == {"null", "raw", "open", "closing", "freed"}

LoopPoints == {"out", "init", "initHandle", "initSend", "setRuned", "poll",
               "swap", "process", "closing", "return"}

CallPoints == {"idle", "inline", "push", "check", "send"}

Init ==
    /\ status = "NotRun"
    /\ handle = "null"
    /\ pending = FALSE
    /\ callbacks = <<>> /\ batch = <<>>
    /\ lpc = "out" /\ mode = "run" /\ stopFlag = FALSE
    /\ pc = [t \in Threads |-> "idle"]
    /\ sent = [t \in Threads |-> 0]
    /\ ran = [t \in Threads |-> 0]
    /\ crashed = FALSE

-----------------------------------------------------------------------------
(* libuv *)

\* uv_async_send(handle_), by any thread.
AsyncSend ==
    \/ /\ handle = "open" /\ pending' = TRUE /\ UNCHANGED crashed
    \/ /\ handle # "open" /\ UNCHANGED <<pending, crashed>>
    \/ /\ handle \in {"raw", "freed"} /\ crashed' = TRUE /\ UNCHANGED pending

\* After the closing phase: another iteration, or uv_run returns.  Handles of
\* other kinds may keep the loop alive once the async handle is gone.
NextIteration(h, stopped) ==
    \/ mode = "run" /\ ~stopped /\ lpc' = "poll"
    \/ (mode = "runNoWait" \/ stopped \/ h = "freed") /\ lpc' = "return"

-----------------------------------------------------------------------------
(* EventLoop::runInThisLoop, called by thread t *)

\* The loop thread can call it from outside run() or from a callback.
CanCall(t) == pc[t] = "idle" /\ (t = Loop => lpc \in {"out", "poll", "process"})

InlineIfNotRuned(t) == status # "Runed" \/ t = Loop  \* mutant

isRunInLoopThread(t) == status = "Runed" /\ t = Loop

isStoped == status = "Stop"

RunsInline(t) == isRunInLoopThread(t) \/ isStoped

\* A nullptr callback is ignored: that call changes nothing.
CallRunInThisLoop(t) ==
    /\ CanCall(t)
    /\ \/ RunsInline(t) /\ pc' = [pc EXCEPT ![t] = "inline"]
       \/ /\ ~RunsInline(t) /\ sent[t] < MaxPosts[t]
          /\ pc' = [pc EXCEPT ![t] = "push"]
    /\ UNCHANGED <<status, handle, pending, queueVars, lpc, mode, stopFlag, crashed>>

\* func() called by t itself has returned.
InlineDone(t) ==
    /\ pc[t] = "inline"
    /\ pc' = [pc EXCEPT ![t] = "idle"]
    /\ UNCHANGED <<status, handle, pending, queueVars, lpc, mode, stopFlag, crashed>>

PushFront(t) ==  \* mutant: a stack instead of a queue
    /\ pc[t] = "push"
    /\ sent' = [sent EXCEPT ![t] = @ + 1]
    /\ callbacks' = <<<<t, sent[t] + 1>>>> \o callbacks
    /\ pc' = [pc EXCEPT ![t] = "check"]
    /\ UNCHANGED <<status, handle, pending, batch, lpc, mode, stopFlag, ran, crashed>>

\* callbacks_.push(callback) under the mutex.
Push(t) ==
    /\ pc[t] = "push"
    /\ sent' = [sent EXCEPT ![t] = @ + 1]
    /\ callbacks' = Append(callbacks, <<t, sent[t] + 1>>)
    /\ pc' = [pc EXCEPT ![t] = "check"]
    /\ UNCHANGED <<status, handle, pending, batch, lpc, mode, stopFlag, ran, crashed>>

CheckHandleWhenRuned(t) ==  \* mutant: wakes the loop only while it is running
    /\ pc[t] = "check"
    /\ pc' = [pc EXCEPT ![t] = IF status = "Runed" THEN "send" ELSE "idle"]
    /\ UNCHANGED <<status, handle, pending, queueVars, lpc, mode, stopFlag, crashed>>

\* if (handle_ != nullptr), outside the mutex.
CheckHandle(t) ==
    /\ pc[t] = "check"
    /\ pc' = [pc EXCEPT ![t] = IF handle = "null" THEN "idle" ELSE "send"]
    /\ UNCHANGED <<status, handle, pending, queueVars, lpc, mode, stopFlag, crashed>>

Send(t) ==
    /\ pc[t] = "send"
    /\ AsyncSend
    /\ pc' = [pc EXCEPT ![t] = "idle"]
    /\ UNCHANGED <<status, handle, queueVars, lpc, mode, stopFlag>>

-----------------------------------------------------------------------------
(* run() and runNoWait(), by the loop thread.  When status_ is not NotRun  *)
(* both return -1 and change nothing.                                      *)

EnterRunAnyStatus(m) ==  \* mutant: run() after run() is not refused
    /\ lpc = "out" /\ pc[Loop] = "idle"
    /\ mode' = m
    /\ lpc' = "init"
    /\ UNCHANGED <<status, handle, pending, queueVars, stopFlag, pc, crashed>>

EnterRun(m) ==
    /\ lpc = "out" /\ pc[Loop] = "idle" /\ status = "NotRun"
    /\ mode' = m
    /\ lpc' = "init"
    /\ UNCHANGED <<status, handle, pending, queueVars, stopFlag, pc, crashed>>

\* Async::init(): nothing to do when handle_ is already set, whatever it
\* points at; otherwise handle_ = new uv_async_t.
InitAlloc ==
    /\ lpc = "init"
    /\ IF handle = "null" THEN handle' = "raw" /\ lpc' = "initHandle"
                          ELSE lpc' = "setRuned" /\ UNCHANGED handle
    /\ UNCHANGED <<status, pending, queueVars, mode, stopFlag, pc, crashed>>

InitHandleNoSend ==  \* mutant: init() does not wake the loop
    /\ lpc = "initHandle"
    /\ handle' = "open" /\ pending' = FALSE
    /\ lpc' = "setRuned"
    /\ UNCHANGED <<status, queueVars, mode, stopFlag, pc, crashed>>

InitHandle ==
    /\ lpc = "initHandle"
    /\ handle' = "open" /\ pending' = FALSE
    /\ lpc' = "initSend"
    /\ UNCHANGED <<status, queueVars, mode, stopFlag, pc, crashed>>

InitSend ==
    /\ lpc = "initSend"
    /\ AsyncSend
    /\ lpc' = "setRuned"
    /\ UNCHANGED <<status, handle, queueVars, mode, stopFlag, pc>>

\* loopThreadId_ is set, then status_ = Runed, then uv_run starts.
SetRuned ==
    /\ lpc = "setRuned"
    /\ status' = "Runed"
    /\ lpc' = "poll"
    /\ UNCHANGED <<handle, pending, queueVars, mode, stopFlag, pc, crashed>>

\* The poll phase finds the async handle pending: Async::Callback -> process().
PollAsync ==
    /\ lpc = "poll" /\ pc[Loop] = "idle"
    /\ handle = "open" /\ pending
    /\ pending' = FALSE
    /\ lpc' = "swap"
    /\ UNCHANGED <<status, handle, queueVars, mode, stopFlag, pc, crashed>>

\* The poll phase ends with the async handle silent.  It blocks in run()
\* unless a handle waits to be closed or the async handle no longer exists.
PollDone ==
    /\ lpc = "poll" /\ pc[Loop] = "idle"
    /\ ~(handle = "open" /\ pending)
    /\ mode = "runNoWait" \/ handle \in {"closing", "freed"}
    /\ lpc' = "closing"
    /\ UNCHANGED <<status, handle, pending, queueVars, mode, stopFlag, pc, crashed>>

SwapCopies ==  \* mutant: the queue is copied, not swapped
    /\ lpc = "swap"
    /\ batch' = callbacks /\ UNCHANGED callbacks
    /\ lpc' = "process"
    /\ UNCHANGED <<status, handle, pending, mode, stopFlag, pc, sent, ran, crashed>>

\* callbacks_.swap(callbacks) under the mutex.
Swap ==
    /\ lpc = "swap"
    /\ batch' = callbacks /\ callbacks' = <<>>
    /\ lpc' = "process"
    /\ UNCHANGED <<status, handle, pending, mode, stopFlag, pc, sent, ran, crashed>>

\* func() of the front callback returns and it is popped.
RunTask ==
    /\ lpc = "process" /\ pc[Loop] = "idle"
    /\ batch # <<>>
    /\ ran' = [ran EXCEPT ![batch[1][1]] = batch[1][2]]
    /\ batch' = Tail(batch)
    /\ UNCHANGED <<status, handle, pending, callbacks, lpc, mode, stopFlag, pc,
                   sent, crashed>>

ProcessDone ==
    /\ lpc = "process" /\ pc[Loop] = "idle"
    /\ batch = <<>>
    /\ lpc' = "closing"
    /\ UNCHANGED <<status, handle, pending, queueVars, mode, stopFlag, pc, crashed>>

\* EventLoop::stop() from a callback of the loop (its own async handle's or
\* another handle's).  uv_is_closing of a freed handle is undefined.
Stop ==
    /\ lpc \in {"poll", "process"} /\ pc[Loop] = "idle" /\ status = "Runed"
    /\ \/ /\ handle = "open" /\ handle' = "closing" /\ UNCHANGED crashed
       \/ /\ handle = "freed" /\ crashed' = TRUE /\ UNCHANGED handle
    /\ UNCHANGED <<status, pending, queueVars, lpc, mode, stopFlag, pc>>

CloseHandlesNoStop ==  \* mutant: the close callback does not call uv_stop
    /\ lpc = "closing"
    /\ handle' = (IF handle = "closing" THEN "freed" ELSE handle)
    /\ UNCHANGED stopFlag
    /\ NextIteration(handle', stopFlag')
    /\ UNCHANGED <<status, pending, queueVars, mode, pc, crashed>>

\* The closing phase.  For the async handle: onCloseCompleted() calls uv_stop,
\* then the handle is deleted; handle_ keeps its value.
CloseHandles ==
    /\ lpc = "closing"
    /\ handle' = (IF handle = "closing" THEN "freed" ELSE handle)
    /\ stopFlag' = (stopFlag \/ handle = "closing")
    /\ NextIteration(handle', stopFlag')
    /\ UNCHANGED <<status, pending, queueVars, mode, pc, crashed>>

\* uv_run resets the stop flag and returns; status_ becomes Stop or NotRun.
Return ==
    /\ lpc = "return"
    /\ stopFlag' = FALSE
    /\ status' = (IF mode = "run" THEN "Stop" ELSE "NotRun")
    /\ lpc' = "out"
    /\ UNCHANGED <<handle, pending, queueVars, mode, pc, crashed>>

-----------------------------------------------------------------------------
EnterAny == EnterRun("run") \/ EnterRun("runNoWait")

CallStep(t) ==
    CallRunInThisLoop(t) \/ InlineDone(t) \/ Push(t) \/ CheckHandle(t) \/ Send(t)

\* Steps the loop thread takes by itself, user callbacks aside.
LoopStep ==
    \/ InitAlloc \/ InitHandle \/ InitSend \/ SetRuned
    \/ PollAsync \/ PollDone \/ Swap \/ RunTask \/ ProcessDone
    \/ CloseHandles \/ Return

Next ==
    /\ ~crashed
    /\ \/ EnterAny
       \/ LoopStep
       \/ Stop
       \/ \E t \in Threads : CallStep(t)

Spec == Init /\ [][Next]_vars

\* A thread inside runInThisLoop or run goes on, and the owner of the loop
\* runs it (again) as long as status_ lets it.  The loop's steps need strong
\* fairness because a user callback, which does return, may call
\* runInThisLoop any number of times first.  Nobody has to call
\* runInThisLoop or stop.
Fairness ==
    /\ SF_vars(~crashed /\ LoopStep)
    /\ WF_vars(~crashed /\ EnterAny)
    /\ \A t \in Threads :
          WF_vars(~crashed /\ (InlineDone(t) \/ Push(t) \/ CheckHandle(t) \/ Send(t)))

FairSpec == Spec /\ Fairness

-----------------------------------------------------------------------------
Tasks == Threads \X Nat

TypeOK ==
    /\ status \in {"NotRun", "Runed", "Stop"}
    /\ handle \in HandleStates
    /\ pending \in BOOLEAN
    /\ callbacks \in Seq(Tasks)
    /\ batch \in Seq(Tasks)
    /\ lpc \in LoopPoints
    /\ mode \in {"run", "runNoWait"}
    /\ stopFlag \in BOOLEAN
    /\ pc \in [Threads -> CallPoints]
    /\ sent \in [Threads -> Nat]
    /\ ran \in [Threads -> Nat]
    /\ crashed \in BOOLEAN

\* How the loop thread's position goes with the state it controls.
ControlOK ==
    /\ handle = "null" => lpc \in {"out", "init"}
    /\ handle = "raw" <=> lpc = "initHandle"
    /\ lpc = "initSend" => handle = "open"
    /\ status = "Runed" <=>
          lpc \in {"poll", "swap", "process", "closing", "return"}
    /\ lpc # "out" => status # "Stop"
    /\ pc[Loop] # "idle" => lpc \in {"out", "poll", "process"}
    /\ pc[Loop] \in {"push", "check", "send"} => lpc = "out"
    /\ batch # <<>> => lpc = "process"
    /\ \A t \in Threads : pc[t] = "send" => handle # "null"

\* The state is well typed, and at every point of run() / runNoWait() status_,
\* handle_, the batch and the loop thread's own calls are what the code at that
\* point relies on.
WellFormed == TypeOK /\ ControlOK

\* No lost wake-up: while callbacks wait and the async handle is usable, a
\* wake-up is pending, or the loop thread is about to swap the queue, or init()
\* is about to send, or a thread that pushed is still on its way to
\* uv_async_send.  (Async::runInThisLoop reads handle_ outside the mutex.)
NoLostWakeup ==
    callbacks # <<>> /\ handle = "open" =>
       \/ pending
       \/ lpc \in {"swap", "initSend"}
       \/ \E t \in Threads : pc[t] \in {"check", "send"}

\* A callback that a thread other than the loop's runs itself (after Stop) can
\* never overlap anything the loop thread does inside run().
InlineOnlyAfterRun ==
    \A t \in Threads \ {Loop} : pc[t] = "inline" => lpc = "out" /\ status = "Stop"

\* The queue of TaskFifo is the batch being run followed by callbacks_.
Fifo == INSTANCE TaskFifo WITH queue <- batch \o callbacks

\* runInThisLoop implements the abstract queue.
ImplementsFifo == Fifo!FifoSpec

\* Callbacks of one thread run once each and in the order it queued them.
RunOnceInOrder == Fifo!OnceInOrder

\* Every callback queued while the loop is open runs, unless stop() closes the
\* async handle first.
QueuedRuns ==
    \A t \in Threads : \A n \in 1..MaxPosts[t] :
        sent[t] >= n ~>
            ran[t] >= n \/ handle \in {"closing", "freed"} \/ crashed

\* stop() makes run() / runNoWait() return.
StopEndsRun == handle = "closing" ~> lpc = "out" \/ crashed

-----------------------------------------------------------------------------
(* What the documentation says and the code does not do. *)

\* doc/en/Async.md: once the close callback has been called the object can be
\* released safely, so no thread may be about to use the handle.
NoUseAfterClose == \A t \in Threads : pc[t] = "send" => handle # "freed"
=============================================================================
