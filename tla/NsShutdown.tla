----------------------------- MODULE NsShutdown -----------------------------
(***************************************************************************)
(* The end of the namespace write-buffer: ns_buffer_shutdown, called by    *)
(* interpreter_destroy when the main program is over, while the threads    *)
(* started by async and thread go on calling env_* functions (they are     *)
(* detached, and interpreter_destroy does not wait for them).              *)
(*                                                                         *)
(* NsBuffer gives the steps of the buffer in service; here running may     *)
(* become 0 between any two of them.  A thread whose test of               *)
(* ns_buffer_active() fails works on the environments directly.            *)
(***************************************************************************)
EXTENDS NsBuffer

CONSTANT Main     \* the thread that runs interpreter_destroy

ASSUME MainAssumption == Main \in Threads

VARIABLES
  running,        \* NsBuffer.running
  dpc,            \* where Main is in ns_buffer_shutdown
  tailLeft        \* queue_tail is left at an operation the drain loop took out

svars == <<vars, running, dpc, tailLeft>>

\* The buffer is freed, and g_ns_buf still points to it, then g_ns_buf = NULL.
Freed == dpc \in {"freed", "gone"}

ShutdownInit == Init /\ running = TRUE /\ dpc = "serving" /\ tailLeft = FALSE

InService == UNCHANGED <<running, dpc, tailLeft>>

\* ns_buffer_active(); in state "freed" it reads running out of freed memory,
\* so the answer is either one.
ActiveAnswers == CASE dpc = "freed" -> {TRUE, FALSE}
                   [] dpc = "gone" -> {FALSE}
                   [] OTHER -> {running}

-----------------------------------------------------------------------------
(* Interpreter threads. *)

\* An env_* function finds the buffer active and goes through it.
BufferedCall(t) ==
  /\ t = Main => dpc = "serving"
  /\ TRUE \in ActiveAnswers
  /\ Call(t)
  /\ InService

\* An env_* function finds the buffer inactive: the *_direct or *_raw function
\* runs on the calling thread, under no lock.
DirectCall(t) ==
  /\ pc[t] = "idle" /\ t # Main
  /\ FALSE \in ActiveAnswers
  /\ calls[t] < MaxCalls
  /\ calls' = [calls EXCEPT ![t] = @ + 1]
  /\ \E r \in Ops \cup Reads :
       /\ req' = [req EXCEPT ![t] = r]
       /\ Goto(t, IF r \in Ops THEN "direct_wr" ELSE "direct_rd")
  /\ UNCHANGED <<result, completed, sharedVars, ppc, hand>>
  /\ InService

DirectReturn(t) ==
  /\ pc[t] \in {"direct_wr", "direct_rd"}
  /\ store' = IF pc[t] = "direct_wr" THEN Execute(req[t], store)[1] ELSE store
  /\ Leave(t)
  /\ UNCHANGED <<completed, calls, queue, symbols, pending, envMtx, ppc, hand>>
  /\ InService

\* ns_buffer_read_lock tests running again and returns without locking.
ReadLockSkipped(t) ==
  /\ pc[t] = "rd_find"
  /\ FALSE \in ActiveAnswers
  /\ Goto(t, "rd_look")
  /\ UNCHANGED <<req, result, completed, calls, sharedVars, ppc, hand>>
  /\ InService

\* ns_buffer_read_unlock unlocks env_mtx whenever g_ns_buf is set, and does
\* nothing when it is NULL.
ReadUnlockAnyway(t) ==
  /\ pc[t] = "rd_unlock"
  /\ envMtx' = IF dpc = "gone" THEN envMtx ELSE NoThread
  /\ Leave(t)
  /\ UNCHANGED <<completed, calls, queue, symbols, pending, store, ppc, hand>>
  /\ InService

\* enqueue_op after the drain loop has taken the last operation: queue_tail is not
\* NULL, so the operation is linked behind that one, and queue_head stays NULL.
EnqueueBehindTail(t) ==
  /\ pc[t] = "wr_enqueue"
  /\ tailLeft
  /\ Goto(t, "wr_wait")
  /\ UNCHANGED <<req, result, completed, calls, sharedVars, ppc, hand>>

\* The rest of an env_* call.  FindSymbol follows the same test of running.
BufferedStep(t) ==
  /\ \/ ~tailLeft /\ Enqueue(t)
     \/ EnqueueBehindTail(t)
     \/ WaitOp(t) \/ ReturnWrite(t) \/ Drain(t) \/ ReadLock(t) \/ Look(t)
     \/ TRUE \in ActiveAnswers /\ FindSymbol(t)
  /\ InService

WorkerStep(t) ==
  \/ BufferedCall(t) \/ BufferedStep(t) \/ DirectCall(t) \/ DirectReturn(t)
  \/ ReadLockSkipped(t) \/ ReadUnlockAnyway(t)

-----------------------------------------------------------------------------
(* ns_buffer_shutdown. *)

\* running = 0, outside the queue lock.
Stop ==
  /\ dpc = "serving"
  /\ pc[Main] = "idle"
  /\ running' = FALSE
  /\ dpc' = "stopped"
  /\ UNCHANGED <<vars, tailLeft>>

\* Mutant of SignalStop: queue_cnd is not signalled.
StopSilently ==
  /\ dpc = "stopped"
  /\ dpc' = "joining"
  /\ UNCHANGED <<vars, running, tailLeft>>

\* Signal queue_cnd under queue_mtx.
SignalStop ==
  /\ dpc = "stopped"
  /\ dpc' = "joining"
  /\ ppc' = IF ppc = "asleep" THEN "fetch" ELSE ppc
  /\ UNCHANGED <<threadVars, sharedVars, hand, running, tailLeft>>

\* thrd_join returns; the symbol threads, the locks and the buffer are freed.
JoinAndFree ==
  /\ dpc = "joining"
  /\ ppc = "exited"
  /\ dpc' = "freed"
  /\ UNCHANGED <<vars, running, tailLeft>>

\* g_ns_buf = NULL.
ClearPointer ==
  /\ dpc = "freed"
  /\ dpc' = "gone"
  /\ UNCHANGED <<vars, running, tailLeft>>

ShutdownStep == SignalStop \/ JoinAndFree \/ ClearPointer

-----------------------------------------------------------------------------
(* The prepare thread, once running is 0. *)

\* Mutant of LeaveLoop: there is no drain loop.
LeaveLoopUndrained ==
  /\ ~running
  /\ \/ ppc = "top"
     \/ ppc = "fetch" /\ queue = <<>>
  /\ ppc' = "exited"
  /\ UNCHANGED <<threadVars, sharedVars, hand>>

\* Both exits of the main loop: the loop test, and phase 1 with an empty queue.
LeaveLoop ==
  /\ ~running
  /\ \/ ppc = "top"
     \/ ppc = "fetch" /\ queue = <<>>
  /\ ppc' = "drain_fetch"
  /\ UNCHANGED <<threadVars, sharedVars, hand>>

\* Takes the head out; unlike phase 1 it leaves queue_tail as it is.
DrainDequeue ==
  /\ ppc = "drain_fetch"
  /\ queue # <<>>
  /\ hand' = Head(queue)
  /\ queue' = Tail(queue)
  /\ tailLeft' = (Tail(queue) = <<>>)
  /\ ppc' = "drain_find"
  /\ UNCHANGED <<threadVars, symbols, pending, envMtx, store, running, dpc>>

DrainFindSymbol ==
  /\ ppc = "drain_find"
  /\ symbols' = symbols \cup {req[hand].name}
  /\ ppc' = "drain_lock"
  /\ UNCHANGED <<threadVars, queue, pending, envMtx, store, hand>>

DrainLockEnv ==
  /\ ppc = "drain_lock"
  /\ envMtx = NoThread
  /\ envMtx' = Prepare
  /\ ppc' = "drain_execute"
  /\ UNCHANGED <<threadVars, queue, symbols, pending, store, hand>>

DrainExecute ==
  /\ ppc = "drain_execute"
  /\ store' = Execute(req[hand], store)[1]
  /\ result' = [result EXCEPT ![hand] = Execute(req[hand], store)[2]]
  /\ ppc' = "drain_unlock"
  /\ UNCHANGED <<pc, req, completed, calls, queue, symbols, pending, envMtx, hand>>

DrainUnlockEnv ==
  /\ ppc = "drain_unlock"
  /\ envMtx' = NoThread
  /\ ppc' = "drain_retire"
  /\ UNCHANGED <<threadVars, queue, symbols, pending, store, hand>>

\* pending_count, which the drain loop has not incremented, is decremented when
\* it is positive; drain_cnd is broadcast at zero.
DrainRetire ==
  /\ ppc = "drain_retire"
  /\ LET n == req[hand].name IN
       /\ pending' = [pending EXCEPT ![n] = IF @ > 0 THEN @ - 1 ELSE @]
       /\ pc' = IF pending[n] <= 1
                THEN [t \in Threads |->
                        IF t \in DrainWaiters(n) THEN "rd_drain" ELSE pc[t]]
                ELSE pc
  /\ ppc' = "drain_complete"
  /\ UNCHANGED <<req, result, completed, calls, queue, symbols, envMtx, store, hand>>

DrainComplete ==
  /\ ppc = "drain_complete"
  /\ completed' = [completed EXCEPT ![hand] = TRUE]
  /\ pc' = IF pc[hand] = "wr_asleep" THEN [pc EXCEPT ![hand] = "wr_wait"] ELSE pc
  /\ hand' = NoThread
  /\ ppc' = "drain_fetch"
  /\ UNCHANGED <<req, result, calls, sharedVars>>

DrainExit ==
  /\ ppc = "drain_fetch"
  /\ queue = <<>>
  /\ ppc' = "exited"
  /\ UNCHANGED <<threadVars, sharedVars, hand>>

\* The steps of the main loop; its two tests of running must succeed.
MainLoopStep ==
  \/ running /\ (LoopTest \/ AwaitOp)
  \/ Dequeue \/ FindOrCreateSymbol \/ Dispatch \/ LockEnv \/ ExecuteOp \/ UnlockEnv
  \/ Retire \/ Complete

DrainLoopStep ==
  \/ DrainFindSymbol \/ DrainLockEnv \/ DrainExecute
  \/ DrainUnlockEnv \/ DrainRetire \/ DrainComplete \/ DrainExit

PrepareThread ==
  \/ (MainLoopStep \/ LeaveLoop \/ DrainLoopStep) /\ InService
  \/ DrainDequeue

-----------------------------------------------------------------------------
ShutdownNext ==
  \/ \E t \in Threads : WorkerStep(t) \/ (SpuriousWakeup(t) /\ InService)
  \/ PrepareThread
  \/ PrepareSpuriousWakeup /\ InService
  \/ Stop
  \/ ShutdownStep

ShutdownSpec == ShutdownInit /\ [][ShutdownNext]_svars

ShutdownFairSpec ==
  /\ ShutdownSpec
  /\ WF_svars(PrepareThread)
  /\ WF_svars(ShutdownStep)
  /\ \A t \in Threads : WF_svars(pc[t] # "idle" /\ WorkerStep(t))

-----------------------------------------------------------------------------
(* Properties. *)

\* What the drain loop is for: a write that is in the buffer while it is running
\* returns, even when the shutdown overtakes it.
QueuedWriteSurvives == \A t \in Threads : (Waiting(t) /\ running) ~> ~Waiting(t)

\* interpreter_destroy does not hang: the join returns and the buffer is taken
\* down, whatever the detached threads are doing.
ShutdownReturns == dpc = "stopped" ~> dpc = "gone"

=============================================================================
