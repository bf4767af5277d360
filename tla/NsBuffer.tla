------------------------------ MODULE NsBuffer ------------------------------
(***************************************************************************)
(* The namespace write-buffer (src/ns_buffer.c) while it is in service,    *)
(* from ns_buffer_init to ns_buffer_shutdown (module NsShutdown).          *)
(*                                                                         *)
(* Interpreter threads call the env_* functions of env.c.  A write is put  *)
(* on one FIFO queue and its caller sleeps until the single prepare thread *)
(* has executed it; a read waits until the symbol's count of dispatched    *)
(* writes is zero, takes env_mtx and looks the symbol up itself.           *)
(*                                                                         *)
(* A critical section of queue_mtx, symbols_mtx, SymbolThread.lock or      *)
(* NsOp.completion_mtx takes no other lock and never blocks inside except  *)
(* in cnd_wait, so it is one action, split where it waits.  env_mtx is     *)
(* held across several steps and is a variable.  A thread that waits on a  *)
(* condition variable is at an "asleep" location: it moves only when it is *)
(* signalled or wakes up spuriously, and then tests its condition again.   *)
(***************************************************************************)
EXTENDS Naturals, Sequences

CONSTANTS
  Threads,        \* interpreter threads
  Names,          \* symbols
  Ops,            \* write requests, records with a field name
  Reads,          \* read requests, records with a field name
  Stores,         \* the states of the environments
  InitStore,
  Results,
  Execute(_, _),  \* execute_op: <<the store after, the result>>
  Lookup(_, _),   \* the env_*_raw reads
  NoReq, NoResult, NoThread, Prepare,
  MaxCalls        \* bound: env_* calls a thread makes

ASSUME NamesAssumption == \A r \in Ops \cup Reads : r.name \in Names

ASSUME RequestAssumption == Ops \cap Reads = {} /\ NoReq \notin Ops \cup Reads

ASSUME StoreAssumption ==
  /\ InitStore \in Stores
  /\ \A o \in Ops, s \in Stores : /\ Execute(o, s)[1] \in Stores
                                  /\ Execute(o, s)[2] \in Results
  /\ \A r \in Reads, s \in Stores : Lookup(r, s) \in Results
  /\ NoResult \notin Results

ASSUME ThreadAssumption ==
  /\ NoThread \notin Threads
  /\ Prepare \notin Threads \cup {NoThread}

ASSUME BoundAssumption == MaxCalls \in Nat

VARIABLES
  pc,         \* where each interpreter thread is
  req,        \* the request it is executing
  result,     \* NsOp.result_ok / result_int, or what its read found
  completed,  \* NsOp.completed of the write it waits for
  calls,      \* env_* calls it has made
  queue,      \* the central queue: the threads whose NsOp is on it, oldest first
  symbols,    \* the names that have a SymbolThread
  pending,    \* SymbolThread.pending_count
  envMtx,     \* the owner of env_mtx
  store,      \* the environments
  ppc,        \* where the prepare thread is
  hand        \* the thread whose NsOp it is processing

threadVars == <<pc, req, result, completed, calls>>
sharedVars == <<queue, symbols, pending, envMtx, store>>
vars == <<pc, req, result, completed, calls, queue, symbols, pending, envMtx,
          store, ppc, hand>>

ThreadLocs == {"idle", "wr_enqueue", "wr_wait", "wr_asleep", "rd_find",
               "rd_drain", "rd_asleep", "rd_lock", "rd_look", "rd_unlock"}

PrepareLocs == {"top", "fetch", "asleep", "find", "dispatch", "lock_env",
                "execute", "unlock_env", "retire", "complete"}

Init ==
  /\ pc = [t \in Threads |-> "idle"]
  /\ req = [t \in Threads |-> NoReq]
  /\ result = [t \in Threads |-> NoResult]
  /\ completed = [t \in Threads |-> FALSE]
  /\ calls = [t \in Threads |-> 0]
  /\ queue = <<>>
  /\ symbols = {}
  /\ pending = [n \in Names |-> 0]
  /\ envMtx = NoThread
  /\ store = InitStore
  /\ ppc = "top"
  /\ hand = NoThread

-----------------------------------------------------------------------------
(* Interpreter threads. *)

Goto(t, loc) == pc' = [pc EXCEPT ![t] = loc]

\* env_define ... env_permafreeze and env_get ... env_permafrozen find the
\* buffer active; make_op makes a fresh NsOp for a write.
Call(t) ==
  /\ pc[t] = "idle"
  /\ calls[t] < MaxCalls
  /\ calls' = [calls EXCEPT ![t] = @ + 1]
  /\ \E r \in Ops \cup Reads :
       /\ req' = [req EXCEPT ![t] = r]
       /\ Goto(t, IF r \in Ops THEN "wr_enqueue" ELSE "rd_find")
  /\ completed' = [completed EXCEPT ![t] = FALSE]
  /\ UNCHANGED <<result, sharedVars, ppc, hand>>

\* Mutant of Enqueue: queue_cnd is not signalled.
EnqueueSilently(t) ==
  /\ pc[t] = "wr_enqueue"
  /\ queue' = Append(queue, t)
  /\ Goto(t, "wr_wait")
  /\ UNCHANGED <<req, result, completed, calls, symbols, pending, envMtx, store,
                 ppc, hand>>

\* enqueue_op: append to the queue and signal queue_cnd.
Enqueue(t) ==
  /\ pc[t] = "wr_enqueue"
  /\ queue' = Append(queue, t)
  /\ ppc' = IF ppc = "asleep" THEN "fetch" ELSE ppc
  /\ Goto(t, "wr_wait")
  /\ UNCHANGED <<req, result, completed, calls, symbols, pending, envMtx, store,
                 hand>>

\* wait_op finds completed false and waits on completion_cnd.
WaitOp(t) ==
  /\ pc[t] = "wr_wait"
  /\ ~completed[t]
  /\ Goto(t, "wr_asleep")
  /\ UNCHANGED <<req, result, completed, calls, sharedVars, ppc, hand>>

\* The call is over: its result is handed to the interpreter.
Leave(t) ==
  /\ Goto(t, "idle")
  /\ req' = [req EXCEPT ![t] = NoReq]
  /\ result' = [result EXCEPT ![t] = NoResult]

\* Mutant of ReturnWrite: wait_op tests completed with if instead of while.
ReturnWriteUnchecked(t) ==
  /\ pc[t] = "wr_wait"
  /\ Leave(t)
  /\ UNCHANGED <<completed, calls, sharedVars, ppc, hand>>

\* wait_op finds completed true; the entry point takes the result out of the
\* NsOp and free_op frees it.
ReturnWrite(t) ==
  /\ pc[t] = "wr_wait"
  /\ completed[t]
  /\ Leave(t)
  /\ UNCHANGED <<completed, calls, sharedVars, ppc, hand>>

\* ns_buffer_read_lock: look for the symbol's SymbolThread.
FindSymbol(t) ==
  /\ pc[t] = "rd_find"
  /\ Goto(t, IF req[t].name \in symbols THEN "rd_drain" ELSE "rd_lock")
  /\ UNCHANGED <<req, result, completed, calls, sharedVars, ppc, hand>>

\* Mutant of Drain: the loop waits while pending_count > 1.
DrainOffByOne(t) ==
  /\ pc[t] = "rd_drain"
  /\ Goto(t, IF pending[req[t].name] > 1 THEN "rd_asleep" ELSE "rd_lock")
  /\ UNCHANGED <<req, result, completed, calls, sharedVars, ppc, hand>>

\* ns_buffer_read_lock: wait on drain_cnd while pending_count > 0.
Drain(t) ==
  /\ pc[t] = "rd_drain"
  /\ Goto(t, IF pending[req[t].name] > 0 THEN "rd_asleep" ELSE "rd_lock")
  /\ UNCHANGED <<req, result, completed, calls, sharedVars, ppc, hand>>

\* Mutant of ReadLock: env_mtx is not taken.
ReadLockFree(t) ==
  /\ pc[t] = "rd_lock"
  /\ Goto(t, "rd_look")
  /\ UNCHANGED <<req, result, completed, calls, sharedVars, ppc, hand>>

\* ns_buffer_read_lock: lock env_mtx.
ReadLock(t) ==
  /\ pc[t] = "rd_lock"
  /\ envMtx = NoThread
  /\ envMtx' = t
  /\ Goto(t, "rd_look")
  /\ UNCHANGED <<req, result, completed, calls, queue, symbols, pending, store,
                 ppc, hand>>

\* The env_*_raw call of an env_* read.
Look(t) ==
  /\ pc[t] = "rd_look"
  /\ result' = [result EXCEPT ![t] = Lookup(req[t], store)]
  /\ Goto(t, "rd_unlock")
  /\ UNCHANGED <<req, completed, calls, sharedVars, ppc, hand>>

\* ns_buffer_read_unlock, and the read returns.
ReadUnlock(t) ==
  /\ pc[t] = "rd_unlock"
  /\ envMtx' = NoThread
  /\ Leave(t)
  /\ UNCHANGED <<completed, calls, queue, symbols, pending, store, ppc, hand>>

\* cnd_wait may return without a signal.
SpuriousWakeup(t) ==
  /\ \/ pc[t] = "wr_asleep" /\ Goto(t, "wr_wait")
     \/ pc[t] = "rd_asleep" /\ Goto(t, "rd_drain")
  /\ UNCHANGED <<req, result, completed, calls, sharedVars, ppc, hand>>

ThreadStep(t) ==
  \/ Call(t) \/ Enqueue(t) \/ WaitOp(t) \/ ReturnWrite(t)
  \/ FindSymbol(t) \/ Drain(t) \/ ReadLock(t) \/ Look(t) \/ ReadUnlock(t)

-----------------------------------------------------------------------------
(* The prepare thread. *)

\* The test of buf->running at the head of the loop; running is 1 while the
\* buffer is in service.
LoopTest ==
  /\ ppc = "top"
  /\ ppc' = "fetch"
  /\ UNCHANGED <<threadVars, sharedVars, hand>>

\* Phase 1 with an empty queue: wait on queue_cnd.
AwaitOp ==
  /\ ppc = "fetch"
  /\ queue = <<>>
  /\ ppc' = "asleep"
  /\ UNCHANGED <<threadVars, sharedVars, hand>>

\* Phase 1: take the oldest operation.
Dequeue ==
  /\ ppc = "fetch"
  /\ queue # <<>>
  /\ hand' = Head(queue)
  /\ queue' = Tail(queue)
  /\ ppc' = "find"
  /\ UNCHANGED <<threadVars, symbols, pending, envMtx, store>>

\* Phase 2: find_or_create_symbol_thread.
FindOrCreateSymbol ==
  /\ ppc = "find"
  /\ symbols' = symbols \cup {req[hand].name}
  /\ ppc' = "dispatch"
  /\ UNCHANGED <<threadVars, queue, pending, envMtx, store, hand>>

\* Mutant of Dispatch: the operation is not counted.
DispatchUncounted ==
  /\ ppc = "dispatch"
  /\ ppc' = "lock_env"
  /\ UNCHANGED <<threadVars, sharedVars, hand>>

\* Phase 2: count the operation as pending on its symbol.
Dispatch ==
  /\ ppc = "dispatch"
  /\ pending' = [pending EXCEPT ![req[hand].name] = @ + 1]
  /\ ppc' = "lock_env"
  /\ UNCHANGED <<threadVars, queue, symbols, envMtx, store, hand>>

\* Phase 3: lock env_mtx.
LockEnv ==
  /\ ppc = "lock_env"
  /\ envMtx = NoThread
  /\ envMtx' = Prepare
  /\ ppc' = "execute"
  /\ UNCHANGED <<threadVars, queue, symbols, pending, store, hand>>

\* Phase 3: execute_op stores the result in the NsOp.
ExecuteOp ==
  /\ ppc = "execute"
  /\ store' = Execute(req[hand], store)[1]
  /\ result' = [result EXCEPT ![hand] = Execute(req[hand], store)[2]]
  /\ ppc' = "unlock_env"
  /\ UNCHANGED <<pc, req, completed, calls, queue, symbols, pending, envMtx, hand>>

\* Mutant of UnlockEnv: phase 5 comes before phase 4, so the writer may free the
\* NsOp that phase 4 still uses.
UnlockEnvThenComplete ==
  /\ ppc = "unlock_env"
  /\ envMtx' = NoThread
  /\ completed' = [completed EXCEPT ![hand] = TRUE]
  /\ ppc' = "retire"
  /\ UNCHANGED <<pc, req, result, calls, queue, symbols, pending, store, hand>>

\* Phase 3: unlock env_mtx.
UnlockEnv ==
  /\ ppc = "unlock_env"
  /\ envMtx' = NoThread
  /\ ppc' = "retire"
  /\ UNCHANGED <<threadVars, queue, symbols, pending, store, hand>>

\* The threads asleep on the drain_cnd of symbol n.
DrainWaiters(n) == {t \in Threads : pc[t] = "rd_asleep" /\ req[t].name = n}

\* Mutant of Retire: pending_count is left as it is.
RetireUncounted ==
  /\ ppc = "retire"
  /\ ppc' = "complete"
  /\ UNCHANGED <<threadVars, sharedVars, hand>>

\* Mutant of Retire: drain_cnd is not broadcast.
RetireSilently ==
  /\ ppc = "retire"
  /\ pending' = [pending EXCEPT ![req[hand].name] = @ - 1]
  /\ ppc' = "complete"
  /\ UNCHANGED <<threadVars, queue, symbols, envMtx, store, hand>>

\* Phase 4: take the operation off its symbol; broadcast drain_cnd at zero.
Retire ==
  /\ ppc = "retire"
  /\ LET n == req[hand].name IN
       /\ pending' = [pending EXCEPT ![n] = @ - 1]
       /\ pc' = IF pending[n] = 1
                THEN [t \in Threads |->
                        IF t \in DrainWaiters(n) THEN "rd_drain" ELSE pc[t]]
                ELSE pc
  /\ ppc' = "complete"
  /\ UNCHANGED <<req, result, completed, calls, queue, symbols, envMtx, store,
                 hand>>

\* Phase 5: set completed and signal completion_cnd; the NsOp now belongs to
\* the writer alone.
Complete ==
  /\ ppc = "complete"
  /\ completed' = [completed EXCEPT ![hand] = TRUE]
  /\ pc' = IF pc[hand] = "wr_asleep" THEN [pc EXCEPT ![hand] = "wr_wait"] ELSE pc
  /\ hand' = NoThread
  /\ ppc' = "top"
  /\ UNCHANGED <<req, result, calls, sharedVars>>

\* cnd_wait on queue_cnd may return without a signal.
PrepareSpuriousWakeup ==
  /\ ppc = "asleep"
  /\ ppc' = "fetch"
  /\ UNCHANGED <<threadVars, sharedVars, hand>>

PrepareStep ==
  \/ LoopTest \/ AwaitOp \/ Dequeue \/ FindOrCreateSymbol \/ Dispatch
  \/ LockEnv \/ ExecuteOp \/ UnlockEnv \/ Retire \/ Complete

-----------------------------------------------------------------------------
Next ==
  \/ \E t \in Threads : ThreadStep(t) \/ SpuriousWakeup(t)
  \/ PrepareStep
  \/ PrepareSpuriousWakeup

Spec == Init /\ [][Next]_vars

\* The operating system runs every thread that can run.  Nothing is assumed
\* about which contender gets env_mtx, about spurious wakeups, or that a
\* thread ever makes another call.
Fairness ==
  /\ WF_vars(PrepareStep)
  /\ \A t \in Threads : WF_vars(pc[t] # "idle" /\ ThreadStep(t))

FairSpec == Spec /\ Fairness
-----------------------------------------------------------------------------
(* Properties. *)

Waiting(t) == pc[t] \in {"wr_wait", "wr_asleep"}

Elements(q) == {q[i] : i \in DOMAIN q}

Distinct(q) == \A i, j \in DOMAIN q : q[i] = q[j] => i = j

\* The threads whose NsOp the buffer still refers to: queued or in hand.
InBuffer == Elements(queue) \cup ({hand} \ {NoThread})

\* The locations at which the prepare thread holds an operation that phase 2
\* has counted and phase 4 has not.
Counted == {"lock_env", "execute", "unlock_env", "retire"}

\* Every variable has its type.
TypeOK ==
  /\ pc \in [Threads -> ThreadLocs]
  /\ req \in [Threads -> Ops \cup Reads \cup {NoReq}]
  /\ result \in [Threads -> Results \cup {NoResult}]
  /\ completed \in [Threads -> BOOLEAN]
  /\ calls \in [Threads -> 0..MaxCalls]
  /\ queue \in Seq(Threads)
  /\ symbols \subseteq Names
  /\ pending \in [Names -> Nat]
  /\ envMtx \in Threads \cup {NoThread, Prepare}
  /\ store \in Stores
  /\ ppc \in PrepareLocs
  /\ hand \in Threads \cup {NoThread}

\* env_mtx keeps a lookup and the execution of a write apart: the entries an
\* env_*_raw call walks are not reallocated or freed under it, and two lookups
\* never overlap either.
LookupExcludesExecute ==
  \A t \in Threads : pc[t] \in {"rd_look", "rd_unlock"} =>
     /\ ppc \notin {"execute", "unlock_env"}
     /\ \A u \in Threads \ {t} : pc[u] \notin {"rd_look", "rd_unlock"}

\* free_op is safe: as long as the queue or the prepare thread refers to an
\* NsOp, its writer is still inside wait_op and has not freed it; and a writer
\* that still has to be woken has its NsOp in the buffer, so none is forgotten.
NsOpAlive ==
  /\ \A t \in InBuffer : Waiting(t) /\ ~completed[t]
  /\ \A t \in Threads : Waiting(t) /\ ~completed[t] => t \in InBuffer
  /\ Distinct(queue) /\ hand \notin Elements(queue)

\* pending_count counts exactly the operation between phases 2 and 4.  With one
\* prepare thread a symbol never has two: the per-symbol queues never queue.
PendingExact ==
  \A n \in Names :
    pending[n] = IF ppc \in Counted /\ req[hand].name = n THEN 1 ELSE 0

\* No lost wakeup on any of the three condition variables: whoever sleeps, the
\* condition it sleeps on is still false.
NoLostWakeup ==
  /\ ppc = "asleep" => queue = <<>>
  /\ \A t \in Threads : /\ pc[t] = "wr_asleep" => ~completed[t]
                        /\ pc[t] = "rd_asleep" => pending[req[t].name] > 0

\* The buffer implements the atomic namespace: every write takes effect exactly
\* once, when the prepare thread executes it, every read when it looks, both
\* between call and return, and the caller gets the result of that instant.
NS == INSTANCE Namespace WITH store <- store, req <- req, result <- result
NsSpec == NS!Spec

\* Every env_* call returns, with nobody left asleep, as long as the threads
\* stop calling at some time (MaxCalls).  The locks are not assumed fair, so a
\* thread may wait as long as others keep taking env_mtx.
CallsReturn == \A t \in Threads : pc[t] # "idle" ~> pc[t] = "idle"
=============================================================================
