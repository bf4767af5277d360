---------------------------- MODULE NsIndexAssign ----------------------------
(***************************************************************************)
(* Indexed assignment through the namespace write-buffer.  The prepare     *)
(* thread executes NS_OP_INDEX_ASSIGN by calling assign_index_chain, which *)
(* evaluates the index expressions: a function they call may run any       *)
(* statement, on the prepare thread and with env_mtx held.  Its env_*      *)
(* calls bypass the buffer (ns_buffer_is_prepare_thread); the env_* calls  *)
(* of a thread it starts and joins (PARFOR, AWAIT) do not.                 *)
(***************************************************************************)
EXTENDS NsBuffer

CONSTANTS
  IndexOps,    \* the indexed assignments among the write requests
  IndexError,  \* the result of one that fails
  Workers,     \* the threads an index expression starts and joins
  MaxNested    \* bound: env_* calls of an evaluation on the prepare thread

ASSUME IndexAssumption ==
  IndexOps \subseteq Ops /\ IndexError \in Results /\ Workers \subseteq Threads

VARIABLES
  live,        \* the threads that run
  nested       \* env_* calls of the evaluation in progress

ivars == <<vars, live, nested>>

IndexInit == Init /\ live = Threads \ Workers /\ nested = 0

-----------------------------------------------------------------------------
(* assign_index_chain on the prepare thread. *)

\* Mutant of BeginIndex: env_mtx is released for the evaluation.
BeginIndexUnlocked ==
  /\ ppc = "execute"
  /\ req[hand] \in IndexOps
  /\ ppc' = "evaluate"
  /\ envMtx' = NoThread
  /\ nested' = 0
  /\ UNCHANGED <<threadVars, queue, symbols, pending, store, hand, live>>

\* execute_op calls assign_index_chain.
BeginIndex ==
  /\ ppc = "execute"
  /\ req[hand] \in IndexOps
  /\ ppc' = "evaluate"
  /\ nested' = 0
  /\ UNCHANGED <<threadVars, sharedVars, hand, live>>

\* Mutant of NestedCall: the call is queued and waited for like any other.
NestedCallQueued ==
  /\ ppc = "evaluate"
  /\ nested < MaxNested
  /\ nested' = nested + 1
  /\ ppc' = "awaits_itself"
  /\ UNCHANGED <<threadVars, sharedVars, hand, live>>

\* An env_* call of the evaluation: the *_direct or *_raw function runs at once.
NestedCall ==
  /\ ppc = "evaluate"
  /\ nested < MaxNested
  /\ nested' = nested + 1
  /\ \/ \E o \in Ops \ IndexOps : store' = Execute(o, store)[1]
     \/ UNCHANGED store
  /\ UNCHANGED <<threadVars, queue, symbols, pending, envMtx, ppc, hand, live>>

\* The evaluation starts threads and joins them.
StartWorkers ==
  /\ ppc = "evaluate"
  /\ Workers # {}
  /\ live' = live \cup Workers
  /\ ppc' = "join"
  /\ UNCHANGED <<threadVars, sharedVars, hand, nested>>

JoinWorkers ==
  /\ ppc = "join"
  /\ live \cap Workers = {}
  /\ ppc' = "assign"
  /\ UNCHANGED <<threadVars, sharedVars, hand, live, nested>>

\* The element is assigned and the base written back.
AssignElement ==
  /\ ppc \in {"evaluate", "assign"}
  /\ store' = Execute(req[hand], store)[1]
  /\ result' = [result EXCEPT ![hand] = Execute(req[hand], store)[2]]
  /\ ppc' = "unlock_env"
  /\ UNCHANGED <<pc, req, completed, calls, queue, symbols, pending, envMtx, hand,
                 live, nested>>

\* An index expression fails, or a check of assign_index_chain does.
FailIndex ==
  /\ ppc \in {"evaluate", "assign"}
  /\ result' = [result EXCEPT ![hand] = IndexError]
  /\ ppc' = "unlock_env"
  /\ UNCHANGED <<pc, req, completed, calls, sharedVars, hand, live, nested>>

AssignIndexChain ==
  \/ BeginIndex \/ NestedCall \/ StartWorkers \/ JoinWorkers
  \/ AssignElement \/ FailIndex

-----------------------------------------------------------------------------
(* The rest of the system. *)

Elsewhere == UNCHANGED <<live, nested>>

\* A started thread ends between two of its calls.
EndWorker(t) ==
  /\ t \in Workers \cap live
  /\ pc[t] = "idle"
  /\ live' = live \ {t}
  /\ UNCHANGED <<vars, nested>>

LiveStep(t) == t \in live /\ ThreadStep(t) /\ Elsewhere

OrdinaryPrepareStep ==
  /\ \/ LoopTest \/ AwaitOp \/ Dequeue \/ FindOrCreateSymbol \/ Dispatch
     \/ LockEnv \/ UnlockEnv \/ Retire \/ Complete
     \/ ExecuteOp /\ req[hand] \notin IndexOps
  /\ Elsewhere

IndexPrepareStep == OrdinaryPrepareStep \/ AssignIndexChain

IndexNext ==
  \/ \E t \in Threads : LiveStep(t) \/ EndWorker(t) \/ (SpuriousWakeup(t) /\ Elsewhere)
  \/ IndexPrepareStep
  \/ PrepareSpuriousWakeup /\ Elsewhere

IndexSpec == IndexInit /\ [][IndexNext]_ivars

IndexFairSpec ==
  /\ IndexSpec
  /\ WF_ivars(IndexPrepareStep)
  /\ \A t \in Threads : /\ WF_ivars(pc[t] # "idle" /\ LiveStep(t))
                        /\ WF_ivars(EndWorker(t))

-----------------------------------------------------------------------------
(* Properties. *)

\* To the other threads an indexed assignment is one step, with all that its
\* index expressions read and write: from the lookup of the base to its write
\* back no other thread looks at the environments.
IndexAssignExclusive ==
  ppc \in {"execute", "evaluate", "join", "assign", "unlock_env"} =>
    \A t \in Threads : pc[t] \notin {"rd_look", "rd_unlock"}

\* The bypass works: an indexed assignment returns, whatever env_* calls its index
\* expressions make on the prepare thread, unless it joins a thread it started.
IndexAssignReturnsOrJoins ==
  \A t \in Threads :
    (pc[t] # "idle" /\ req[t] \in IndexOps) ~> (pc[t] = "idle" \/ ppc = "join")

=============================================================================
