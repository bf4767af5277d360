----------------------------- MODULE Namespace -----------------------------
(***************************************************************************)
(* What the namespace write-buffer promises to an interpreter thread: the  *)
(* environments behave as one atomic object.  A thread calls env_* with a  *)
(* request, the request takes effect in one step at some instant between   *)
(* the call and the return, and the thread gets the result of that step.   *)
(* Queues, locks and the prepare thread are invisible.                     *)
(*                                                                         *)
(* NsBuffer implements this specification (NsBuffer!NsSpec).               *)
(***************************************************************************)
CONSTANTS
  Threads,        \* interpreter threads
  Ops,            \* write requests (define, assign, delete, alias, freeze...)
  Reads,          \* read requests (get, exists, frozen state)
  InitStore,      \* the environments before the first request
  NoReq,          \* the thread is outside env_*
  NoResult,       \* the request has not taken effect
  Execute(_, _),  \* Execute(op, store) = <<the store after, the result>>
  Lookup(_, _)    \* Lookup(read, store) = the result

VARIABLES
  store,          \* the environments
  req,            \* the request of each thread, NoReq between calls
  result          \* its result, NoResult until it has taken effect

Init ==
  /\ store = InitStore
  /\ req = [t \in Threads |-> NoReq]
  /\ result = [t \in Threads |-> NoResult]

Call(t) ==
  /\ req[t] = NoReq
  /\ \E r \in Ops \cup Reads : req' = [req EXCEPT ![t] = r]
  /\ UNCHANGED <<store, result>>

Write(t) ==
  /\ req[t] \in Ops
  /\ result[t] = NoResult
  /\ store' = Execute(req[t], store)[1]
  /\ result' = [result EXCEPT ![t] = Execute(req[t], store)[2]]
  /\ UNCHANGED req

Read(t) ==
  /\ req[t] \in Reads
  /\ result[t] = NoResult
  /\ result' = [result EXCEPT ![t] = Lookup(req[t], store)]
  /\ UNCHANGED <<store, req>>

Return(t) ==
  /\ req[t] # NoReq
  /\ result[t] # NoResult
  /\ req' = [req EXCEPT ![t] = NoReq]
  /\ result' = [result EXCEPT ![t] = NoResult]
  /\ UNCHANGED store

Next == \E t \in Threads : Call(t) \/ Write(t) \/ Read(t) \/ Return(t)

Spec == Init /\ [][Next]_<<store, req, result>>
=============================================================================
