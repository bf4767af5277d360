--------------------------- MODULE NsReadBarrier ---------------------------
(***************************************************************************)
(* What the wait in ns_buffer_read_lock achieves: NsBuffer with a history  *)
(* of the writes of the same symbol that a read found dispatched when it   *)
(* was called and that have not been executed since.                       *)
(***************************************************************************)
EXTENDS NsBuffer

VARIABLE counted  \* counted[t]: the writers whose operations thread t's read found

Found(t) ==
  IF ppc \in Counted /\ ppc \notin {"unlock_env", "retire", "complete"}
  THEN {u \in {hand} : req[u].name = req'[t].name}
  ELSE {}

BarrierInit == Init /\ counted = [t \in Threads |-> {}]

ReadStarts(t) == pc[t] = "idle" /\ pc'[t] = "rd_find"

Executed == IF ppc = "execute" /\ ppc' = "unlock_env" THEN {hand} ELSE {}

BarrierNext ==
  /\ Next
  /\ counted' = [t \in Threads |->
                   IF ReadStarts(t) THEN Found(t) ELSE counted[t] \ Executed]

BarrierSpec == BarrierInit /\ [][BarrierNext]_<<vars, counted>>

BarrierFairSpec == BarrierSpec /\ Fairness

Holding(t) == pc[t] \in {"rd_look", "rd_unlock"}

\* A read does not look before the write of its symbol that the prepare thread
\* had already dispatched when the read was called ("Block the calling thread until
\* all pending writes for `name` have been processed", ns_buffer.h:108): only a write
\* still on the central queue may be overtaken.
DispatchedWritesProcessed == \A t \in Threads : Holding(t) => counted[t] = {}

=============================================================================
