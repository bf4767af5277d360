--------------------------- MODULE MCNsReadBarrier ---------------------------
(* NsReadBarrier over the small namespace of MCNsBuffer. *)
EXTENDS NsReadBarrier, MCNsBuffer
=============================================================================
