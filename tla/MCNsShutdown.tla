---------------------------- MODULE MCNsShutdown ----------------------------
(* NsShutdown over the small namespace of MCNsBuffer. *)
EXTENDS NsShutdown, MCNsBuffer
=============================================================================
