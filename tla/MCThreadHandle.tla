--------------------------- MODULE MCThreadHandle ---------------------------
(* ThreadHandle with one owner and one other user of the handle.           *)
EXTENDS ThreadHandle
=============================================================================
