--------------------------- MODULE MCNsIndexAssign ---------------------------
(***************************************************************************)
(* NsIndexAssign over the small namespace of MCNsBuffer: an indexed        *)
(* assignment differs from a plain one in what precedes it, not in its     *)
(* effect on the name, which is to give the base a new value.              *)
(***************************************************************************)
EXTENDS NsIndexAssign, MCNsBuffer

MCIndexOps == {o \in MCOps : o.value = CHOOSE v \in Values : TRUE}
=============================================================================
