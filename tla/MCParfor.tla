------------------------------ MODULE MCParfor ------------------------------
(***************************************************************************)
(* Parfor over two names and types.  Of each kind of symbol a body can     *)
(* leave there is one environment: nothing, values (with and without a     *)
(* value, in one order and the other, of one type and another), a builtin's*)
(* implicit local, and aliases of a merged symbol and of the loop counter. *)
(***************************************************************************)
EXTENDS Parfor

Declared(x, t) == [name |-> x, type |-> t, init |-> TRUE, target |-> ""]

AliasOf(x, t, y) == [name |-> x, type |-> t, init |-> TRUE, target |-> y]

MCLocals ==
  {<<>>,
   <<Declared("x", "INT"), Declared("y", "INT")>>,
   <<Declared("y", "INT"), Declared("x", "STR")>>,
   <<[Declared("x", "INT") EXCEPT !.init = FALSE], AliasOf("y", "INT", "x")>>,
   <<Declared("x", Unknown), AliasOf("y", "INT", NoName)>>}

=============================================================================
