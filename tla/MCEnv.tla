------------------------------- MODULE MCEnv -------------------------------
(***************************************************************************)
(* Env over a global scope and a function's, in which the second has one   *)
(* name: a map type and one schema, a map that fits it, a map that does    *)
(* not and an int.  The requests are those statements and built-ins make:  *)
(* a type is given exactly when the name may be declared.                  *)
(***************************************************************************)
EXTENDS Env

CONSTANTS Global, Function, FunctionNames, KindsChecked

MCLineage ==
  [e \in Envs |-> IF e = Function THEN <<Function, Global>> ELSE <<e>>]

MCAccepts(t, v) == (t = "MAP") = (v \in {"m", "n"})

MCCompatible(t, u) == t = u

MCFits(sch, v) == v = "m"

Request(k, e, n) ==
  [kind |-> k, env |-> e, name |-> n, type |-> Unknown, schema |-> NoSchema,
   value |-> Null, target |-> Nowhere, flag |-> FALSE]

\* A declaration; a function's parameters have no schema.
Defines == {[Request("define", e, n) EXCEPT !.type = t, !.schema = sch] :
              e \in Envs, n \in Names, t \in Types, sch \in Schemas \cup {NoSchema}}

Assigns == {[Request("assign", e, n) EXCEPT !.value = v, !.type = t, !.flag = t # Unknown] :
              e \in Envs, n \in Names, v \in Values, t \in Types \cup {Unknown}}

Aliases == {[Request("alias", e, n) EXCEPT !.target = b, !.type = t, !.flag = t # Unknown] :
              e \in Envs, n \in Names, b \in Bindings, t \in Types \cup {Unknown}}

Restores == {[Request("restore", e, n) EXCEPT !.type = t, !.value = v, !.flag = v # Null] :
               e \in Envs, n \in Names, t \in Types, v \in Values \cup {Null}}

Others == {Request(k, e, n) :
             k \in {"delete", "freeze", "thaw", "permafreeze"}, e \in Envs, n \in Names}

MCOps ==
  {o \in Defines \cup {o \in Assigns : o.type # Unknown => Accepts(o.type, o.value)}
         \cup {o \in Aliases : o.env = o.target[1] \/ o.type # Unknown}
         \cup {o \in Restores : o.flag => Accepts(o.type, o.value)}
         \cup Others :
     /\ o.kind \in KindsChecked
     /\ o.env = Function => o.name \in FunctionNames}
=============================================================================
