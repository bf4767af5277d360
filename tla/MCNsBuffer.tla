----------------------------- MODULE MCNsBuffer -----------------------------
(***************************************************************************)
(* NsBuffer over a small namespace: each name is bound to a value, and an  *)
(* assignment to a frozen name is refused.                                 *)
(***************************************************************************)
EXTENDS NsBuffer

CONSTANTS Values, Unbound, FrozenNames

MCStores == [Names -> Values \cup {Unbound}]

MCInitStore == [n \in Names |-> Unbound]

MCResults == Values \cup {Unbound, TRUE, FALSE}

MCOps == [kind : {"assign"}, name : Names, value : Values]

MCReads == [kind : {"get"}, name : Names]

MCExecute(o, s) ==
  IF o.name \in FrozenNames THEN <<s, FALSE>>
  ELSE <<[s EXCEPT ![o.name] = o.value], TRUE>>

MCLookup(r, s) == s[r.name]
=============================================================================
