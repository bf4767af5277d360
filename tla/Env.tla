-------------------------------- MODULE Env --------------------------------
(***************************************************************************)
(* The lexical environments (src/env.c): what the *_direct functions do to *)
(* the bindings and what the *_raw functions read.  An environment holds   *)
(* entries by name, and a lookup searches it and then its parents.  An     *)
(* entry is declared with a type and perhaps a map schema, may hold a      *)
(* value, may be frozen for a time or for good, and may be an alias        *)
(* (pointer) of an entry of some environment.                              *)
(*                                                                         *)
(* Each function is an operator from the environments to its outcomes: the *)
(* environments after it and the boolean it returns.  The specification    *)
(* runs them in any order; NsBuffer says how threads interleave them.      *)
(***************************************************************************)
EXTENDS Integers, Sequences, FiniteSets

CONSTANTS
  Envs,
  Lineage,           \* Lineage[e]: e, its parent, its parent's parent...
  Names,
  Types, Unknown,    \* declared types with their bases, and TYPE_UNKNOWN
  Values, Null,
  Schemas, NoSchema, \* map schemas, and a null schema
  Accepts(_, _),     \* decl_type_accepts_value
  Compatible(_, _),  \* decl_type_equal, which ignores the base 0
  Fits(_, _),        \* value_map_matches
  Absent,            \* no entry of that name
  Nowhere,           \* no binding
  Capacity,          \* entries a new environment has room for (8 in the code)
  MaxDepth,          \* aliases followed before a lookup gives up (257)
  Ops                \* the requests the program makes

Bindings == Envs \X Names

Entries == [type : Types \cup {Unknown}, schema : Schemas \cup {NoSchema},
            value : Values \cup {Null}, init : BOOLEAN, frozen : BOOLEAN,
            perma : BOOLEAN, alias : Bindings \cup {Nowhere}]

Stores == [Bindings -> Entries \cup {Absent}]

ASSUME EnvAssumption ==
  /\ Lineage \in [Envs -> Seq(Envs)]
  /\ \A e \in Envs : Lineage[e] # <<>> /\ Lineage[e][1] = e
  /\ Absent \notin Entries /\ Nowhere \notin Bindings
  /\ Unknown \notin Types /\ NoSchema \notin Schemas /\ Null \notin Values
  /\ Capacity \in Nat \ {0} /\ MaxDepth \in Nat \ {0}

Kinds == {"define", "assign", "delete", "alias", "restore", "freeze", "thaw",
          "permafreeze"}

ASSUME OpAssumption ==
  /\ Ops \subseteq [kind : Kinds, env : Envs, name : Names, type : Types \cup {Unknown},
                    schema : Schemas \cup {NoSchema}, value : Values \cup {Null},
                    target : Bindings \cup {Nowhere}, flag : BOOLEAN]
  /\ \A o \in Ops : o.kind = "alias" => o.target # Nowhere

VARIABLE store

-----------------------------------------------------------------------------
(* Lookup. *)

Hits(s, e, n) == {i \in DOMAIN Lineage[e] : s[<<Lineage[e][i], n>>] # Absent}

\* env_get_entry_raw_with_env: the nearest entry of that name.
Find(s, e, n) ==
  LET hits == Hits(s, e, n)
      nearest == CHOOSE i \in hits : \A j \in hits : i <= j
  IN IF hits = {} THEN Nowhere ELSE <<Lineage[e][nearest], n>>

IsAlias(s, b) == b # Nowhere /\ s[b].alias # Nowhere

\* One step along an alias chain: the entry its alias names.
Hop(s, b) == IF IsAlias(s, b) THEN Find(s, s[b].alias[1], s[b].alias[2]) ELSE b

\* The binding k steps along the chain of b.
Along(s, b) ==
  LET at[k \in 0..MaxDepth] == IF k = 0 THEN b ELSE Hop(s, at[k - 1]) IN at

\* The end of the chain, Nowhere when it is not reached.
Final(s, b) ==
  LET end == Along(s, b)[MaxDepth] IN IF IsAlias(s, end) THEN Nowhere ELSE end

\* env_get_raw: the value and whether there is one, at the end of the chain.
Get(s, e, n) ==
  LET end == Final(s, Find(s, e, n))
  IN IF end = Nowhere THEN [init |-> FALSE, value |-> Null]
     ELSE [init |-> s[end].init, value |-> s[end].value]

\* env_exists_raw: some entry of the name is initialized, here or further out.
Exists(s, e, n) == \E i \in Hits(s, e, n) : s[<<Lineage[e][i], n>>].init

-----------------------------------------------------------------------------
(* The write functions.  Each gives the set of its outcomes. *)

Local(o) == <<o.env, o.name>>

Refuse(s) == {[store |-> s, ok |-> FALSE]}

Put(s, b, entry) == {[store |-> [s EXCEPT ![b] = entry], ok |-> TRUE]}

Locked(s, b) == s[b].frozen \/ s[b].perma

NewEntry(type, schema) ==
  [type |-> type, schema |-> schema, value |-> Null, init |-> FALSE,
   frozen |-> FALSE, perma |-> FALSE, alias |-> Nowhere]

Define(o, s) ==
  IF s[Local(o)] # Absent THEN Refuse(s) ELSE Put(s, Local(o), NewEntry(o.type, o.schema))

\* Mutant of TakesValue: nothing protects a frozen entry.
TakesValueFrozen(s, b, o) ==
  /\ o.type # Unknown => Compatible(s[b].type, o.type)
  /\ s[b].type # Unknown => Accepts(s[b].type, o.value)
  /\ s[b].schema # NoSchema => Fits(s[b].schema, o.value)

\* Mutant of TakesValue: the declared type is not checked.
TakesValueUntyped(s, b, o) ==
  /\ ~Locked(s, b)
  /\ s[b].schema # NoSchema => Fits(s[b].schema, o.value)

\* An entry takes the value of an assignment (only a map type has a schema).
TakesValue(s, b, o) ==
  /\ ~Locked(s, b)
  /\ o.type # Unknown => Compatible(s[b].type, o.type)
  /\ s[b].type # Unknown => Accepts(s[b].type, o.value)
  /\ s[b].schema # NoSchema => Fits(s[b].schema, o.value)

\* Mutant of Assign: the entry takes the value itself when it is an alias.
AssignToAlias(o, s) ==
  LET b == Find(s, o.env, o.name)
  IN IF b # Nowhere /\ TakesValue(s, b, o)
     THEN Put(s, b, [s[b] EXCEPT !.value = o.value, !.init = TRUE])
     ELSE Refuse(s)

\* An assignment to a name goes to its entry or, when that is an alias, to the
\* entry the alias names, which may be an alias again.
Assign(o, s) ==
  LET b == Find(s, o.env, o.name)
      to == Hop(s, b)
      fresh == [NewEntry(o.type, NoSchema) EXCEPT !.value = o.value, !.init = TRUE]
  IN CASE to # Nowhere /\ TakesValue(s, to, o) ->
            Put(s, to, [s[to] EXCEPT !.value = o.value, !.init = TRUE])
       [] b = Nowhere /\ o.flag /\ o.type # Unknown /\ Accepts(o.type, o.value) ->
            Put(s, Local(o), fresh)
       [] OTHER -> Refuse(s)

\* The entry keeps its declared type and loses the rest.
Delete(o, s) ==
  LET b == Find(s, o.env, o.name)
  IN IF b = Nowhere \/ Locked(s, b) THEN Refuse(s)
     ELSE Put(s, b, [s[b] EXCEPT !.value = Null, !.init = FALSE, !.alias = Nowhere,
                                 !.schema = NoSchema])

\* env_define_direct moves the entries of a full environment.
Moves(s, e) ==
  LET n == Cardinality({x \in Names : s[<<e, x>>] # Absent})
  IN \E k \in 0..n : n = Capacity * 2 ^ k

AliasEntry(type, to) ==
  [NewEntry(type, NoSchema) EXCEPT !.init = TRUE, !.alias = to]

\* Mutant of Cyclic: nothing is a cycle.
CyclicIgnored(s, b, n) == FALSE

\* An alias on the way to the end of the chain names the new alias.
Cyclic(s, b, n) ==
  \E k \in 0..MaxDepth : LET c == Along(s, b)[k] IN IsAlias(s, c) /\ s[c].alias[2] = n

\* The end of the chain an alias is made of.
EndOf(o, s) == Final(s, Find(s, o.target[1], o.target[2]))

\* The end is among the entries that the definition of the alias moves.
Stale(o, s) == s[Local(o)] = Absent /\ Moves(s, o.env) /\ EndOf(o, s)[1] = o.env

\* env_set_alias and env_set_alias_cross: make the name an alias of the end of
\* the target's chain.  The entry found there is used after the new one is
\* defined; when that has moved it, it is read from freed memory.
Alias(o, s) ==
  LET end == EndOf(o, s)
      new == s[Local(o)] = Absent
      allowed == /\ end # Nowhere
                 /\ ~Cyclic(s, Find(s, o.target[1], o.target[2]), o.name)
                 /\ ~Locked(s, end)
                 /\ o.type # Unknown => Compatible(o.type, s[end].type)
                 /\ IF new THEN o.flag ELSE ~Locked(s, Local(o))
  IN IF ~allowed THEN Refuse(s)
     ELSE IF Stale(o, s) THEN UNION {Put(s, Local(o), AliasEntry(t, <<o.env, n>>)) :
                                 t \in Types, n \in Names}
     ELSE Put(s, Local(o), AliasEntry(s[end].type, end))

\* env_restore_local: give the local entry a type and a value, or none, again.
Restore(o, s) ==
  IF s[Local(o)] # Absent /\ Locked(s, Local(o)) THEN Refuse(s)
  ELSE Put(s, Local(o), [NewEntry(o.type, NoSchema) EXCEPT
                           !.value = IF o.flag THEN o.value ELSE Null, !.init = o.flag])

\* env_freeze, env_thaw and env_permafreeze act on the entry itself.
Mark(o, s) ==
  LET b == Find(s, o.env, o.name)
  IN IF b = Nowhere \/ (o.kind = "thaw" /\ s[b].perma) THEN Refuse(s)
     ELSE CASE o.kind = "freeze" -> Put(s, b, [s[b] EXCEPT !.frozen = TRUE])
            [] o.kind = "thaw" -> Put(s, b, [s[b] EXCEPT !.frozen = FALSE])
            [] OTHER -> Put(s, b, [s[b] EXCEPT !.frozen = TRUE, !.perma = TRUE])

Outcomes(o, s) ==
  CASE o.kind = "define" -> Define(o, s)
    [] o.kind = "assign" -> Assign(o, s)
    [] o.kind = "delete" -> Delete(o, s)
    [] o.kind = "alias" -> Alias(o, s)
    [] o.kind = "restore" -> Restore(o, s)
    [] OTHER -> Mark(o, s)

-----------------------------------------------------------------------------
Init == store = [b \in Bindings |-> Absent]

Perform(o) == \E out \in Outcomes(o, store) : store' = out.store

Next == \E o \in Ops : Perform(o)

Spec == Init /\ [][Next]_store

-----------------------------------------------------------------------------
(* Properties.  Most speak of what the next request would do. *)

Present(s, b) == s[b] # Absent

Requests(kinds) == {o \in Ops : o.kind \in kinds}

\* The store is a map from bindings to entries; an entry that is not initialized
\* holds no value and is no alias, and a permanently frozen entry is frozen.
TypeOK ==
  /\ store \in Stores
  /\ \A b \in Bindings : Present(store, b) =>
       /\ ~store[b].init => store[b].value = Null /\ store[b].alias = Nowhere
       /\ store[b].perma => store[b].frozen

\* An entry that holds a value holds one of its declared type and schema,
\* whichever name, alias or scope it was assigned through.
ValueFitsType ==
  \A b \in Bindings :
    Present(store, b) /\ store[b].init /\ ~IsAlias(store, b) =>
      /\ store[b].type # Unknown => Accepts(store[b].type, store[b].value)
      /\ store[b].schema # NoSchema => Fits(store[b].schema, store[b].value)

\* A frozen entry keeps its type, value and alias until it is thawed, and a
\* permanently frozen one keeps everything for ever, whichever way to it an
\* assignment, deletion, alias or loop counter takes.
FrozenEntryKept ==
  [][\A b \in Bindings :
       Present(store, b) /\ Locked(store, b) =>
         /\ Present(store', b)
         /\ store'[b] = [store[b] EXCEPT !.frozen = store'[b].frozen,
                                         !.perma = store'[b].perma]
         /\ store[b].perma => store'[b] = store[b]]_store

\* The value an assignment reports done is what the name reads next, and the name
\* exists, when the name is at most one alias away from its target.
AssignThenReadNear ==
  \A o \in Requests({"assign"}) : \A out \in Outcomes(o, store) :
    LET to == Hop(store, Find(store, o.env, o.name))
    IN out.ok /\ ~IsAlias(store, to) =>
         /\ Get(out.store, o.env, o.name) = [init |-> TRUE, value |-> o.value]
         /\ Exists(out.store, o.env, o.name)

\* A new alias reads what its target reads, also when its definition moves the
\* entries of its own environment, unless the target is one of them: there the code
\* reads freed memory (env.c:533, 622).  (A name made an alias of itself, which the
\* cycle test lets through, reads nothing.)
AliasReadsTarget ==
  \A o \in Requests({"alias"}) : \A out \in Outcomes(o, store) :
    out.ok /\ Find(store, o.target[1], o.target[2]) # Local(o) /\ ~Stale(o, store) =>
      Get(out.store, o.env, o.name) = Get(store, o.target[1], o.target[2])

=============================================================================
