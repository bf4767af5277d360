------------------------------ MODULE EnvProofs ------------------------------
(***************************************************************************)
(* Proofs about Env for every set of environments, names, types, schemas,  *)
(* values and requests, whatever the types accept.                         *)
(***************************************************************************)
EXTENDS Env, WellFoundedInduction, TLAPS

\* env_restore_local is given back what the entry had: a value of its type.
RestoresFit ==
  \A o \in Ops : o.kind = "restore" /\ o.flag /\ o.type # Unknown => Accepts(o.type, o.value)

\* An entry is well formed.
EntryOK(e) ==
  /\ e \in Entries
  /\ ~e.init => e.value = Null /\ e.alias = Nowhere
  /\ e.perma => e.frozen

Good(s) == s \in Stores /\ \A b \in Bindings : Present(s, b) => EntryOK(s[b])

\* A value in an entry fits it.
HoldsFit(e) ==
  e.init /\ e.alias = Nowhere =>
    /\ e.type # Unknown => Accepts(e.type, e.value)
    /\ e.schema # NoSchema => Fits(e.schema, e.value)

\* A locked entry keeps all but its locks, a permanently frozen one these too.
Keeps(old, new) ==
  old.frozen \/ old.perma =>
    /\ new = [old EXCEPT !.frozen = new.frozen, !.perma = new.perma]
    /\ old.perma => new = old

\* What a request may do to the store: nothing, or replace the entry of one binding.
Replaces(s, b, e, t) ==
  /\ t = [s EXCEPT ![b] = e]
  /\ EntryOK(e)
  /\ Present(s, b) => Keeps(s[b], e)
  /\ RestoresFit /\ (Present(s, b) => HoldsFit(s[b])) => HoldsFit(e)

Changes(s, t) == t = s \/ \E b \in Bindings, e \in Entries : Replaces(s, b, e, t)

-----------------------------------------------------------------------------
\* Entries are equal when their fields are.
LEMMA EntryEqual ==
  ASSUME NEW e \in Entries, NEW f \in Entries,
         e.type = f.type, e.schema = f.schema, e.value = f.value, e.init = f.init,
         e.frozen = f.frozen, e.perma = f.perma, e.alias = f.alias
  PROVE  e = f
  BY DEF Entries

\* A new entry.
LEMMA NewEntryOK ==
  ASSUME NEW t \in Types \cup {Unknown}, NEW sch \in Schemas \cup {NoSchema}
  PROVE  /\ EntryOK(NewEntry(t, sch)) /\ ~NewEntry(t, sch).init
         /\ NewEntry(t, sch).type = t /\ NewEntry(t, sch).schema = sch
         /\ NewEntry(t, sch).value = Null /\ NewEntry(t, sch).alias = Nowhere
         /\ ~NewEntry(t, sch).frozen /\ ~NewEntry(t, sch).perma
  BY DEF EntryOK, NewEntry, Entries

\* An entry that takes a value.
LEMMA AssignedOK ==
  ASSUME NEW e, EntryOK(e), NEW v \in Values \cup {Null}
  PROVE  LET f == [e EXCEPT !.value = v, !.init = TRUE]
         IN  /\ EntryOK(f) /\ f.init /\ f.value = v
             /\ f.type = e.type /\ f.schema = e.schema /\ f.alias = e.alias
             /\ f.frozen = e.frozen /\ f.perma = e.perma
  BY DEF EntryOK, Entries

\* A deleted entry.
LEMMA DeletedOK ==
  ASSUME NEW e, EntryOK(e)
  PROVE  LET f == [e EXCEPT !.value = Null, !.init = FALSE, !.alias = Nowhere,
                            !.schema = NoSchema]
         IN  EntryOK(f) /\ ~f.init
  BY DEF EntryOK, Entries

\* An alias.
LEMMA AliasOK ==
  ASSUME NEW t \in Types \cup {Unknown}, NEW b \in Bindings
  PROVE  /\ EntryOK(AliasEntry(t, b))
         /\ AliasEntry(t, b).alias = b /\ AliasEntry(t, b).init /\ b # Nowhere
  BY EnvAssumption DEF EntryOK, AliasEntry, NewEntry, Entries

\* A set of naturals that is not empty has a least element.
LEMMA LeastExists ==
  ASSUME NEW S \in SUBSET Nat, S # {}
  PROVE  \E i \in S : \A j \in S : i <= j
<1> DEFINE Less == OpToRel(<, Nat)
<1>1. IsWellFoundedOn(Less, Nat)
  BY NatLessThanWellFounded
<1>2. PICK i \in S : \A j \in S : ~ (<<j, i>> \in Less)
  BY <1>1, WFMin
<1>3. \A j \in S : ~ (j < i)
  BY <1>2 DEF OpToRel
<1> QED
  BY <1>3

-----------------------------------------------------------------------------
(* Lookup. *)

\* The environments a name is looked up in, the own one first.
LEMMA LineageTypes ==
  ASSUME NEW e \in Envs
  PROVE  /\ DOMAIN Lineage[e] \subseteq Nat \ {0} /\ 1 \in DOMAIN Lineage[e]
         /\ Lineage[e][1] = e
         /\ \A i \in DOMAIN Lineage[e] : Lineage[e][i] \in Envs
<1>1. Lineage[e] \in Seq(Envs) /\ Lineage[e] # <<>> /\ Lineage[e][1] = e
  BY EnvAssumption
<1> QED
  BY <1>1

\* env_get_entry_raw_with_env finds nothing, or the nearest entry of the name.
LEMMA Found ==
  ASSUME NEW s, NEW e \in Envs, NEW n \in Names
  PROVE  /\ Hits(s, e, n) = {} => Find(s, e, n) = Nowhere
         /\ Hits(s, e, n) # {} => \E i \in Hits(s, e, n) :
              /\ \A j \in Hits(s, e, n) : i <= j
              /\ Find(s, e, n) = <<Lineage[e][i], n>>
              /\ Find(s, e, n) \in Bindings /\ Present(s, Find(s, e, n))
<1>1. ASSUME Hits(s, e, n) # {}
      PROVE  \E i \in Hits(s, e, n) :
              /\ \A j \in Hits(s, e, n) : i <= j
              /\ Find(s, e, n) = <<Lineage[e][i], n>>
              /\ Find(s, e, n) \in Bindings /\ Present(s, Find(s, e, n))
  <2> DEFINE i == CHOOSE k \in Hits(s, e, n) : \A j \in Hits(s, e, n) : k <= j
  <2>1. Hits(s, e, n) \in SUBSET Nat
    BY LineageTypes DEF Hits
  <2>2. i \in Hits(s, e, n) /\ \A j \in Hits(s, e, n) : i <= j
    BY <1>1, <2>1, LeastExists
  <2>3. Find(s, e, n) = <<Lineage[e][i], n>>
    BY <1>1 DEF Find
  <2>4. Find(s, e, n) \in Bindings /\ Present(s, Find(s, e, n))
    <3>1. i \in DOMAIN Lineage[e] /\ s[<<Lineage[e][i], n>>] # Absent
      BY <2>2 DEF Hits
    <3>2. <<Lineage[e][i], n>> \in Bindings
      BY <3>1, LineageTypes DEF Bindings
    <3> QED
      BY <2>3, <3>1, <3>2 DEF Present
  <2> QED
    BY <2>2, <2>3, <2>4
<1> QED
  BY <1>1 DEF Find

\* A binding, or none.
At(s, b) == b = Nowhere \/ (b \in Bindings /\ Present(s, b))

\* What is found is there.
LEMMA FindThere ==
  ASSUME NEW s, NEW e \in Envs, NEW n \in Names
  PROVE  At(s, Find(s, e, n))
  BY Found DEF At

\* The own entry is the nearest.
LEMMA FindOwn ==
  ASSUME NEW s, NEW e \in Envs, NEW n \in Names, Present(s, <<e, n>>)
  PROVE  Find(s, e, n) = <<e, n>>
<1>1. 1 \in Hits(s, e, n)
  BY LineageTypes DEF Hits, Present
<1>2. PICK i \in Hits(s, e, n) :
        (\A j \in Hits(s, e, n) : i <= j) /\ Find(s, e, n) = <<Lineage[e][i], n>>
  BY <1>1, Found
<1>3. i = 1
  <2>1. i \in Nat \ {0} /\ i <= 1
    BY <1>1, <1>2, LineageTypes DEF Hits
  <2> QED
    BY <2>1
<1> QED
  BY <1>2, <1>3, LineageTypes

\* What is found depends only on which entries there are.
LEMMA FindSame ==
  ASSUME NEW s, NEW t, NEW e \in Envs, NEW n \in Names,
         \A b \in Bindings : Present(s, b) <=> Present(t, b)
  PROVE  Find(t, e, n) = Find(s, e, n)
<1>1. Hits(s, e, n) = Hits(t, e, n)
  BY LineageTypes DEF Hits, Present, Bindings
<1> QED
  BY <1>1 DEF Find

\* An entry is well formed, and its alias names a binding.
LEMMA EntryAt ==
  ASSUME NEW s, Good(s), NEW b \in Bindings, Present(s, b)
  PROVE  /\ EntryOK(s[b]) /\ s[b] \in Entries
         /\ s[b].frozen \in BOOLEAN /\ s[b].perma \in BOOLEAN /\ s[b].init \in BOOLEAN
         /\ s[b].alias \in Bindings \cup {Nowhere}
         /\ s[b].type \in Types \cup {Unknown} /\ s[b].schema \in Schemas \cup {NoSchema}
         /\ s[b].alias # Nowhere => /\ s[b].alias[1] \in Envs /\ s[b].alias[2] \in Names
                                    /\ s[b].init
<1>1. EntryOK(s[b]) /\ s[b] \in Entries
  BY DEF Good, EntryOK
<1> QED
  BY <1>1 DEF EntryOK, Entries, Bindings

\* One step along a chain comes to an entry, or to none.
LEMMA HopThere ==
  ASSUME NEW s, Good(s), NEW b, At(s, b)
  PROVE  At(s, Hop(s, b))
<1>1. CASE IsAlias(s, b)
  BY <1>1, EntryAt, FindThere DEF Hop, IsAlias, At
<1>2. CASE ~IsAlias(s, b)
  BY <1>2 DEF Hop
<1> QED
  BY <1>1, <1>2

\* The recursion along a chain is well founded.
LEMMA AlongStep ==
  ASSUME NEW s, NEW b
  PROVE  /\ Along(s, b)[0] = b
         /\ \A k \in 1..MaxDepth : Along(s, b)[k] = Hop(s, Along(s, b)[k - 1])
<1> DEFINE Chain(f, n) == f = [k \in 0..n |-> IF k = 0 THEN b ELSE Hop(s, f[k - 1])]
           Undefined == {n \in Nat : ~\E f : Chain(f, n)}
<1>1. Undefined = {}
  <2>1. SUFFICES ASSUME Undefined # {} PROVE FALSE
    OBVIOUS
  <2>2. PICK n \in Undefined : \A m \in Undefined : n <= m
    BY <2>1, LeastExists
  <2>3. CASE n = 0
    <3>1. Chain([k \in 0..0 |-> b], 0)
      OBVIOUS
    <3> QED
      BY <2>3, <3>1
  <2>4. CASE n # 0
    <3>1. n - 1 \in Nat /\ n - 1 \notin Undefined
      BY <2>2, <2>4
    <3>2. PICK f : Chain(f, n - 1)
      BY <3>1
    <3> DEFINE g == [k \in 0..n |-> IF k = n THEN Hop(s, f[n - 1]) ELSE f[k]]
    <3>3. \A k \in 0..n : g[k] = IF k = 0 THEN b ELSE Hop(s, g[k - 1])
      <4>1. \A k \in 0..(n - 1) : f[k] = IF k = 0 THEN b ELSE Hop(s, f[k - 1])
        BY <3>2
      <4> QED
        BY <2>4, <4>1
    <3>4. Chain(g, n)
      BY <3>3
    <3> QED
      BY <3>4
  <2> QED
    BY <2>3, <2>4
<1>2. MaxDepth \in Nat
  BY EnvAssumption
<1>3. \E f : Chain(f, MaxDepth)
  BY <1>1, <1>2
<1>4. Along(s, b) = CHOOSE f : Chain(f, MaxDepth)
  BY DEF Along
<1>5. Chain(Along(s, b), MaxDepth)
  BY <1>3, <1>4
<1> QED
  BY <1>2, <1>5

\* A chain comes to entries only, or ends.
LEMMA AlongThere ==
  ASSUME NEW s, Good(s), NEW b, At(s, b), NEW k \in 0..MaxDepth
  PROVE  At(s, Along(s, b)[k])
<1> DEFINE Lost == {n \in 0..MaxDepth : ~At(s, Along(s, b)[n])}
<1>1. MaxDepth \in Nat
  BY EnvAssumption
<1>2. SUFFICES ASSUME Lost # {} PROVE FALSE
  OBVIOUS
<1>3. PICK n \in Lost : \A m \in Lost : n <= m
  <2>1. Lost \in SUBSET Nat
    BY <1>1
  <2> QED
    BY <1>2, <2>1, LeastExists
<1>4. n # 0
  BY <1>3, AlongStep
<1>5. n - 1 \in 0..MaxDepth /\ n \in 1..MaxDepth /\ ~(n <= n - 1)
  BY <1>1, <1>3, <1>4
<1>6. At(s, Along(s, b)[n - 1])
  BY <1>3, <1>5
<1>7. At(s, Along(s, b)[n])
  BY <1>5, <1>6, AlongStep, HopThere
<1> QED
  BY <1>3, <1>7

\* A chain stays where it comes to an entry that is no alias.
LEMMA AlongStays ==
  ASSUME NEW s, NEW b, NEW j \in 0..MaxDepth, ~IsAlias(s, Along(s, b)[j]),
         NEW k \in j..MaxDepth
  PROVE  Along(s, b)[k] = Along(s, b)[j]
<1> DEFINE Left == {n \in j..MaxDepth : Along(s, b)[n] # Along(s, b)[j]}
<1>1. MaxDepth \in Nat
  BY EnvAssumption
<1>2. SUFFICES ASSUME Left # {} PROVE FALSE
  OBVIOUS
<1>3. PICK n \in Left : \A m \in Left : n <= m
  <2>1. Left \in SUBSET Nat
    BY <1>1
  <2> QED
    BY <1>2, <2>1, LeastExists
<1>4. n # j
  BY <1>3
<1>5. n - 1 \in j..MaxDepth /\ n \in 1..MaxDepth /\ ~(n <= n - 1)
  BY <1>1, <1>3, <1>4
<1>6. Along(s, b)[n - 1] = Along(s, b)[j]
  BY <1>3, <1>5
<1>7. Along(s, b)[n] = Along(s, b)[j]
  BY <1>5, <1>6, AlongStep DEF Hop
<1> QED
  BY <1>3, <1>7

\* The end of a chain is an entry that is no alias, or none.
LEMMA FinalThere ==
  ASSUME NEW s, Good(s), NEW b, At(s, b)
  PROVE  At(s, Final(s, b)) /\ ~IsAlias(s, Final(s, b))
<1>1. At(s, Along(s, b)[MaxDepth])
  BY AlongThere, EnvAssumption
<1> QED
  BY <1>1 DEF Final, IsAlias, At

\* The end of the chain of what is no alias, and of an alias of what is none.
LEMMA FinalNear ==
  ASSUME NEW s, NEW b
  PROVE  /\ ~IsAlias(s, b) => Final(s, b) = b
         /\ ~IsAlias(s, Hop(s, b)) => Final(s, b) = Hop(s, b)
<1>1. MaxDepth \in Nat \ {0}
  BY EnvAssumption
<1>2. Along(s, b)[0] = b /\ Along(s, b)[1] = Hop(s, b)
  BY <1>1, AlongStep
<1>3. ASSUME ~IsAlias(s, b) PROVE Along(s, b)[MaxDepth] = b
  BY <1>1, <1>2, <1>3, AlongStays
<1>4. ASSUME ~IsAlias(s, Hop(s, b)) PROVE Along(s, b)[MaxDepth] = Hop(s, b)
  BY <1>1, <1>2, <1>4, AlongStays
<1> QED
  BY <1>3, <1>4 DEF Final

-----------------------------------------------------------------------------
(* What each request may do. *)

\* A request's fields.
LEMMA RequestTypes ==
  ASSUME NEW o \in Ops
  PROVE  /\ o.kind \in Kinds /\ o.env \in Envs /\ o.name \in Names
         /\ o.type \in Types \cup {Unknown} /\ o.schema \in Schemas \cup {NoSchema}
         /\ o.value \in Values \cup {Null} /\ o.target \in Bindings \cup {Nowhere}
         /\ o.flag \in BOOLEAN /\ Local(o) \in Bindings
  BY OpAssumption DEF Local, Bindings

\* Putting a well-formed entry where it may be put.
LEMMA PutChanges ==
  ASSUME NEW s, NEW b \in Bindings, NEW e, EntryOK(e),
         Present(s, b) => Keeps(s[b], e),
         RestoresFit /\ (Present(s, b) => HoldsFit(s[b])) => HoldsFit(e),
         NEW out \in Put(s, b, e)
  PROVE  Changes(s, out.store)
<1>1. out.store = [s EXCEPT ![b] = e]
  BY DEF Put
<1> QED
  BY <1>1 DEF Changes, Replaces, EntryOK

\* A refused request leaves the store.
LEMMA RefuseChanges ==
  ASSUME NEW s, NEW out \in Refuse(s)
  PROVE  Changes(s, out.store)
  BY DEF Refuse, Changes

\* A declaration makes an entry, or finds the name taken.
LEMMA DefineChanges ==
  ASSUME NEW s, NEW o \in Ops, NEW out \in Define(o, s)
  PROVE  Changes(s, out.store)
<1>1. CASE s[Local(o)] # Absent
  BY <1>1, RefuseChanges DEF Define
<1>2. CASE s[Local(o)] = Absent
  BY <1>2, RequestTypes, NewEntryOK, PutChanges DEF Define, Present, HoldsFit
<1> QED
  BY <1>1, <1>2

\* An assignment changes the entry it comes to, if that is not locked, or makes one.
LEMMA AssignChanges ==
  ASSUME NEW s, Good(s), NEW o \in Ops, NEW out \in Assign(o, s)
  PROVE  Changes(s, out.store)
<1> DEFINE b == Find(s, o.env, o.name)
           to == Hop(s, b)
           fresh == [NewEntry(o.type, NoSchema) EXCEPT !.value = o.value, !.init = TRUE]
<1>1. At(s, b) /\ At(s, to)
  BY RequestTypes, FindThere, HopThere
<1>2. CASE to # Nowhere /\ TakesValue(s, to, o)
  <2> DEFINE e == [s[to] EXCEPT !.value = o.value, !.init = TRUE]
  <2>1. to \in Bindings /\ Present(s, to) /\ EntryOK(s[to])
    BY <1>1, <1>2, EntryAt DEF At
  <2>2. /\ EntryOK(e) /\ e.init /\ e.value = o.value
        /\ e.type = s[to].type /\ e.schema = s[to].schema
    <3>1. o.value \in Values \cup {Null}
      BY RequestTypes
    <3> HIDE DEF to
    <3> QED
      BY <2>1, <3>1, AssignedOK
  <2>3. Keeps(s[to], e)
    BY <1>2 DEF TakesValue, Locked, Keeps
  <2>4. HoldsFit(e)
    BY <1>2, <2>2 DEF TakesValue, HoldsFit
  <2>5. out \in Put(s, to, e)
    <3>1. b # Nowhere
      BY <1>2 DEF Hop, IsAlias
    <3> QED
      BY <1>2, <3>1 DEF Assign
  <2> QED
    BY <2>1, <2>2, <2>3, <2>4, <2>5, PutChanges
<1>3. CASE b = Nowhere /\ o.flag /\ o.type # Unknown /\ Accepts(o.type, o.value)
  <2>1. to = Nowhere
    BY <1>3 DEF Hop, IsAlias
  <2>2. /\ EntryOK(fresh) /\ fresh.value = o.value
        /\ fresh.type = o.type /\ fresh.schema = NoSchema
    <3> DEFINE new == NewEntry(o.type, NoSchema)
    <3>0. o.type \in Types \cup {Unknown}
      BY RequestTypes
    <3>1. EntryOK(new) /\ new.type = o.type /\ new.schema = NoSchema
      BY <3>0, NewEntryOK
    <3>2. o.value \in Values \cup {Null}
      BY RequestTypes
    <3> HIDE DEF new
    <3>3. LET f == [new EXCEPT !.value = o.value, !.init = TRUE]
          IN  EntryOK(f) /\ f.value = o.value /\ f.type = new.type /\ f.schema = new.schema
      BY <3>1, <3>2, AssignedOK
    <3> QED
      BY <3>1, <3>3 DEF new
  <2>3. HoldsFit(fresh)
    BY <1>3, <2>2 DEF HoldsFit
  <2>4. out \in Put(s, Local(o), fresh)
    BY <1>3, <2>1 DEF Assign
  <2>5. ~Present(s, Local(o))
    <3>1. Nowhere \notin Bindings /\ Local(o) \in Bindings /\ o.env \in Envs /\ o.name \in Names
      BY EnvAssumption, RequestTypes
    <3>2. Present(s, Local(o)) => b = Local(o)
      BY <3>1, FindOwn DEF Local
    <3> QED
      BY <1>3, <3>1, <3>2
  <2> QED
    BY <2>2, <2>3, <2>4, <2>5, RequestTypes, PutChanges
<1>4. CASE /\ ~(to # Nowhere /\ TakesValue(s, to, o))
           /\ ~(b = Nowhere /\ o.flag /\ o.type # Unknown /\ Accepts(o.type, o.value))
  BY <1>4, RefuseChanges DEF Assign
<1> QED
  BY <1>2, <1>3, <1>4

\* A deletion empties an entry that is not locked.
LEMMA DeleteChanges ==
  ASSUME NEW s, Good(s), NEW o \in Ops, NEW out \in Delete(o, s)
  PROVE  Changes(s, out.store)
<1> DEFINE b == Find(s, o.env, o.name)
           e == [s[b] EXCEPT !.value = Null, !.init = FALSE, !.alias = Nowhere,
                             !.schema = NoSchema]
<1>1. CASE b = Nowhere \/ Locked(s, b)
  BY <1>1, RefuseChanges DEF Delete
<1>2. CASE b # Nowhere /\ ~Locked(s, b)
  <2>1. b \in Bindings /\ Present(s, b) /\ EntryOK(s[b])
    BY <1>2, RequestTypes, FindThere, EntryAt DEF At
  <2>2. EntryOK(e) /\ HoldsFit(e) /\ Keeps(s[b], e)
    BY <1>2, <2>1, DeletedOK DEF Locked, Keeps, HoldsFit
  <2>3. out \in Put(s, b, e)
    BY <1>2 DEF Delete
  <2> QED
    BY <2>1, <2>2, <2>3, PutChanges
<1> QED
  BY <1>1, <1>2

\* An alias replaces an entry that is not locked, or makes one.
LEMMA AliasChanges ==
  ASSUME NEW s, Good(s), NEW o \in Ops, o.kind = "alias", NEW out \in Alias(o, s)
  PROVE  Changes(s, out.store)
<1> DEFINE end == Final(s, Find(s, o.target[1], o.target[2]))
           new == s[Local(o)] = Absent
           allowed == /\ end # Nowhere
                      /\ ~Cyclic(s, Find(s, o.target[1], o.target[2]), o.name)
                      /\ ~Locked(s, end)
                      /\ o.type # Unknown => Compatible(o.type, s[end].type)
                      /\ IF new THEN o.flag ELSE ~Locked(s, Local(o))
<1> HIDE DEF end
<1>a. ASSUME allowed, NEW t \in Types \cup {Unknown}, NEW c \in Bindings,
             out \in Put(s, Local(o), AliasEntry(t, c))
      PROVE  Changes(s, out.store)
  <2>1. EntryOK(AliasEntry(t, c)) /\ HoldsFit(AliasEntry(t, c))
    BY AliasOK DEF HoldsFit
  <2>2. Present(s, Local(o)) => Keeps(s[Local(o)], AliasEntry(t, c))
    BY <1>a DEF Locked, Keeps, Present
  <2> QED
    BY <1>a, <2>1, <2>2, RequestTypes, PutChanges
<1>1. CASE ~allowed
  <2>1. out \in Refuse(s)
    BY <1>1 DEF Alias, EndOf, end
  <2> QED
    BY <2>1, RefuseChanges
<1>2. CASE allowed /\ Stale(o, s)
  <2>1. PICK t \in Types, n \in Names : out \in Put(s, Local(o), AliasEntry(t, <<o.env, n>>))
    BY <1>2 DEF Alias, EndOf, end
  <2>2. <<o.env, n>> \in Bindings
    BY RequestTypes DEF Bindings
  <2> QED
    BY <1>2, <1>a, <2>1, <2>2
<1>3. CASE allowed /\ ~Stale(o, s)
  <2>1. out \in Put(s, Local(o), AliasEntry(s[end].type, end))
    BY <1>3 DEF Alias, EndOf, end
  <2>2. end \in Bindings /\ Present(s, end)
    <3>1. o.target[1] \in Envs /\ o.target[2] \in Names
      BY RequestTypes, OpAssumption DEF Bindings
    <3> QED
      BY <1>3, <3>1, FindThere, FinalThere DEF end, At
  <2>3. s[end].type \in Types \cup {Unknown}
    BY <2>2, EntryAt
  <2> QED
    BY <1>3, <1>a, <2>1, <2>2, <2>3
<1> QED
  BY <1>1, <1>2, <1>3

\* A loop counter is given back its type and its value, unless it is locked.
LEMMA RestoreChanges ==
  ASSUME NEW s, NEW o \in Ops, o.kind = "restore", NEW out \in Restore(o, s)
  PROVE  Changes(s, out.store)
<1> DEFINE v == IF o.flag THEN o.value ELSE Null
           e == [NewEntry(o.type, NoSchema) EXCEPT !.value = v, !.init = o.flag]
<1>1. CASE s[Local(o)] # Absent /\ Locked(s, Local(o))
  BY <1>1, RefuseChanges DEF Restore
<1>2. CASE ~(s[Local(o)] # Absent /\ Locked(s, Local(o)))
  <2>1. /\ o.type \in Types \cup {Unknown} /\ o.value \in Values \cup {Null}
        /\ o.flag \in BOOLEAN /\ Local(o) \in Bindings
    BY RequestTypes
  <2>2. /\ EntryOK(e) /\ e.value = v /\ e.init = o.flag
        /\ e.type = o.type /\ e.schema = NoSchema
    BY <2>1, EnvAssumption DEF EntryOK, NewEntry, Entries
  <2>3. RestoresFit => HoldsFit(e)
    BY <2>2 DEF RestoresFit, HoldsFit
  <2>4. Present(s, Local(o)) => Keeps(s[Local(o)], e)
    BY <1>2 DEF Locked, Keeps, Present
  <2>5. out \in Put(s, Local(o), e)
    BY <1>2 DEF Restore
  <2> QED
    BY <2>1, <2>2, <2>3, <2>4, <2>5, PutChanges
<1> QED
  BY <1>1, <1>2

\* A lock changes nothing else, and none is taken off a permanently frozen entry.
LEMMA MarkChanges ==
  ASSUME NEW s, Good(s), NEW o \in Ops, o.kind \in {"freeze", "thaw", "permafreeze"},
         NEW out \in Mark(o, s)
  PROVE  Changes(s, out.store)
<1> DEFINE b == Find(s, o.env, o.name)
<1>1. CASE b = Nowhere \/ (o.kind = "thaw" /\ s[b].perma)
  BY <1>1, RefuseChanges DEF Mark
<1>2. CASE ~(b = Nowhere \/ (o.kind = "thaw" /\ s[b].perma))
  <2> DEFINE fr == o.kind # "thaw"
             pe == o.kind = "permafreeze" \/ s[b].perma
             e == [s[b] EXCEPT !.frozen = fr, !.perma = pe]
  <2>1. b \in Bindings /\ Present(s, b) /\ EntryOK(s[b])
    BY <1>2, RequestTypes, FindThere, EntryAt DEF At
  <2>2. s[b].perma \in BOOLEAN /\ s[b].frozen \in BOOLEAN /\ s[b] \in Entries
        /\ (s[b].perma => s[b].frozen)
    BY <2>1 DEF EntryOK, Entries
  <2>3. /\ EntryOK(e) /\ e.frozen = fr /\ e.perma = pe /\ e.init = s[b].init
        /\ e.value = s[b].value /\ e.type = s[b].type /\ e.schema = s[b].schema
        /\ e.alias = s[b].alias /\ e \in Entries
    <3>1. fr \in BOOLEAN /\ pe \in BOOLEAN /\ (pe => fr)
      BY <1>2, <2>2
    <3> HIDE DEF fr, pe, b
    <3>2. /\ EntryOK(e) /\ e.frozen = fr /\ e.perma = pe /\ e.init = s[b].init
          /\ e.value = s[b].value /\ e.type = s[b].type /\ e.schema = s[b].schema
          /\ e.alias = s[b].alias
      BY <2>1, <3>1 DEF EntryOK, Entries
    <3> QED
      BY <3>2 DEF EntryOK
  <2>4. out \in Put(s, b, e)
    <3> HIDE DEF b
    <3>1. CASE o.kind = "freeze"
      <4>1. e = [s[b] EXCEPT !.frozen = TRUE]
        BY <2>2, <3>1 DEF Entries
      <4> QED
        BY <1>2, <3>1, <4>1 DEF Mark, b
    <3>2. CASE o.kind = "thaw"
      <4>1. e = [s[b] EXCEPT !.frozen = FALSE]
        BY <2>2, <3>2 DEF Entries
      <4> QED
        BY <1>2, <3>2, <4>1 DEF Mark, b
    <3>3. CASE o.kind = "permafreeze"
      <4>1. e = [s[b] EXCEPT !.frozen = TRUE, !.perma = TRUE]
        BY <2>2, <3>3 DEF Entries
      <4> QED
        BY <1>2, <3>3, <4>1 DEF Mark, b
    <3> QED
      BY <3>1, <3>2, <3>3
  <2>5. Keeps(s[b], e)
    <3>1. s[b].perma => e = s[b]
      BY <1>2, <2>2, <2>3, EntryEqual
    <3> QED
      BY <2>3, <3>1 DEF Keeps
  <2>6. HoldsFit(s[b]) => HoldsFit(e)
    BY <2>3 DEF HoldsFit
  <2> QED
    BY <2>1, <2>3, <2>4, <2>5, <2>6, PutChanges
<1> QED
  BY <1>1, <1>2

\* Every request leaves the store or replaces the entry of one binding by another that
\* is well formed, keeps what a lock protects and fits.
LEMMA OutcomeChanges ==
  ASSUME NEW s, Good(s), NEW o \in Ops, NEW out \in Outcomes(o, s)
  PROVE  Changes(s, out.store)
<1>1. o.kind \in Kinds
  BY RequestTypes
<1>2. CASE o.kind = "define"
  BY <1>2, DefineChanges DEF Outcomes
<1>3. CASE o.kind = "assign"
  BY <1>3, AssignChanges DEF Outcomes
<1>4. CASE o.kind = "delete"
  BY <1>4, DeleteChanges DEF Outcomes
<1>5. CASE o.kind = "alias"
  BY <1>5, AliasChanges DEF Outcomes
<1>6. CASE o.kind = "restore"
  BY <1>6, RestoreChanges DEF Outcomes
<1>7. CASE o.kind \in {"freeze", "thaw", "permafreeze"}
  BY <1>7, MarkChanges DEF Outcomes
<1> QED
  BY <1>1, <1>2, <1>3, <1>4, <1>5, <1>6, <1>7 DEF Kinds

-----------------------------------------------------------------------------
(* Invariants. *)

\* The store is well formed before and after every step.
LEMMA GoodIsTypeOK == Good(store) <=> TypeOK
  BY DEF Good, TypeOK, EntryOK, Stores, Present

\* A change keeps the store well formed.
LEMMA GoodStep ==
  ASSUME NEW s, Good(s), NEW t, Changes(s, t)
  PROVE  Good(t)
<1>1. CASE t = s
  BY <1>1
<1>2. ASSUME NEW b \in Bindings, NEW e \in Entries, Replaces(s, b, e, t) PROVE Good(t)
  <2>1. s \in [Bindings -> Entries \cup {Absent}] /\ t = [s EXCEPT ![b] = e] /\ EntryOK(e)
    BY <1>2 DEF Good, Stores, Replaces
  <2>2. t \in Stores
    BY <2>1 DEF Stores
  <2>3. ASSUME NEW c \in Bindings, Present(t, c) PROVE EntryOK(t[c])
    BY <2>1, <2>3 DEF Good, Present
  <2> QED
    BY <2>2, <2>3 DEF Good
<1> QED
  BY <1>1, <1>2 DEF Changes

\* A step is a change.
LEMMA StepChanges ==
  ASSUME TypeOK, [Next]_store
  PROVE  Changes(store, store')
<1>1. ASSUME NEW o \in Ops, Perform(o) PROVE Changes(store, store')
  BY <1>1, GoodIsTypeOK, OutcomeChanges DEF Perform
<1> QED
  BY <1>1 DEF Next, Changes

\* The store has its type: every entry is of its kind, an entry without a value is no
\* alias, and a permanently frozen one is frozen.
THEOREM TypeCorrect == Spec => []TypeOK
<1>1. Init => TypeOK
  BY DEF Init, TypeOK, Stores, Present
<1>2. TypeOK /\ [Next]_store => TypeOK'
  <2> SUFFICES ASSUME TypeOK, [Next]_store PROVE TypeOK'
    OBVIOUS
  <2>1. Good(store')
    BY GoodIsTypeOK, StepChanges, GoodStep
  <2> QED
    BY <2>1 DEF Good, TypeOK, EntryOK, Stores, Present
<1> QED
  BY <1>1, <1>2, PTL DEF Spec

\* A value is of its entry's declared type and schema, whichever name, alias or scope it
\* was assigned through; a loop's counter is restored with a value of its type.
THEOREM ValuesFit == RestoresFit => (Spec => []ValueFitsType)
<1> SUFFICES ASSUME RestoresFit PROVE Spec => []ValueFitsType
  OBVIOUS
<1>1. Init => ValueFitsType
  BY DEF Init, ValueFitsType, Present
<1>2. TypeOK /\ ValueFitsType /\ [Next]_store => ValueFitsType'
  <2> SUFFICES ASSUME TypeOK, ValueFitsType, [Next]_store PROVE ValueFitsType'
    OBVIOUS
  <2>1. \A b \in Bindings : Present(store, b) => HoldsFit(store[b])
    BY EnvAssumption DEF ValueFitsType, HoldsFit, IsAlias
  <2>2. ASSUME NEW b \in Bindings, NEW e \in Entries, Replaces(store, b, e, store'),
               NEW c \in Bindings, Present(store', c)
        PROVE  HoldsFit(store'[c])
    BY <2>1, <2>2 DEF Replaces, TypeOK, Stores, Present
  <2>3. \A c \in Bindings : Present(store', c) => HoldsFit(store'[c])
    BY <2>1, <2>2, StepChanges DEF Changes
  <2> QED
    BY <2>3, EnvAssumption DEF ValueFitsType, HoldsFit, IsAlias
<1> QED
  BY <1>1, <1>2, TypeCorrect, PTL DEF Spec

\* A frozen entry keeps its type, value and alias until it is thawed, and a permanently
\* frozen one keeps everything, whichever request it is (env.c:180-190 and its like).
THEOREM FrozenKept == Spec => FrozenEntryKept
<1> DEFINE Kept(b) ==
      Present(store, b) /\ Locked(store, b) =>
        /\ Present(store', b)
        /\ store'[b] = [store[b] EXCEPT !.frozen = store'[b].frozen,
                                        !.perma = store'[b].perma]
        /\ store[b].perma => store'[b] = store[b]
<1>1. TypeOK /\ [Next]_store => [\A b \in Bindings : Kept(b)]_store
  <2> SUFFICES ASSUME TypeOK, [Next]_store, NEW c \in Bindings,
                      Present(store, c), Locked(store, c)
               PROVE  /\ Present(store', c)
                      /\ store'[c] = [store[c] EXCEPT !.frozen = store'[c].frozen,
                                                      !.perma = store'[c].perma]
                      /\ store[c].perma => store'[c] = store[c]
    OBVIOUS
  <2>1. store[c] \in Entries /\ Absent \notin Entries
    BY EnvAssumption DEF TypeOK, Stores, Present
  <2>2. CASE store'[c] = store[c]
    BY <2>1, <2>2 DEF Entries, Present
  <2>3. ASSUME NEW b \in Bindings, NEW e \in Entries, Replaces(store, b, e, store')
        PROVE  store'[c] = store[c] \/ (c = b /\ store'[c] = e)
    BY <2>3 DEF Replaces, TypeOK, Stores
  <2>4. CASE store'[c] # store[c]
    <3>1. PICK e \in Entries : Replaces(store, c, e, store') /\ store'[c] = e
      BY <2>3, <2>4, StepChanges DEF Changes
    <3> QED
      BY <2>1, <3>1 DEF Replaces, Keeps, Locked, Present
  <2> QED
    BY <2>2, <2>4
<1> QED
  BY <1>1, TypeCorrect, PTL DEF Spec, FrozenEntryKept

-----------------------------------------------------------------------------
(* What is read after a write. *)

\* The binding a lookup comes to is read, and it is there for env_exists.
LEMMA ReadAt ==
  ASSUME NEW t, NEW e \in Envs, NEW n \in Names, NEW to \in Bindings,
         Final(t, Find(t, e, n)) = to
  PROVE  Get(t, e, n) = [init |-> t[to].init, value |-> t[to].value]
<1>1. to # Nowhere
  BY EnvAssumption
<1> QED
  BY <1>1 DEF Get

\* The nearest entry of a name, when it is initialized, makes the name exist.
LEMMA ExistsAt ==
  ASSUME NEW t, NEW e \in Envs, NEW n \in Names, NEW b \in Bindings,
         Find(t, e, n) = b, t[b].init
  PROVE  Exists(t, e, n)
<1>1. b # Nowhere
  BY EnvAssumption
<1>2. PICK i \in Hits(t, e, n) : Find(t, e, n) = <<Lineage[e][i], n>>
  BY <1>1, Found
<1> QED
  BY <1>2 DEF Exists

\* The chain of a new or changed entry that is no alias, reached at once or through one
\* alias of it, ends there.
LEMMA AssignReads ==
  ASSUME NEW s, Good(s), NEW o \in Ops, NEW out \in Assign(o, s), out.ok,
         ~IsAlias(s, Hop(s, Find(s, o.env, o.name)))
  PROVE  /\ Get(out.store, o.env, o.name) = [init |-> TRUE, value |-> o.value]
         /\ Exists(out.store, o.env, o.name)
<1> DEFINE b == Find(s, o.env, o.name)
           to == Hop(s, b)
           fresh == [NewEntry(o.type, NoSchema) EXCEPT !.value = o.value, !.init = TRUE]
           e == [s[to] EXCEPT !.value = o.value, !.init = TRUE]
           t == out.store
<1>t. /\ o.env \in Envs /\ o.name \in Names /\ o.value \in Values \cup {Null}
      /\ o.type \in Types \cup {Unknown} /\ Local(o) \in Bindings
  BY RequestTypes
<1>d. DOMAIN s = Bindings /\ Absent \notin Entries /\ Nowhere \notin Bindings
  BY EnvAssumption DEF Good, Stores
<1>1. At(s, b) /\ At(s, to)
  BY <1>t, FindThere, HopThere
<1>2. CASE to # Nowhere /\ TakesValue(s, to, o)
  <2>1. to \in Bindings /\ Present(s, to) /\ EntryOK(s[to])
    BY <1>1, <1>2, EntryAt DEF At
  <2>2. EntryOK(e) /\ e.init /\ e.value = o.value /\ e.alias = s[to].alias
    <3>1. o.value \in Values \cup {Null}
      BY <1>t
    <3> HIDE DEF to
    <3> QED
      BY <2>1, <3>1, AssignedOK
  <2>b. b \in Bindings /\ Present(s, b)
    BY <1>1, <1>2 DEF At, Hop, IsAlias
  <2>3. t = [s EXCEPT ![to] = e]
    <3>1. b # Nowhere
      BY <1>2 DEF Hop, IsAlias
    <3>2. out \in Put(s, to, e)
      BY <1>2, <3>1 DEF Assign
    <3> QED
      BY <3>2 DEF Put
  <2> HIDE DEF e, t, to
  <2>4. t[to] = e /\ \A c \in Bindings : c # to => t[c] = s[c]
    BY <2>1, <2>3, <1>d
  <2>5. \A c \in Bindings : Present(s, c) <=> Present(t, c)
    BY <2>1, <2>2, <2>4, <1>d DEF Present, EntryOK
  <2>6. Find(t, o.env, o.name) = b
    BY <1>t, <2>5, FindSame
  <2>7. s[to].alias = Nowhere /\ ~IsAlias(t, to)
    BY <1>d, <2>1, <2>2, <2>4 DEF to, IsAlias
  <2>8. Final(t, b) = to /\ t[b].init
    <3>1. CASE IsAlias(s, b)
      <4>1. b # to /\ t[b] = s[b]
        BY <2>7, <2>b, <2>4, <3>1 DEF IsAlias
      <4>2. s[b].alias[1] \in Envs /\ s[b].alias[2] \in Names /\ s[b].init
        BY <2>b, <3>1, EntryAt DEF IsAlias
      <4>3. Hop(t, b) = Find(t, s[b].alias[1], s[b].alias[2])
        BY <3>1, <4>1 DEF Hop, IsAlias
      <4>4. Hop(t, b) = Find(s, s[b].alias[1], s[b].alias[2])
        BY <4>2, <4>3, <2>5, FindSame
      <4>5. Hop(t, b) = to
        BY <3>1, <4>4 DEF Hop, to
      <4> QED
        BY <2>7, <4>1, <4>2, <4>5, FinalNear
    <3>2. CASE ~IsAlias(s, b)
      BY <2>2, <2>4, <2>7, <3>2, FinalNear DEF to, Hop
    <3> QED
      BY <3>1, <3>2
  <2>9. Exists(t, o.env, o.name)
    BY <1>t, <2>b, <2>6, <2>8, ExistsAt
  <2>10. Get(t, o.env, o.name) = [init |-> t[to].init, value |-> t[to].value]
    BY <1>t, <2>1, <2>6, <2>8, ReadAt
  <2>11. t[to].init = TRUE /\ t[to].value = o.value
    BY <2>2, <2>4 DEF EntryOK, Entries
  <2> QED
    BY <2>9, <2>10, <2>11 DEF t
<1>3. CASE b = Nowhere /\ o.flag /\ o.type # Unknown /\ Accepts(o.type, o.value)
  <2>1. to = Nowhere
    BY <1>3 DEF Hop, IsAlias
  <2>2. t = [s EXCEPT ![Local(o)] = fresh]
    BY <1>3, <2>1 DEF Assign, Put
  <2>3. fresh.init = TRUE /\ fresh.value = o.value /\ fresh.alias = Nowhere /\ fresh \in Entries
    BY <1>t DEF NewEntry, Entries
  <2> HIDE DEF fresh, t
  <2>4. t[Local(o)] = fresh
    BY <1>t, <1>d, <2>2
  <2>5. Present(t, Local(o)) /\ ~IsAlias(t, Local(o))
    BY <1>d, <2>3, <2>4 DEF Present, IsAlias
  <2>6. Find(t, o.env, o.name) = Local(o) /\ Final(t, Local(o)) = Local(o)
    BY <1>t, <2>5, FindOwn, FinalNear DEF Local
  <2>7. Exists(t, o.env, o.name)
    BY <1>t, <2>3, <2>4, <2>6, ExistsAt
  <2>8. Get(t, o.env, o.name) = [init |-> t[Local(o)].init, value |-> t[Local(o)].value]
    BY <1>t, <2>6, ReadAt
  <2> QED
    BY <2>3, <2>4, <2>7, <2>8 DEF t
<1>4. CASE /\ ~(to # Nowhere /\ TakesValue(s, to, o))
           /\ ~(b = Nowhere /\ o.flag /\ o.type # Unknown /\ Accepts(o.type, o.value))
  BY <1>4 DEF Assign, Refuse
<1> QED
  BY <1>2, <1>3, <1>4

\* The value an assignment reports done is what the name reads next, and the name exists,
\* when it is at most one alias away from its target (env_assign_direct, env_get_raw).
THEOREM AssignReadBack == Spec => []AssignThenReadNear
<1>1. TypeOK => AssignThenReadNear
  <2> SUFFICES ASSUME TypeOK, NEW o \in Ops, o.kind = "assign",
                      NEW out \in Outcomes(o, store), out.ok,
                      ~IsAlias(store, Hop(store, Find(store, o.env, o.name)))
               PROVE  /\ Get(out.store, o.env, o.name) = [init |-> TRUE, value |-> o.value]
                      /\ Exists(out.store, o.env, o.name)
    BY DEF AssignThenReadNear, Requests
  <2>1. Good(store) /\ out \in Assign(o, store)
    BY GoodIsTypeOK DEF Outcomes
  <2> QED
    BY <2>1, AssignReads
<1> QED
  BY <1>1, TypeCorrect, PTL

\* The chain of the target does not end at the new alias: an alias before it would name it.
LEMMA AliasNotEnd ==
  ASSUME NEW s, Good(s), NEW b, At(s, b), NEW l \in Bindings, b # l,
         ~Cyclic(s, b, l[2])
  PROVE  Along(s, b)[MaxDepth] # l
<1> DEFINE Come == {n \in 0..MaxDepth : Along(s, b)[n] = l}
<1>1. MaxDepth \in Nat
  BY EnvAssumption
<1>2. SUFFICES ASSUME Come # {} PROVE FALSE
  BY <1>1
<1>3. PICK n \in Come : \A m \in Come : n <= m
  <2>1. Come \in SUBSET Nat
    BY <1>1
  <2> QED
    BY <1>2, <2>1, LeastExists
<1>4. n # 0
  BY <1>3, AlongStep
<1>5. n - 1 \in 0..MaxDepth /\ n \in 1..MaxDepth /\ ~(n <= n - 1)
  BY <1>1, <1>3, <1>4
<1> DEFINE c == Along(s, b)[n - 1]
<1>6. c # l /\ Hop(s, c) = l /\ At(s, c)
  BY <1>3, <1>5, AlongStep, AlongThere
<1>7. IsAlias(s, c)
  BY <1>6 DEF Hop
<1>8. c \in Bindings /\ s[c].alias[1] \in Envs /\ s[c].alias[2] \in Names
  BY <1>6, <1>7, EntryAt DEF IsAlias, At
<1>9. l = Find(s, s[c].alias[1], s[c].alias[2]) /\ l # Nowhere
  BY <1>6, <1>7, EnvAssumption DEF Hop
<1>10. l[2] = s[c].alias[2]
  <2>1. \A x \in Envs, y \in Names : Find(s, x, y) # Nowhere => Find(s, x, y)[2] = y
    BY Found
  <2> QED
    BY <1>8, <1>9, <2>1
<1> QED
  BY <1>5, <1>7, <1>10 DEF Cyclic

\* An alias of the end of a chain reads that end, if the end was not moved meanwhile.
LEMMA AliasReads ==
  ASSUME NEW s, Good(s), NEW o \in Ops, o.kind = "alias", NEW out \in Alias(o, s), out.ok,
         ~Stale(o, s), Find(s, o.target[1], o.target[2]) # Local(o)
  PROVE  Get(out.store, o.env, o.name) = Get(s, o.target[1], o.target[2])
<1> DEFINE b == Find(s, o.target[1], o.target[2])
           end == Final(s, b)
           e == AliasEntry(s[end].type, end)
           t == out.store
<1>t. o.env \in Envs /\ o.name \in Names /\ Local(o) \in Bindings
  BY RequestTypes
<1>u. o.target[1] \in Envs /\ o.target[2] \in Names
  BY RequestTypes, OpAssumption DEF Bindings
<1>d. DOMAIN s = Bindings /\ Absent \notin Entries /\ Nowhere \notin Bindings
  BY EnvAssumption DEF Good, Stores
<1>1. At(s, b) /\ At(s, end) /\ ~IsAlias(s, end)
  BY <1>u, FindThere, FinalThere
<1>2. end # Nowhere /\ ~Cyclic(s, b, o.name) /\ out \in Put(s, Local(o), e)
  BY DEF Alias, EndOf, Refuse
<1>3. end \in Bindings /\ Present(s, end) /\ s[end].type \in Types \cup {Unknown}
  BY <1>1, <1>2, EntryAt DEF At
<1>4. EntryOK(e) /\ e.alias = end
  BY <1>3, AliasOK
<1>5. end = Along(s, b)[MaxDepth]
  BY <1>2 DEF Final
<1>6. end # Local(o)
  <2>1. Local(o)[2] = o.name
    BY DEF Local
  <2> QED
    BY <1>t, <1>1, <1>2, <1>5, <2>1, AliasNotEnd
<1>7. t = [s EXCEPT ![Local(o)] = e]
  BY <1>2 DEF Put
<1> HIDE DEF b, end, e, t
<1>8. t[Local(o)] = e /\ t[end] = s[end]
  BY <1>d, <1>t, <1>3, <1>6, <1>7
<1>9. Present(t, Local(o)) /\ Present(t, end)
  BY <1>d, <1>3, <1>4, <1>8 DEF Present, EntryOK
<1>10. Find(t, o.env, o.name) = Local(o)
  BY <1>t, <1>9, FindOwn DEF Local
<1>11. end[1] \in Envs /\ end[2] \in Names /\ end = <<end[1], end[2]>>
  BY <1>3 DEF Bindings
<1>12. Find(t, end[1], end[2]) = end
  BY <1>9, <1>11, FindOwn
<1>13. Hop(t, Local(o)) = end
  BY <1>d, <1>t, <1>2, <1>4, <1>8, <1>12 DEF Hop, IsAlias
<1>14. ~IsAlias(t, end)
  BY <1>1, <1>8 DEF IsAlias
<1>15. Final(t, Find(t, o.env, o.name)) = end
  BY <1>10, <1>13, <1>14, FinalNear
<1>16. Get(t, o.env, o.name) = [init |-> t[end].init, value |-> t[end].value]
  BY <1>t, <1>3, <1>15, ReadAt
<1>17. Get(s, o.target[1], o.target[2]) = [init |-> s[end].init, value |-> s[end].value]
  BY <1>u, <1>3, ReadAt DEF b, end
<1> QED
  BY <1>8, <1>16, <1>17 DEF t

\* A new alias reads what its target reads, in an environment that is full as in one that
\* is not, unless the target is among the entries its definition moves: env_set_alias and
\* env_set_alias_cross use the entry they found before the move (env.c:608-637).
THEOREM AliasReadBack == Spec => []AliasReadsTarget
<1>1. TypeOK => AliasReadsTarget
  <2> SUFFICES ASSUME TypeOK, NEW o \in Ops, o.kind = "alias",
                      NEW out \in Outcomes(o, store), out.ok,
                      Find(store, o.target[1], o.target[2]) # Local(o), ~Stale(o, store)
               PROVE  Get(out.store, o.env, o.name) = Get(store, o.target[1], o.target[2])
    BY DEF AliasReadsTarget, Requests
  <2>1. Good(store) /\ out \in Alias(o, store)
    BY GoodIsTypeOK DEF Outcomes
  <2> QED
    BY <2>1, AliasReads
<1> QED
  BY <1>1, TypeCorrect, PTL

=============================================================================
