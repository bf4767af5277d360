---- MODULE Serialize ----
(***************************************************************************)
(* serialize and unserialize (src/src/builtins.c) on the values that share  *)
(* and form cycles: functions, the environments they close over, threads.  *)
(* The writer names each environment, function and thread with an id; the  *)
(* first time it meets an environment it writes its definition, later only *)
(* a reference.  Reader and writer visit an environment in different       *)
(* orders, and which heaps survive that is the question of this module.    *)
(* An id stands for the object it was given to.                            *)
(***************************************************************************)
EXTENDS SerAst, FiniteSets

CONSTANTS
  Envs,      \* environments; the first is the global one
  Global,
  Names,
  Funcs,
  Thrs,
  Programs,  \* bodies of functions
  Plain,     \* one of them
  MaxSteps   \* bound on the steps the program takes before it serializes

None == "none"              \* no environment, no name
Unused == [t |-> "unused"]  \* an object that does not exist

VARIABLES
  envs,   \* each environment in use: its parent and its entries in order
  funcs,  \* each function in use: default of its parameter, body, closure
  thrs,   \* each thread in use: its flags, block and environment
  root,   \* the value serialized
  text,   \* the text, with the writer's context
  back,   \* what unserialize made of it
  steps   \* steps the program has taken

vars == <<envs, funcs, thrs, root, text, back, steps>>

Live == {e \in Envs : envs[e] # Unused}

IntV == [t |-> "int"]
FuncV(f) == [t |-> "func", f |-> f]
ThreadV(th) == [t |-> "thread", th |-> th]
MapV(v) == [t |-> "map", items |-> <<v>>]

\* An entry holds a value, or has none yet, or is a pointer (alias) to the name
\* target in the environment home.
Entry(n, type, kind, val) ==
  [name |-> n, type |-> type, kind |-> kind, val |-> val, target |-> None, home |-> None,
   frozen |-> "no"]

Holding(n, v) == Entry(n, v.t, "value", v)

IndexOf(e, n) == {i \in DOMAIN envs[e].entries : envs[e].entries[i].name = n}

EntryOf(e, n) == envs[e].entries[CHOOSE i \in IndexOf(e, n) : TRUE]

Content(en) ==
  [type |-> en.type, kind |-> en.kind, val |-> en.val, target |-> en.target,
   home |-> en.home, frozen |-> en.frozen]

\* The environments as the reader builds them: entries by name.
Heap ==
  [e \in Live |->
    [parent |-> envs[e].parent,
     entries |-> [n \in {en.name : en \in ToSet(envs[e].entries)} |-> Content(EntryOf(e, n))]]]

-----------------------------------------------------------------------------
(* Names, in a heap h. *)

\* The nearest environment that has the name.
RECURSIVE FindOwner(_, _, _)
FindOwner(h, e, n) ==
  IF e = None THEN None
  ELSE IF n \in DOMAIN h[e].entries THEN e ELSE FindOwner(h, h[e].parent, n)

IsPointer(h, e, n) == h[e].entries[n].kind = "alias"

\* Where a pointer that the environment e holds looks its target up.
LookupEnv(h, e, n) == IF h[e].entries[n].home # None THEN h[e].entries[n].home ELSE e

\* More pointers than this in a row are a cycle (the code gives up after 256).
MaxHops == Cardinality(Envs) * Cardinality(Names)

Lost == <<None, None>>

\* Where a name leads, along the pointers.
RECURSIVE Follow(_, _, _, _)
Follow(h, e, n, hops) ==
  LET own == FindOwner(h, e, n)
  IN IF own = None \/ hops > MaxHops THEN Lost
     ELSE IF ~IsPointer(h, own, n) THEN <<own, n>>
     ELSE Follow(h, LookupEnv(h, own, n), h[own].entries[n].target, hops + 1)

Leads(h, e, n) == Follow(h, e, n, 0)

\* A pointer that the name leads along has the name new as its target.
RECURSIVE Circles(_, _, _, _, _)
Circles(h, e, n, new, hops) ==
  LET own == FindOwner(h, e, n)
  IN /\ hops <= MaxHops /\ own # None /\ IsPointer(h, own, n)
     /\ \/ h[own].entries[n].target = new
        \/ Circles(h, LookupEnv(h, own, n), h[own].entries[n].target, new, hops + 1)

-----------------------------------------------------------------------------
(* The writer. *)

\* What has been given an id, and the functions being written.
SerCtx == [envs |-> <<>>, funcs |-> {}, thrs |-> {}, writing |-> {}]

WithEnv(c, e) == [c EXCEPT !.envs = Append(@, e)]
WithFunc(c, f) == [c EXCEPT !.funcs = @ \cup {f}]
WithThread(c, th) == [c EXCEPT !.thrs = @ \cup {th}]

Out(c, form) == [c |-> c, form |-> form]

Ref(t, id) == [t |-> t, id |-> id, ref |-> TRUE]
NullForm == [t |-> "null"]

RECURSIVE ContainsThread(_, _)
ContainsThread(v, th) ==
  \/ v.t = "thread" /\ v.th = th
  \/ v.t = "map" /\ \E i \in DOMAIN v.items : ContainsThread(v.items[i], th)

\* The environment written with a pointer: the writer looks for its target by
\* name from where the pointer is, whatever home the pointer has.
PointerEnv(e, en) ==
  LET owner == FindOwner(Heap, e, en.target) IN IF owner = None THEN e ELSE owner

\* Entries without a value and, in the environment of a thread, entries that
\* lead back to the thread are left out.
Skipped(en, omit) ==
  \/ en.kind = "unset"
  \/ omit # None /\ en.kind = "value" /\ ContainsThread(en.val, omit)

Declared(entries) == SelectSeq(entries, LAMBDA en : en.type # "unknown")
NamesWith(entries, mark) ==
  {entries[i].name : i \in {i \in DOMAIN entries : entries[i].frozen \in mark}}

RECURSIVE SerValue(_, _), SerEnv(_, _, _), SerEntries(_, _, _, _), SerItems(_, _, _)

SerItems(c, items, i) ==
  IF i > Len(items) THEN Out(c, <<>>)
  ELSE LET one == SerValue(c, items[i])
           rest == SerItems(one.c, items, i + 1)
       IN Out(rest.c, <<one.form>> \o rest.form)

SerEntries(c, e, i, omit) ==
  IF i > Len(envs[e].entries) THEN Out(c, <<>>)
  ELSE LET en == envs[e].entries[i]
           ptr == SerEnv(c, PointerEnv(e, en), omit)
           one == IF en.kind = "alias"
                  THEN Out(ptr.c, [t |-> "PTR", name |-> en.target, env |-> ptr.form,
                                   type |-> en.type])
                  ELSE SerValue(c, en.val)
           rest == SerEntries(one.c, e, i + 1, omit)
       IN IF Skipped(en, omit) THEN SerEntries(c, e, i + 1, omit)
          ELSE Out(rest.c, <<[name |-> en.name, form |-> one.form]>> \o rest.form)

SerEnv(c, e, omit) ==
  IF e = None THEN Out(c, NullForm)
  ELSE IF e \in ToSet(c.envs) THEN Out(c, Ref("ENV", e))
  ELSE LET entries == envs[e].entries
           values == SerEntries(WithEnv(c, e), e, 1, omit)
           parent == SerEnv(values.c, envs[e].parent, omit)
       IN Out(parent.c,
              [t |-> "ENV", id |-> e, ref |-> FALSE, values |-> values.form,
               declared |-> [i \in DOMAIN Declared(entries) |->
                              <<Declared(entries)[i].name, Declared(entries)[i].type>>],
               frozen |-> NamesWith(entries, {"frozen", "perma"}),
               permafrozen |-> NamesWith(entries, {"perma"}),
               parent |-> parent.form])


\* A function is written in full whenever it is met outside itself.
SerFunc(c, f) ==
  IF f \in c.writing THEN Out(c, Ref("func", f))
  ELSE LET met == WithFunc(c, f)
           closure == SerEnv([met EXCEPT !.writing = @ \cup {f}], funcs[f].closure, None)
       IN Out([closure.c EXCEPT !.writing = @ \ {f}],
              [t |-> "func", id |-> f, ref |-> FALSE,
               default |-> SerNode(funcs[f].default), body |-> SerNode(funcs[f].body),
               closure |-> closure.form])

\* A thread is written in full each time.
SerThread(c, th) ==
  LET env == SerEnv(WithThread(c, th), thrs[th].env, th)
  IN Out(env.c,
         [t |-> "thread", id |-> th, finished |-> thrs[th].finished,
          paused |-> thrs[th].paused, stop |-> thrs[th].stop,
          env |-> env.form, block |-> SerNode(thrs[th].body)])

SerValue(c, v) ==
  CASE v.t = "func" -> SerFunc(c, v.f)
    [] v.t = "thread" -> SerThread(c, v.th)
    [] v.t = "map" -> LET items == SerItems(c, v.items, 1)
                      IN Out(items.c, [t |-> "map", items |-> items.form])
    [] OTHER -> Out(c, v)

-----------------------------------------------------------------------------
(* The reader.  Its context is the heap it builds, by id. *)

Throws == [t |-> "throws"]

UnserCtx == [envs |-> <<>>, funcs |-> <<>>, thrs |-> <<>>]

Registered(c, what, id, x) == [c EXCEPT ![what] = (id :> x) @@ @]

EmptyEnv == [parent |-> None, entries |-> <<>>]

\* Entries as a function of the name.
Unset(type) == Content(Entry(None, type, "unset", IntV))

ReadDeclared(declared) ==
  [n \in {declared[i][1] : i \in DOMAIN declared} |->
    Unset(declared[CHOOSE i \in DOMAIN declared : declared[i][1] = n][2])]

TypeIn(entries, n) == IF n \in DOMAIN entries THEN entries[n].type ELSE "unknown"

ReadFrozen(o, entries) ==
  LET all == [n \in (DOMAIN entries) \cup o.frozen \cup o.permafrozen |->
               IF n \in DOMAIN entries THEN entries[n] ELSE Unset("unknown")]
  IN [n \in DOMAIN all |->
       [all[n] EXCEPT !.frozen = CASE n \in o.permafrozen -> "perma"
                                   [] n \in o.frozen -> "frozen"
                                   [] OTHER -> "no"]]

\* Default values come as nodes of the tree.
DeserDefault(t) == DeserNode(t)

RECURSIVE DeserValue(_, _), DeserEnv(_, _), DeserValues(_, _, _, _), DeserItems(_, _, _)

DeserItems(c, items, i) ==
  IF i > Len(items) THEN Out(c, <<>>)
  ELSE LET one == DeserValue(c, items[i])
           rest == DeserItems(one.c, items, i + 1)
       IN Out(rest.c, <<one.form>> \o rest.form)

\* The environment written within a pointer is not looked at: the pointer comes
\* back without the environment of its target.
DeserValues(c, values, entries, i) ==
  IF i > Len(values) THEN Out(c, entries)
  ELSE LET n == values[i].name
           v == values[i].form
           read == DeserValue(c, v)
       IN IF v.t = "PTR"
          THEN DeserValues(c, values,
                 (n :> [Unset(v.type) EXCEPT !.kind = "alias", !.target = v.name]) @@ entries,
                 i + 1)
          ELSE DeserValues(read.c, values,
                 (n :> [Unset(TypeIn(entries, n)) EXCEPT !.kind = "value", !.val = read.form])
                   @@ entries, i + 1)

\* The parent is read before the values, which were written before it.
DeserEnv(c, o) ==
  IF o = NullForm THEN Out(c, None)
  ELSE IF o.id \in DOMAIN c.envs THEN Out(c, o.id)
  ELSE IF o.ref THEN Out(Registered(c, "envs", o.id, EmptyEnv), o.id)
  ELSE LET parent == DeserEnv(Registered(c, "envs", o.id, EmptyEnv), o.parent)
           values == DeserValues(parent.c, o.values, ReadDeclared(o.declared), 1)
       IN Out(Registered(values.c, "envs", o.id,
                         [parent |-> parent.form, entries |-> ReadFrozen(o, values.form)]),
              o.id)


\* Registered before its closure is read; a reference to a function that was
\* never defined becomes a function that throws.
DeserFunc(c, o) ==
  IF o.id \in DOMAIN c.funcs THEN Out(c, FuncV(o.id))
  ELSE IF o.ref THEN Out(Registered(c, "funcs", o.id, Throws), FuncV(o.id))
  ELSE LET closure == DeserEnv(Registered(c, "funcs", o.id, Unused), o.closure)
       IN Out(Registered(closure.c, "funcs", o.id,
                         [default |-> DeserDefault(o.default), body |-> DeserNode(o.body),
                          closure |-> closure.form]),
              FuncV(o.id))

\* A thread comes back with the flags it had, but not started.
DeserThread(c, o) ==
  IF o.id \in DOMAIN c.thrs THEN Out(c, ThreadV(o.id))
  ELSE LET env == DeserEnv(Registered(c, "thrs", o.id, Unused), o.env)
       IN Out(Registered(env.c, "thrs", o.id,
                         [finished |-> o.finished, paused |-> o.paused, stop |-> o.stop,
                          started |-> FALSE, body |-> DeserNode(o.block), env |-> env.form]),
              ThreadV(o.id))

DeserValue(c, o) ==
  CASE o.t = "func" -> DeserFunc(c, o)
    [] o.t = "thread" -> DeserThread(c, o)
    [] o.t = "map" -> LET items == DeserItems(c, o.items, 1)
                      IN Out(items.c, [t |-> "map", items |-> items.form])
    [] OTHER -> Out(c, o)

-----------------------------------------------------------------------------
(* The program: it defines functions, calls them, starts threads, assigns,  *)
(* then serializes a value and reads the text back.                         *)

\* Where a statement run in e assigns n: where the name is visible; a new name
\* goes to the environment around a call's own.
Home(e, n) ==
  LET owner == FindOwner(Heap, e, n)
  IN CASE owner # None -> owner
       [] owner = None /\ envs[e].parent # None -> envs[e].parent
       [] OTHER -> e

Owned(e, n) == LET owner == FindOwner(Heap, e, n) IN IF owner = None THEN e ELSE owner

NewFunc(body, e) ==
  [default |-> Plain, body |-> body, closure |-> e]

Bound(e, en) ==
  LET at == IndexOf(e, en.name)
  IN [envs EXCEPT ![e].entries =
       IF at = {} THEN Append(@, en) ELSE [@ EXCEPT ![CHOOSE i \in at : TRUE] = en]]

\* A name that takes a value of the type; what an assignment through a pointer
\* does is left to Env.
Takes(e, n, type) == \A i \in IndexOf(e, n) : /\ envs[e].entries[i].kind # "alias"
                                             /\ envs[e].entries[i].frozen = "no"
                                             /\ envs[e].entries[i].type = type

Values ==
  {IntV} \cup {FuncV(f) : f \in {f \in Funcs : funcs[f] # Unused}}
         \cup {ThreadV(th) : th \in {th \in Thrs : thrs[th] # Unused}}

\* A function of the global environment.
Init ==
  \E body \in Programs :
    /\ LET f == CHOOSE g \in Funcs : TRUE
           n == CHOOSE m \in Names : TRUE
       IN /\ funcs = [g \in Funcs |-> IF g = f THEN NewFunc(body, Global) ELSE Unused]
          /\ envs = [e \in Envs |->
                      IF e = Global
                      THEN [parent |-> None,
                            entries |-> <<Holding(n, FuncV(f))>>]
                      ELSE Unused]
    /\ thrs = [th \in Thrs |-> Unused]
    /\ root = Unused /\ text = Unused /\ back = Unused
    \* Other bodies are only written and read back.
    /\ steps = IF body = Plain THEN 0 ELSE MaxSteps

Step == text = Unused /\ steps < MaxSteps /\ steps' = steps + 1

Define(e, n, f) ==
  /\ Step /\ e \in Live /\ funcs[f] = Unused /\ Takes(Home(e, n), n, "func")
  /\ funcs' = [funcs EXCEPT ![f] = NewFunc(Plain, e)]
  /\ envs' = Bound(Home(e, n), Holding(n, FuncV(f)))
  /\ UNCHANGED <<thrs, root, text, back>>

\* The entry that makes n a pointer to what a name visible in e leads to, unless
\* that is nothing, the pointer would close a circle or the end is frozen.
PointerTo(e, n, target) ==
  LET end == Leads(Heap, e, target)
      en == EntryOf(end[1], end[2])
  IN IF end = Lost \/ Circles(Heap, e, target, n, 0) THEN {}
     ELSE IF en.frozen # "no" THEN {}
     ELSE {[Entry(n, en.type, "alias", IntV) EXCEPT !.target = end[2], !.home = end[1]]}

\* The first entry of a call: its argument, or SELF for the function of a map.
\* A pointer leads where the name leads in the caller, and must read a value.
Arguments(n) ==
  {Holding(n, v) : v \in Values}
    \cup {en \in UNION {PointerTo(caller, n, m) : caller \in Live, m \in Names} :
            EntryOf(en.home, en.target).kind = "value"}

\* A call's environment has the function's closure as its parent.
Call(f, e, n) ==
  /\ Step /\ envs[e] = Unused /\ funcs[f] # Unused
  /\ \E en \in Arguments(n) :
       envs' = [envs EXCEPT ![e] = [parent |-> funcs[f].closure, entries |-> <<en>>]]
  /\ UNCHANGED <<funcs, thrs, root, text, back>>

Assign(e, n, v) ==
  /\ Step /\ e \in Live /\ Takes(Home(e, n), n, v.t)
  /\ envs' = Bound(Home(e, n), Holding(n, v))
  /\ UNCHANGED <<funcs, thrs, root, text, back>>

Declare(e, n) ==
  /\ Step /\ e \in Live /\ FindOwner(Heap, e, n) = None
  /\ envs' = Bound(Home(e, n), Entry(n, "int", "unset", IntV))
  /\ UNCHANGED <<funcs, thrs, root, text, back>>

\* A pointer may take the place of an entry of e itself.
Point(e, n, target) ==
  /\ Step /\ e \in Live /\ \A i \in IndexOf(e, n) : envs[e].entries[i].frozen = "no"
  /\ \E en \in PointerTo(e, n, target) : envs' = Bound(e, en)
  /\ UNCHANGED <<funcs, thrs, root, text, back>>

Freeze(e, n, mark) ==
  /\ Step /\ e \in Live
  /\ LET owner == FindOwner(Heap, e, n)
     IN /\ owner # None
        /\ \E i \in IndexOf(owner, n) :
             /\ envs[owner].entries[i].frozen = "no"
             /\ envs' = [envs EXCEPT ![owner].entries[i].frozen = mark]
  /\ UNCHANGED <<funcs, thrs, root, text, back>>

\* THR assigns its name like any assignment, but defines a new one in e.
Thr(e, n, th) ==
  /\ Step /\ e \in Live /\ thrs[th] = Unused /\ Takes(Owned(e, n), n, "thread")
  /\ thrs' = [thrs EXCEPT ![th] = [finished |-> FALSE, paused |-> FALSE, stop |-> FALSE,
                                   started |-> TRUE, body |-> Plain, env |-> e]]
  /\ envs' = Bound(Owned(e, n), Holding(n, ThreadV(th)))
  /\ UNCHANGED <<funcs, root, text, back>>

Finish(th) ==
  /\ Step /\ thrs[th] # Unused /\ ~thrs[th].finished
  /\ thrs' = [thrs EXCEPT ![th].finished = TRUE]
  /\ UNCHANGED <<envs, funcs, root, text, back>>

BuiltinSer(v) ==
  /\ text = Unused
  /\ root' = v
  /\ text' = SerValue(SerCtx, v)
  /\ UNCHANGED <<envs, funcs, thrs, back, steps>>

BuiltinUnser ==
  /\ text # Unused /\ back = Unused
  /\ back' = DeserValue(UnserCtx, text.form)
  /\ UNCHANGED <<envs, funcs, thrs, root, text, steps>>

Next ==
  \/ \E e \in Envs, n \in Names :
       \/ \E f \in Funcs : Define(e, n, f) \/ Call(f, e, n)
       \/ \E v \in Values \cup {MapV(w) : w \in Values} : Assign(e, n, v)
       \/ Declare(e, n)
       \/ \E m \in Names : Point(e, n, m)
       \/ \E mark \in {"frozen", "perma"} : Freeze(e, n, mark)
       \/ \E th \in Thrs : Thr(e, n, th)
  \/ \E th \in Thrs : Finish(th)
  \/ \E v \in Values \ {IntV} : BuiltinSer(v)
  \/ BuiltinUnser

Spec == Init /\ [][Next]_vars

-----------------------------------------------------------------------------
(* What comes back. *)

WrittenEnvs == ToSet(text.c.envs)

\* An entry of an environment that was written, as it comes back: all of it but
\* the environment of a pointer's target.
ReadsBack(e, i) ==
  LET en == envs[e].entries[i]
      entries == back.c.envs[e].entries
  IN \/ en.name \in DOMAIN entries /\ entries[en.name] = [Content(en) EXCEPT !.home = None]
     \* a thread does not carry the names it is known by
     \/ \E th \in Thrs : /\ en.kind = "value" /\ ContainsThread(en.val, th)
                         /\ entries[en.name] = [Unset(en.type) EXCEPT !.frozen = en.frozen]

SameEnv(e) ==
  /\ back.c.envs[e].parent = envs[e].parent
  /\ DOMAIN back.c.envs[e].entries \subseteq {envs[e].entries[i].name : i \in DOMAIN envs[e].entries}
  /\ \A i \in DOMAIN envs[e].entries : ReadsBack(e, i)

SameFunc(f) ==
  back.c.funcs[f] = [default |-> DeserNode(SerNode(funcs[f].default)),
                     body |-> DeserNode(SerNode(funcs[f].body)), closure |-> funcs[f].closure]

SameThread(th) ==
  /\ back.c.thrs[th].env = thrs[th].env
  /\ back.c.thrs[th].finished = thrs[th].finished
  /\ ~back.c.thrs[th].started

\* Environments that a value refers to by itself.
RECURSIVE Direct(_)
Direct(v) ==
  CASE v.t = "func" -> {funcs[v.f].closure}
    [] v.t = "thread" -> {thrs[v.th].env}
    [] v.t = "map" -> UNION {Direct(v.items[i]) : i \in DOMAIN v.items}
    [] OTHER -> {}

RefersTo(e) ==
  UNION {LET en == envs[e].entries[i]
         IN CASE en.kind = "alias" -> {PointerEnv(e, en)}
              [] en.kind = "value" -> Direct(en.val)
              [] OTHER -> {} : i \in DOMAIN envs[e].entries}

RECURSIVE Ancestors(_)
Ancestors(e) == IF e = None THEN {} ELSE {e} \cup Ancestors(envs[e].parent)

\* Every environment refers only to itself, to environments created in it, and
\* to the one the writing began with.
Nested ==
  \A e \in WrittenEnvs : \A x \in RefersTo(e) : e \in Ancestors(x) \/ x = text.c.envs[1]

PointersOf(e) == {en \in ToSet(envs[e].entries) : en.kind = "alias"}

\* The name of a pointer's target leads to the target from where the pointer is.
NameSuffices(e, en) == PointerEnv(e, en) = en.home

PointerKept(e, en) == Leads(back.c.envs, e, en.name) = Leads(Heap, e, en.name)



\* The writer and the reader agree on every kind of node: a body without a
\* lambda, a format string or a very wide number comes back as it was except
\* for named bases and schemas, and any body keeps all its statements.
BodyKept ==
  back # Unused =>
    \A f \in DOMAIN back.c.funcs :
      LET body == funcs[f].body
          read == back.c.funcs[f].body
      IN /\ Tellable(body) => read = Told(body)
         /\ Outline(read) = Outline(body)
====
