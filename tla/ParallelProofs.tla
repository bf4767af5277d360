--------------------------- MODULE ParallelProofs ---------------------------
(***************************************************************************)
(* Proofs about Parallel and Modules for all programs, files, bodies,      *)
(* libraries and numbers of workers: PARALLEL implements ForkJoin, a       *)
(* thread never has two environments for one file, assignments keep the    *)
(* declared types, and imports that return are complete.                   *)
(***************************************************************************)
EXTENDS Parallel, SequenceTheorems, WellFoundedInduction, TLAPS

\* The thread of the program is in the call of PARALLEL, which is a statement that
\* nothing but its end can end.
Calling ==
  /\ frames[Main] # <<>> /\ Top(Main).rest # <<>>
  /\ Statement(Main).op = "parallel" /\ Len(Functions) \in 0..MaxWorkers
  /\ assigning[Main] = NotAssigning /\ extending[Main].step = "idle"

\* Every thread has its state.
ShapeInv ==
  /\ DOMAIN frames = Actors /\ DOMAIN assigning = Actors /\ DOMAIN extending = Actors
  /\ DOMAIN registry = Actors

\* Where the parent and the workers are.
PlaceInv ==
  /\ phase \in {"off", "start", "join"} /\ next \in Nat \ {0}
  /\ worker \in [Workers -> {"none", "bind", "run", "done", "unstarted"}]
  /\ outcome = Pending <=> phase # "off"

\* A worker leaves an error when it ends, or was not started.
ErrorInv ==
  /\ DOMAIN errors = Workers
  /\ \A w \in Workers :
       \/ errors[w] = None
       \/ errors[w] \in {Error(w, 0), Error(w, BodyLine)} /\ worker[w] \in {"done", "unstarted"}

\* The parent starts the workers in order and returns when it has found each ended.
CallInv ==
  /\ phase = "off" => \A w \in Workers : ~Running(w)
  /\ phase # "off" => Calling
  /\ phase = "start" => /\ next <= Len(Functions) + 1
                        /\ \A w \in Workers : worker[w] = "none" <=> w >= next
  /\ phase = "join" => \A w \in Workers : /\ w > Len(Functions) => worker[w] = "none"
                                          /\ w < next => ~Running(w)

\* A list of modules has an environment under the name of its file.
Knows(list, org, e) == \E k \in DOMAIN list : list[k].name = org[e] /\ list[k].env = e

IsList(q) == \E S : q \in Seq(S)

\* The modules of a list are environments, each known under its file, and no name
\* stands for two of them.
Sound(list, org) ==
  /\ IsList(list)
  /\ \A i \in DOMAIN list :
       /\ list[i].env \in DOMAIN org
       /\ Knows(list, org, list[i].env)
       /\ \A j \in DOMAIN list : list[i].name = list[j].name => list[i].env = list[j].env

\* The lists of modules, of every thread.
RegistryInv ==
  /\ IsList(origin)
  /\ \A a \in Actors : Sound(registry[a], origin)

\* An environment, and a forest of them: a call's environment is below the global one.
IsEnv(x) ==
  /\ x = [entries |-> x.entries, parent |-> x.parent, source |-> x.source, scope |-> x.scope,
          loaded |-> x.loaded, extensions |-> x.extensions]
  /\ IsList(x.entries) /\ IsList(x.extensions)
  /\ \A i \in DOMAIN x.entries :
       x.entries[i] = Entry(x.entries[i].name, x.entries[i].type, x.entries[i].init)

Forest(es) ==
  /\ IsList(es) /\ Global \in DOMAIN es /\ es[Global].parent = 0
  /\ \A e \in DOMAIN es : IsEnv(es[e]) /\ es[e].parent \in {0, Global}

\* The second has every environment of the first with its entries, initialized if they
\* were, and maybe others.
Grown(x, y) ==
  /\ y.parent = x.parent /\ (x.loaded => y.loaded)
  /\ \A i \in DOMAIN x.entries :
       /\ i \in DOMAIN y.entries
       /\ y.entries[i].name = x.entries[i].name /\ y.entries[i].type = x.entries[i].type
       /\ x.entries[i].init => y.entries[i].init

Grows(es, fs) == \A e \in DOMAIN es : e \in DOMAIN fs /\ Grown(es[e], fs[e])

\* A list of modules, whose environments are at the top.
GoodList(list, es) ==
  /\ IsList(list)
  /\ \A i \in DOMAIN list : list[i].env \in DOMAIN es /\ es[list[i].env].parent = 0

\* Programs in execution: only the first may be in the environment of a call.
GoodFrames(q, es) ==
  /\ IsList(q)
  /\ \A i \in DOMAIN q :
       /\ q[i] = Frame(q[i].env, q[i].rest, q[i].load)
       /\ q[i].env \in DOMAIN es
       /\ i > 1 => es[q[i].env].parent = 0 /\ q[i].load.env = q[i].env

\* Every thread's lists and programs are of environments that exist.
EnvInv ==
  /\ Forest(envs) /\ IsList(origin) /\ DOMAIN origin = DOMAIN envs
  /\ DOMAIN failed = Actors
  /\ \A a \in Actors : GoodList(registry[a], envs) /\ GoodFrames(frames[a], envs)

\* No other thread has a program in the environment of a call.
PrivateInv ==
  \A a, b \in Actors : a # b =>
    \A i \in DOMAIN frames[a], j \in DOMAIN frames[b] :
      frames[a][i].env = frames[b][j].env => envs[frames[a][i].env].parent = 0

\* A worker has programs while it runs.
IdleInv == \A w \in Workers : worker[w] # "run" => frames[w] = <<>>

\* A thread in the middle of a statement has that statement; an assignment goes to
\* the environment in which the name was found, or to one where it was not.
BusyAt(a) ==
  /\ extending[a].step # "idle" =>
       frames[a] # <<>> /\ Top(a).rest # <<>> /\ Statement(a).op = "extend"
  /\ assigning[a] # NotAssigning =>
       /\ assigning[a] = [step |-> assigning[a].step, env |-> assigning[a].env]
       /\ assigning[a].step \in {"define", "assign"} /\ extending[a].step = "idle"
       /\ frames[a] # <<>> /\ Top(a).rest # <<>> /\ Statement(a).op = "assign"
       /\ \/ assigning[a].env = Top(a).env
          \/ /\ assigning[a].env = envs[Top(a).env].parent /\ assigning[a].env # 0
             /\ At(envs, Top(a).env, <<Statement(a).name>>) = {}

BusyInv == \A a \in Actors : BusyAt(a)

\* The functions of a PARALLEL are a list, and so are the parameters of each.
Formed(s) ==
  s.op = "parallel" =>
    IsList(s.functions) /\ \A j \in DOMAIN s.functions : IsList(s.functions[j].params)

AllFormed(list) == IsList(list) /\ \A i \in DOMAIN list : Formed(list[i])

\* Programs and the bodies of modules are lists of such statements.
ProgramsFormed ==
  /\ \A p \in Programs : AllFormed(p)
  /\ \A f \in Files : AllFormed(Body(f))

FormedInv ==
  /\ AllFormed(program)
  /\ \A i \in DOMAIN frames[Main] : AllFormed(frames[Main][i].rest)

\* The names that the first k statements of a body assign are in an environment.
HasValue(env, name) ==
  \E j \in DOMAIN env.entries : env.entries[j].name = <<name>> /\ env.entries[j].init

Holds(env, body, k) ==
  \A i \in 1..k : body[i].op = "assign" => HasValue(env, body[i].name)

\* A module that is loaded has the names of its file.
Whole(env, file) == file \in Files /\ Readable(file) => Holds(env, Body(file), Len(Body(file)))

\* The environment of org is the file's, or that of a file that has no body to execute.
Belongs(org, file) == org \in Files /\ Readable(org) => org = file

\* A body in execution, the i-th program of its thread, has assigned the names of the
\* statements done; a program of a module that has been loaded, or cannot be, is empty.
FrameOk(i, f, es, org) ==
  /\ f.load.runs =>
       /\ i > 1 /\ f.load.file \in Files /\ Belongs(org[f.env], f.load.file)
       /\ \E k \in 0..Len(Body(f.load.file)) :
            /\ f.rest = SubSeq(Body(f.load.file), k + 1, Len(Body(f.load.file)))
            /\ Holds(es[f.env], Body(f.load.file), k)
  /\ i > 1 /\ ~f.load.runs =>
       f.rest = <<>> /\ (f.load.file \in Files /\ Readable(f.load.file) => es[f.env].loaded)

LoadInv ==
  /\ \A m \in DOMAIN envs : envs[m].loaded => Whole(envs[m], origin[m])
  /\ \A a \in Actors : \A i \in DOMAIN frames[a] : FrameOk(i, frames[a][i], envs, origin)

\* The file that an import finds, and that its body is not to be executed in the
\* environment of another file with a body, registered under the same name.
Sought(a) ==
  IF Statement(a).op = "import_path" THEN PathTo(Statement(a).name) ELSE Searched(a)

NamesAgree ==
  \A a \in Actors :
    LET found == Cached(a, Statement(a), Sought(a))
    IN (/\ Ready(a) /\ Statement(a).op \in {"import", "include", "import_path"}
        /\ Sought(a) \in Files /\ Readable(Sought(a)) /\ found # 0 /\ ~envs[found].loaded)
       => Belongs(origin[found], Sought(a))

\* The inductive invariant of the calls of PARALLEL; RegistryInv is one beside it.
IInv == ShapeInv /\ PlaceInv /\ ErrorInv /\ CallInv

\* What a search finds is a file, a package without one, or nothing.
FilesFound ==
  /\ \A dir, name : FileAt(dir, name) \in Files \cup {Missing, NoInit}
  /\ \A path : PathTo(path) \in Files \cup {Missing, NoInit}

-----------------------------------------------------------------------------
\* What the steps of the other threads and of the loader leave alone.
Apart(a) ==
  /\ DOMAIN frames' = DOMAIN frames /\ DOMAIN assigning' = DOMAIN assigning
  /\ DOMAIN extending' = DOMAIN extending /\ DOMAIN registry' = DOMAIN registry
  /\ \A b \in Actors \ {a} : /\ frames'[b] = frames[b] /\ assigning'[b] = assigning[b]
                             /\ extending'[b] = extending[b]

\* A step of a thread changes that thread's state and no other's.
LEMMA StepApart ==
  ASSUME ShapeInv, NEW a \in Actors, ModuleStep(a)
  PROVE  Apart(a)
<1> USE DEF ShapeInv, Apart
<1>1. CASE AssignLookup(a)
  BY <1>1 DEF AssignLookup, Raise, extVars
<1>2. CASE AssignDefine(a)
  BY <1>2 DEF AssignDefine, extVars
<1>3. CASE EndAssign(a)
  BY <1>3 DEF EndAssign, Raise, Proceed, extVars
<1>4. CASE Fail(a)
  BY <1>4 DEF Fail, Raise, extVars
<1>5. ASSUME NEW file, NEW scope, Begin(a, file, scope) PROVE Apart(a)
  BY <1>5 DEF Begin, Raise, extVars
<1>6. CASE BeginImport(a)
  BY <1>5, <1>6 DEF BeginImport
<1>7. CASE BeginInclude(a)
  BY <1>5, <1>7 DEF BeginInclude
<1>8. CASE BeginImportPath(a)
  BY <1>5, <1>8 DEF BeginImportPath
<1>9. CASE EndImport(a)
  BY <1>9 DEF EndImport, Raise
<1>10. CASE Export(a)
  BY <1>10 DEF Export, Raise, Proceed
<1>11. CASE Extend(a)
  BY <1>11 DEF Extend, Raise, ExtendLookup, extVars
<1>12. CASE EndExtend(a)
  BY <1>12 DEF EndExtend, Proceed, ExtendScope
<1>13. CASE LoaderStep(a) /\ UNCHANGED modVars
  BY <1>13 DEF LoaderStep, modVars, ExtendOpen, ExtendInit, ExtendExpose
<1> QED
  BY <1>1, <1>2, <1>3, <1>4, <1>6, <1>7, <1>8, <1>9, <1>10, <1>11, <1>12, <1>13
  DEF ModuleStep

-----------------------------------------------------------------------------
(* The lists of modules. *)

\* A list with an element put in front.
LEMMA Prepend ==
  ASSUME NEW q, IsList(q), NEW x, NEW r, r = <<x>> \o q
  PROVE  /\ IsList(r)
         /\ DOMAIN q = 1..Len(q) /\ Len(q) \in Nat
         /\ DOMAIN r = 1..(Len(q) + 1)
         /\ r[1] = x
         /\ \A i \in DOMAIN q : r[i + 1] = q[i]
<1>1. PICK S : q \in Seq(S)
  BY DEF IsList
<1> DEFINE T == S \cup {x}
<1>2. q \in Seq(T) /\ <<x>> \in Seq(T)
  BY <1>1
<1> HIDE DEF T
<1>3. <<x>> \o q \in Seq(T)
  BY <1>2
<1>4. Len(q) \in Nat /\ DOMAIN q = 1..Len(q)
  BY <1>1
<1>5. Len(<<x>> \o q) = Len(q) + 1
  BY <1>2
<1>6. \A i \in 1..(Len(q) + 1) : (<<x>> \o q)[i] = IF i = 1 THEN x ELSE q[i - 1]
  BY <1>2, <1>4
<1>7. DOMAIN (<<x>> \o q) = 1..(Len(q) + 1)
  BY <1>3, <1>5
<1>8. \A i \in DOMAIN q : (<<x>> \o q)[i + 1] = q[i]
  BY <1>4, <1>6
<1> QED
  BY <1>3, <1>4, <1>6, <1>7, <1>8 DEF IsList

\* A list with an element put behind it.
LEMMA Extended ==
  ASSUME NEW q, IsList(q), NEW x
  PROVE  /\ IsList(Append(q, x))
         /\ Len(q) \in Nat /\ DOMAIN q = 1..Len(q)
         /\ DOMAIN Append(q, x) = 1..(Len(q) + 1)
         /\ Append(q, x)[Len(q) + 1] = x
         /\ \A i \in DOMAIN q : Append(q, x)[i] = q[i]
<1>1. PICK S : q \in Seq(S)
  BY DEF IsList
<1> DEFINE T == S \cup {x}
<1>2. q \in Seq(T) /\ x \in T
  BY <1>1
<1> HIDE DEF T
<1>3. Append(q, x) \in Seq(T)
  BY <1>2
<1> QED
  BY <1>2, <1>3 DEF IsList

\* Lookup finds the one environment a name stands for.
LEMMA LookupOne ==
  ASSUME NEW list, NEW org, IsList(org), Sound(list, org), NEW name
  PROVE  /\ Lookup(list, name) = 0 => \A i \in DOMAIN list : list[i].name # name
         /\ Lookup(list, name) # 0 =>
              \E i \in DOMAIN list : list[i].name = name /\ list[i].env = Lookup(list, name)
<1> DEFINE hits == {i \in DOMAIN list : list[i].name = name}
           one == CHOOSE i \in hits : TRUE
<1>1. CASE hits = {}
  BY <1>1 DEF Lookup
<1>2. CASE hits # {}
  <2>1. one \in hits
    BY <1>2
  <2>2. Lookup(list, name) = list[one].env
    BY <1>2 DEF Lookup
  <2>3. list[one].env \in DOMAIN org
    BY <2>1 DEF Sound
  <2>4. list[one].env # 0
    BY <2>3 DEF IsList
  <2> QED
    BY <2>1, <2>2, <2>4
<1> QED
  BY <1>1, <1>2

\* A name that is new to a list may be registered for an environment that the list
\* knows, or under the name of its file.
LEMMA RegisterSound ==
  ASSUME NEW list, NEW org, IsList(org), Sound(list, org), NEW name, NEW e \in DOMAIN org,
         Knows(list, org, e) \/ (name = org[e] /\ Lookup(list, name) = 0)
  PROVE  LET r == RegisterName(list, name, e)
         IN Sound(r, org) /\ Knows(r, org, e)
<1>1. CASE Lookup(list, name) # 0
  BY <1>1 DEF RegisterName
<1>2. CASE Lookup(list, name) = 0
  <2> DEFINE x == [name |-> name, env |-> e]
             r == <<x>> \o list
  <2>1. IsList(list)
    BY DEF Sound
  <2>2. RegisterName(list, name, e) = r
    BY <1>2 DEF RegisterName
  <2>3. \A i \in DOMAIN list : list[i].name # name
    BY <1>2, LookupOne
  <2>4. x.name = name /\ x.env = e
    OBVIOUS
  <2>5. r = <<x>> \o list
    OBVIOUS
  <2> HIDE DEF x, r
  <2>6. IsList(r)
    BY <2>5, <2>1, Prepend
  <2>7. r[1] = x
    BY <2>5, <2>1, Prepend
  <2>8. Len(list) \in Nat /\ DOMAIN list = 1..Len(list) /\ DOMAIN r = 1..(Len(list) + 1)
    BY <2>5, <2>1, Prepend
  <2>9. \A i \in DOMAIN list : r[i + 1] = list[i]
    BY <2>5, <2>1, Prepend
  <2>10. \A i \in DOMAIN r : i = 1 \/ (i - 1 \in DOMAIN list /\ r[i] = list[i - 1])
    BY <2>8, <2>9, <2>7
  <2>11. \A i \in DOMAIN list : i + 1 \in DOMAIN r
    BY <2>8, <2>9, <2>7
  <2>12. 1 \in DOMAIN r
    BY <2>8, <2>9, <2>7
  <2>13. \A d : Knows(list, org, d) => Knows(r, org, d)
    BY <2>8, <2>9, <2>7, <2>11 DEF Knows
  <2>14. Knows(r, org, e)
    BY <1>2, <2>4, <2>8, <2>9, <2>7, <2>12, <2>13 DEF Knows
  <2>15. ASSUME NEW i \in DOMAIN r
         PROVE  r[i].env \in DOMAIN org /\ Knows(r, org, r[i].env)
    BY <2>4, <2>8, <2>9, <2>7, <2>10, <2>13, <2>14 DEF Sound
  <2>16. ASSUME NEW i \in DOMAIN r, NEW j \in DOMAIN r, r[i].name = r[j].name
         PROVE  r[i].env = r[j].env
    BY <2>3, <2>4, <2>8, <2>9, <2>7, <2>10, <2>16 DEF Sound
  <2> QED
    BY <2>2, <2>6, <2>14, <2>15, <2>16 DEF Sound
<1> QED
  BY <1>1, <1>2

\* A new environment leaves every list as it was.
LEMMA SoundExtended ==
  ASSUME NEW list, NEW org, IsList(org), Sound(list, org), NEW file
  PROVE  Sound(list, Append(org, file))
<1> DEFINE more == Append(org, file)
<1>1. DOMAIN org \subseteq DOMAIN more /\ \A e \in DOMAIN org : more[e] = org[e]
  BY Extended
<1> HIDE DEF more
<1>2. ASSUME NEW i \in DOMAIN list
      PROVE  list[i].env \in DOMAIN more /\ Knows(list, more, list[i].env)
  BY <1>1 DEF Sound, Knows
<1> QED
  BY <1>2 DEF Sound, more

\* The empty list.
LEMMA EmptySound == \A org : Sound(<<>>, org)
<1>1. <<>> \in Seq({}) /\ DOMAIN <<>> = {}
  OBVIOUS
<1> QED
  BY <1>1 DEF Sound, IsList

\* What Cached gives is an environment of the list, or 0 when none is known under the
\* file.
LEMMA CachedKnown ==
  ASSUME NEW a \in Actors, RegistryInv, NEW s, NEW file
  PROVE  /\ Cached(a, s, file) # 0 =>
              /\ Cached(a, s, file) \in DOMAIN origin
              /\ Knows(registry[a], origin, Cached(a, s, file))
         /\ Cached(a, s, file) = 0 /\ file \in Files => Lookup(registry[a], file) = 0
<1>1. IsList(origin) /\ Sound(registry[a], origin)
  BY DEF RegistryInv
<1>2. ASSUME NEW name, Lookup(registry[a], name) # 0
      PROVE  /\ Lookup(registry[a], name) \in DOMAIN origin
             /\ Knows(registry[a], origin, Lookup(registry[a], name))
  <2>1. PICK i \in DOMAIN registry[a] : registry[a][i].env = Lookup(registry[a], name)
    BY <1>1, <1>2, LookupOne
  <2> QED
    BY <1>1, <2>1 DEF Sound
<1>3. CASE Cached(a, s, file) = 0
  BY <1>3 DEF Cached
<1>4. CASE Cached(a, s, file) # 0
  <2>1. PICK name : Cached(a, s, file) = Lookup(registry[a], name)
    BY <1>4 DEF Cached
  <2> QED
    BY <1>2, <1>4, <2>1
<1> QED
  BY <1>3, <1>4

\* An import registers the environment of a file that is new to the thread under that
\* file, and one that is not only under other names.
LEMMA BeginRegistry ==
  ASSUME ShapeInv, RegistryInv, NEW a \in Actors, NEW scope,
         NEW file \in Files \cup {Missing, NoInit}, Begin(a, file, scope)
  PROVE  RegistryInv'
<1>1. CASE UNCHANGED <<origin, registry>>
  BY <1>1 DEF RegistryInv, Sound, Knows
<1>2. CASE ~ UNCHANGED <<origin, registry>>
  <2> DEFINE s == Statement(a)
             cached == Cached(a, s, file)
             e == IF cached = 0 THEN Len(origin) + 1 ELSE cached
             first == IF cached = 0 THEN RegisterName(registry[a], file, e) ELSE registry[a]
             second == RegisterName(first, s.name, e)
             list == RegisterName(second, Alias(s), e)
  <2>1. /\ file # NoInit /\ ~ (file = Missing /\ cached = 0)
        /\ registry' = [registry EXCEPT ![a] = list]
        /\ origin' = IF cached = 0 THEN Append(origin, file) ELSE origin
    BY <1>2 DEF Begin
  <2>2. IsList(origin) /\ \A b \in Actors : Sound(registry[b], origin)
    BY DEF RegistryInv
  <2>3. /\ IsList(origin') /\ e \in DOMAIN origin'
        /\ cached = 0 => origin'[e] = file
        /\ \A b \in Actors : Sound(registry[b], origin')
    <3>1. CASE cached = 0
      BY <2>1, <2>2, <3>1, Extended, SoundExtended
    <3>2. CASE cached # 0
      BY <2>1, <2>2, <3>2, CachedKnown
    <3> QED
      BY <3>1, <3>2
  <2>4. Sound(first, origin') /\ Knows(first, origin', e)
    <3>1. CASE cached = 0
      <4>1. Lookup(registry[a], file) = 0
        BY <2>1, <3>1, CachedKnown
      <4> HIDE DEF e, cached
      <4> QED
        BY <2>3, <3>1, <4>1, RegisterSound
    <3>2. CASE cached # 0
      BY <2>1, <2>3, <3>2, CachedKnown
    <3> QED
      BY <3>1, <3>2
  <2> HIDE DEF e, first
  <2>5. Sound(second, origin') /\ Knows(second, origin', e)
    BY <2>3, <2>4, RegisterSound
  <2> HIDE DEF second
  <2>6. Sound(list, origin')
    BY <2>3, <2>5, RegisterSound
  <2> HIDE DEF list
  <2> QED
    BY <2>1, <2>3, <2>6 DEF RegistryInv, ShapeInv
<1> QED
  BY <1>1, <1>2

\* A search gives a file, a package without one, or nothing.
LEMMA FoundFile ==
  ASSUME FilesFound, NEW dir, NEW name
  PROVE  Found(dir, name) \in Files \cup {Missing, NoInit}
BY DEF FilesFound, Found

\* A step of a thread keeps every list of modules sound.
LEMMA StepRegistry ==
  ASSUME FilesFound, ShapeInv, RegistryInv, NEW a \in Actors, ModuleStep(a)
  PROVE  RegistryInv'
<1>1. CASE UNCHANGED <<origin, registry>>
  BY <1>1 DEF RegistryInv, Sound, Knows
<1>2. CASE BeginImport(a)
  <2>1. Begin(a, Searched(a), Statement(a).name)
    BY <1>2 DEF BeginImport
  <2>2. Searched(a) \in Files \cup {Missing, NoInit}
    BY FoundFile DEF Searched
  <2> QED
    BY <2>1, <2>2, BeginRegistry
<1>3. CASE BeginInclude(a)
  <2>1. Begin(a, Searched(a), Statement(a).name)
    BY <1>3 DEF BeginInclude
  <2>2. Searched(a) \in Files \cup {Missing, NoInit}
    BY FoundFile DEF Searched
  <2> QED
    BY <2>1, <2>2, BeginRegistry
<1>4. CASE BeginImportPath(a)
  <2>1. Begin(a, PathTo(Statement(a).name), Alias(Statement(a)))
    BY <1>4 DEF BeginImportPath
  <2>2. PathTo(Statement(a).name) \in Files \cup {Missing, NoInit}
    BY DEF FilesFound
  <2> QED
    BY <2>1, <2>2, BeginRegistry
<1>5. CASE AssignLookup(a) \/ AssignDefine(a) \/ EndAssign(a) \/ Fail(a)
  BY <1>1, <1>5 DEF AssignLookup, AssignDefine, EndAssign, Fail
<1>6. CASE EndImport(a) \/ Export(a) \/ Extend(a) \/ EndExtend(a)
  BY <1>1, <1>6 DEF EndImport, Export, Extend, EndExtend
<1>7. CASE LoaderStep(a) /\ UNCHANGED modVars
  BY <1>1, <1>7 DEF modVars
<1> QED
  BY <1>2, <1>3, <1>4, <1>5, <1>6, <1>7 DEF ModuleStep

-----------------------------------------------------------------------------
(* The inductive invariant. *)

\* No call is in progress at first.
LEMMA InitInv == Init => IInv
<1> SUFFICES ASSUME Init PROVE IInv
  OBVIOUS
<1> USE DEF Init, InitModules
<1>1. ShapeInv
  BY DEF ShapeInv, ExtInit
<1>2. PlaceInv
  BY DEF PlaceInv, None, Pending
<1>3. ErrorInv
  BY DEF ErrorInv
<1>4. CallInv
  BY DEF CallInv, Running
<1> QED
  BY <1>1, <1>2, <1>3, <1>4 DEF IInv

\* No step of any thread's program ends the statement the parent is in.
LEMMA ExecuteCalling ==
  ASSUME ShapeInv, Calling, NEW a \in Actors, ModuleStep(a)
  PROVE  Calling' /\ Functions' = Functions
<1>1. Main \in Actors
  BY ParallelAssumption
<1>2. CASE a = Main
  <2>1. ~ AssignLookup(Main) /\ ~ AssignDefine(Main) /\ ~ EndAssign(Main) /\ ~ Fail(Main)
    BY DEF Calling, AssignLookup, AssignDefine, EndAssign, Fail, NotAssigning
  <2>2. ~ BeginImport(Main) /\ ~ BeginInclude(Main) /\ ~ BeginImportPath(Main)
    BY DEF Calling, BeginImport, BeginInclude, BeginImportPath
  <2>3. ~ EndImport(Main)
    BY DEF Calling, EndImport
  <2>4. ~ Export(Main) /\ ~ Extend(Main)
    BY DEF Calling, Export, Extend
  <2>5. ~ EndExtend(Main) /\ ~ LoaderStep(Main)
    BY DEF Calling, EndExtend, ExtendScope, LoaderStep, ExtendOpen, ExtendInit, ExtendExpose
  <2> QED
    BY <1>2, <2>1, <2>2, <2>3, <2>4, <2>5 DEF ModuleStep
<1>3. CASE a # Main
  <2>1. /\ frames'[Main] = frames[Main] /\ assigning'[Main] = assigning[Main]
        /\ extending'[Main] = extending[Main]
    BY <1>1, <1>3, StepApart DEF Apart
  <2> QED
    BY <2>1 DEF Calling, Top, Statement, Functions
<1> QED
  BY <1>2, <1>3

\* A step of a thread's program leaves the call of PARALLEL where it is.
LEMMA ExecuteStep ==
  ASSUME IInv, NEW a \in Actors, Execute(a)
  PROVE  IInv'
<1>1. ModuleStep(a) /\ UNCHANGED parVars
  BY DEF Execute
<1>2. ShapeInv'
  BY <1>1, StepApart DEF IInv, ShapeInv, Apart
<1>3. PlaceInv'
  BY <1>1 DEF IInv, PlaceInv, parVars
<1>4. ErrorInv'
  BY <1>1 DEF IInv, ErrorInv, parVars
<1>5. CallInv'
  <2>1. CASE phase = "off"
    BY <1>1, <2>1 DEF IInv, CallInv, parVars, Running
  <2>2. CASE phase # "off"
    <3>1. Calling' /\ Functions' = Functions
      BY <1>1, <2>2, ExecuteCalling DEF IInv, CallInv
    <3> QED
      BY <1>1, <2>2, <3>1 DEF IInv, CallInv, parVars, Running
  <2> QED
    BY <2>1, <2>2
<1> QED
  BY <1>2, <1>3, <1>4, <1>5 DEF IInv

\* The threads: the program's, 0, and the workers, from 1.
LEMMA ActorFacts ==
  /\ Main \in Actors /\ Main \notin Workers /\ Workers \subseteq Actors
  /\ Workers \subseteq Nat \ {0} /\ MaxWorkers \in Nat
  /\ \A w \in 1..MaxWorkers : w \in Workers
BY ParallelAssumption DEF Main, Workers

\* The program's next statement is no call yet.
LEMMA NextStatementStep == IInv /\ NextStatement => IInv'
<1> SUFFICES ASSUME IInv, NextStatement PROVE IInv'
  OBVIOUS
<1> USE DEF NextStatement
<1>1. ShapeInv'
  BY DEF IInv, ShapeInv, extVars
<1>2. PlaceInv'
  BY DEF IInv, PlaceInv
<1>3. ErrorInv'
  BY DEF IInv, ErrorInv
<1>4. CallInv'
  BY DEF IInv, CallInv, Running
<1> QED
  BY <1>1, <1>2, <1>3, <1>4 DEF IInv

\* The call begins with no worker, or fails at an argument that is no function.
LEMMA CallParallelStep == IInv /\ CallParallel => IInv'
<1> SUFFICES ASSUME IInv, CallParallel PROVE IInv'
  OBVIOUS
<1>1. /\ phase = "off" /\ Ready(Main) /\ Statement(Main).op = "parallel"
      /\ Len(Functions) \in 0..MaxWorkers
      /\ UNCHANGED <<program, envs, origin, registry, stuck, assigning, extVars>>
  BY DEF CallParallel
<1>2. ShapeInv'
  BY DEF IInv, ShapeInv, extVars, CallParallel, Raise
<1>3. CASE UNCHANGED <<phase, next, errors, worker, outcome>>
  <2>1. PlaceInv' /\ ErrorInv' /\ CallInv'
    BY <1>1, <1>3 DEF IInv, PlaceInv, ErrorInv, CallInv, Running
  <2> QED
    BY <1>2, <2>1 DEF IInv
<1>4. CASE ~ UNCHANGED <<phase, next, errors, worker, outcome>>
  <2>1. /\ phase' = "start" /\ next' = 1 /\ errors' = [w \in Workers |-> None]
        /\ worker' = [w \in Workers |-> "none"] /\ outcome' = Pending
        /\ UNCHANGED frames
    BY <1>4 DEF CallParallel
  <2>2. PlaceInv'
    BY <2>1 DEF PlaceInv
  <2>3. ErrorInv'
    BY <2>1 DEF ErrorInv
  <2>4. Calling' /\ Functions' = Functions
    BY <1>1, <2>1 DEF Calling, Ready, Busy, Top, Statement, Functions, extVars
  <2>5. CallInv'
    BY <1>1, <2>1, <2>4, ActorFacts DEF CallInv
  <2> QED
    BY <1>2, <2>2, <2>3, <2>5 DEF IInv
<1> QED
  BY <1>3, <1>4

\* The statement the parent is in, after a step that leaves it there.
LEMMA CallingSame ==
  ASSUME Calling, UNCHANGED <<frames, assigning, extending>>
  PROVE  Calling' /\ Functions' = Functions
BY DEF Calling, Top, Statement, Functions

\* The worker started next, or the error of one that could not be.
LEMMA StartWorkerStep == IInv /\ StartWorker => IInv'
<1> SUFFICES ASSUME IInv, StartWorker PROVE IInv'
  OBVIOUS
<1>1. /\ phase = "start" /\ next <= Len(Functions) /\ next' = next + 1
      /\ UNCHANGED <<phase, outcome, origin, frames, assigning, extending>>
  BY DEF StartWorker, extVars
<1>2. Calling /\ Calling' /\ Functions' = Functions /\ Len(Functions) \in 0..MaxWorkers
  BY <1>1, CallingSame DEF IInv, CallInv, Calling
<1>3. next \in Workers /\ next \in Nat \ {0}
  BY <1>1, <1>2, ActorFacts DEF IInv, PlaceInv, Workers
<1>4. worker' \in {[worker EXCEPT ![next] = "bind"], [worker EXCEPT ![next] = "unstarted"]}
  BY DEF StartWorker
<1>5. ShapeInv'
  BY <1>1 DEF IInv, ShapeInv, StartWorker
<1>6. PlaceInv'
  BY <1>1, <1>3, <1>4 DEF IInv, PlaceInv
<1>7. ErrorInv'
  <2>1. worker[next] = "none" /\ errors[next] = None
    BY <1>1, <1>3 DEF IInv, CallInv, ErrorInv
  <2>2. CASE errors' = errors
    BY <1>3, <1>4, <2>1, <2>2 DEF IInv, ErrorInv, PlaceInv
  <2>3. CASE /\ errors' = [errors EXCEPT ![next] = Error(next, 0)]
             /\ worker' = [worker EXCEPT ![next] = "unstarted"]
    BY <1>3, <2>3 DEF IInv, ErrorInv, PlaceInv
  <2> QED
    BY <2>2, <2>3 DEF StartWorker
<1>8. CallInv'
  <2>1. \A w \in Workers : worker'[w] = "none" <=> w >= next'
    BY <1>1, <1>3, <1>4, ActorFacts DEF IInv, PlaceInv, CallInv
  <2> QED
    BY <1>1, <1>2, <1>3, <2>1 DEF CallInv
<1> QED
  BY <1>5, <1>6, <1>7, <1>8 DEF IInv

\* Every worker was started or has its error: the joins begin.
LEMMA AllStartedStep == IInv /\ AllStarted => IInv'
<1> SUFFICES ASSUME IInv, AllStarted PROVE IInv'
  OBVIOUS
<1>1. /\ phase = "start" /\ next > Len(Functions) /\ phase' = "join" /\ next' = 1
      /\ UNCHANGED <<errors, worker, outcome, origin, registry, frames, assigning, extending>>
  BY DEF AllStarted, extVars, modVars
<1>2. Calling' /\ Functions' = Functions /\ Len(Functions) \in 0..MaxWorkers
  BY <1>1, CallingSame DEF IInv, CallInv, Calling
<1>3. ShapeInv' /\ PlaceInv' /\ ErrorInv'
  BY <1>1 DEF IInv, ShapeInv, PlaceInv, ErrorInv
<1>4. CallInv'
  BY <1>1, <1>2, ActorFacts DEF IInv, CallInv, PlaceInv, Running
<1> QED
  BY <1>3, <1>4 DEF IInv

\* The parent goes on to the next worker after one that is not running.
LEMMA JoinStep == IInv /\ (Join \/ JoinUnstarted) => IInv'
<1> SUFFICES ASSUME IInv, Join \/ JoinUnstarted PROVE IInv'
  OBVIOUS
<1>1. /\ phase = "join" /\ next <= Len(Functions) /\ worker[next] \in {"done", "unstarted"}
      /\ next' \in {next, next + 1}
      /\ UNCHANGED <<phase, errors, worker, outcome, origin, registry, frames, assigning,
                     extending>>
  BY DEF Join, Joinable, JoinUnstarted, extVars, modVars
<1>2. Calling' /\ Functions' = Functions /\ Len(Functions) \in 0..MaxWorkers
  BY <1>1, CallingSame DEF IInv, CallInv, Calling
<1>3. ShapeInv' /\ PlaceInv' /\ ErrorInv'
  BY <1>1 DEF IInv, ShapeInv, PlaceInv, ErrorInv
<1>4. CallInv'
  BY <1>1, <1>2, ActorFacts DEF IInv, CallInv, PlaceInv, Running
<1> QED
  BY <1>3, <1>4 DEF IInv

\* A set of numbers that is not empty has a least element.
LEMMA LeastExists ==
  ASSUME NEW S \in SUBSET Nat, S # {}
  PROVE  \E i \in S : \A j \in S : i <= j
<1> DEFINE Less == OpToRel(<, Nat)
<1>1. IsWellFoundedOn(Less, Nat)
  BY NatLessThanWellFounded
<1>2. PICK i \in S : \A j \in S : ~ (<<j, i>> \in Less)
  BY <1>1, WFMin
<1>3. \A j \in S : ~ (j < i)
  BY <1>2 DEF OpToRel
<1> QED
  BY <1>3

\* The first error is one that a worker has left.
LEMMA FirstErrorLeft ==
  \/ FirstError = None
  \/ \E w \in Workers : errors[w] # None /\ FirstError = errors[w]
<1> DEFINE left == {w \in Workers : errors[w] # None}
           one == CHOOSE w \in left : \A v \in left : w <= v
<1>1. CASE left = {}
  BY <1>1 DEF FirstError
<1>2. CASE left # {}
  <2>1. left \in SUBSET Nat
    BY ActorFacts
  <2>2. \E w \in left : \A v \in left : w <= v
    BY <1>2, <2>1, LeastExists
  <2>3. one \in left
    BY <2>2
  <2>4. FirstError = errors[one]
    BY <1>2 DEF FirstError
  <2> QED
    BY <2>3, <2>4
<1> QED
  BY <1>1, <1>2

\* An error is no result of a statement that is not over.
LEMMA NotPending ==
  ASSUME ErrorInv
  PROVE  Located(FirstError) # Pending
<1>1. CASE FirstError = None
  BY <1>1 DEF Located, None, Pending
<1>2. CASE FirstError # None
  <2>1. PICK w \in Workers : FirstError = errors[w]
    BY <1>2, FirstErrorLeft
  <2>2. FirstError \in {Error(w, 0), Error(w, BodyLine)}
    BY <1>2, <2>1 DEF ErrorInv
  <2>3. Located(FirstError) \in {Error(w, CallLine), Error(w, BodyLine)}
    BY <1>2, <2>2 DEF Located, Error, BodyLine
  <2> QED
    BY <2>3, ActorFacts DEF Error, Pending
<1> QED
  BY <1>1, <1>2

\* The call is over when every worker was joined.
LEMMA EndParallelStep == IInv /\ EndParallel => IInv'
<1> SUFFICES ASSUME IInv, EndParallel PROVE IInv'
  OBVIOUS
<1>1. /\ phase = "join" /\ next > Len(Functions) /\ phase' = "off"
      /\ outcome' = Located(FirstError)
      /\ UNCHANGED <<next, errors, worker, origin, registry, assigning, extending>>
  BY DEF EndParallel, extVars
<1>2. ShapeInv'
  BY DEF IInv, ShapeInv, EndParallel, Raise, Proceed, extVars
<1>3. PlaceInv' /\ ErrorInv'
  BY <1>1, NotPending DEF IInv, PlaceInv, ErrorInv
<1>4. Len(Functions) \in 0..MaxWorkers
  BY <1>1 DEF IInv, CallInv, Calling
<1>5. CallInv'
  BY <1>1, <1>4, ActorFacts DEF IInv, CallInv, PlaceInv, Running
<1> QED
  BY <1>2, <1>3, <1>5 DEF IInv

\* A worker's first and last step leave the others and the parent where they are.
LEMMA WorkerFrame ==
  ASSUME IInv, NEW w \in Workers, Running(w),
         UNCHANGED <<phase, next, outcome, assigning, extending>>,
         \/ UNCHANGED frames
         \/ \E f : frames' = [frames EXCEPT ![w] = f],
         \/ worker' = [worker EXCEPT ![w] = "run"] /\ UNCHANGED errors
         \/ /\ worker' = [worker EXCEPT ![w] = "done"]
            /\ \/ UNCHANGED errors
               \/ \E line \in {0, BodyLine} : errors' = [errors EXCEPT ![w] = Error(w, line)],
         DOMAIN registry' = DOMAIN registry
  PROVE  IInv'
<1>1. errors[w] = None
  BY DEF IInv, ErrorInv, Running
<1>2. ShapeInv'
  BY DEF IInv, ShapeInv
<1>3. PlaceInv'
  BY DEF IInv, PlaceInv
<1>4. ErrorInv'
  BY <1>1 DEF IInv, ErrorInv, PlaceInv
<1>5. phase # "off"
  BY DEF IInv, CallInv
<1>6. Calling' /\ Functions' = Functions /\ Len(Functions) \in 0..MaxWorkers
  <2>1. frames'[Main] = frames[Main]
    BY ActorFacts DEF IInv, ShapeInv
  <2> QED
    BY <1>5, <2>1 DEF IInv, CallInv, Calling, Top, Statement, Functions
<1>7. CallInv'
  BY <1>5, <1>6 DEF IInv, CallInv, PlaceInv, Running
<1> QED
  BY <1>2, <1>3, <1>4, <1>7 DEF IInv

\* A worker's own steps: it binds its parameters, and it ends.
LEMMA WorkerStepStep ==
  ASSUME IInv, NEW w \in Workers, WorkerStep(w)
  PROVE  IInv'
<1>1. CASE BindParameters(w)
  <2>1. Running(w) /\ UNCHANGED <<phase, next, outcome, assigning, extending>>
    BY <1>1 DEF BindParameters, Running, extVars
  <2>2. \/ UNCHANGED frames
        \/ \E f : frames' = [frames EXCEPT ![w] = f]
    BY <1>1 DEF BindParameters
  <2>3. \/ worker' = [worker EXCEPT ![w] = "run"] /\ UNCHANGED errors
        \/ /\ worker' = [worker EXCEPT ![w] = "done"]
           /\ \E line \in {0, BodyLine} : errors' = [errors EXCEPT ![w] = Error(w, line)]
    BY <1>1 DEF BindParameters
  <2>4. DOMAIN registry' = DOMAIN registry
    BY <1>1 DEF BindParameters
  <2> QED
    BY <2>1, <2>2, <2>3, <2>4, WorkerFrame
<1>2. CASE EndWorker(w)
  <2>1. Running(w) /\ UNCHANGED <<phase, next, outcome, assigning, extending>>
    BY <1>2 DEF EndWorker, Ended, Running, extVars
  <2>2. /\ \E f : frames' = [frames EXCEPT ![w] = f]
        /\ worker' = [worker EXCEPT ![w] = "done"]
        /\ UNCHANGED errors \/ errors' = [errors EXCEPT ![w] = Error(w, BodyLine)]
        /\ DOMAIN registry' = DOMAIN registry
    BY <1>2 DEF EndWorker
  <2> QED
    BY <2>1, <2>2, WorkerFrame
<1> QED
  BY <1>1, <1>2 DEF WorkerStep

\* Every step preserves the invariant.
LEMMA NextInv == IInv /\ [Next]_vars => IInv'
<1> SUFFICES ASSUME IInv, [Next]_vars PROVE IInv'
  OBVIOUS
<1>1. CASE ParentStep
  BY <1>1, CallParallelStep, StartWorkerStep, AllStartedStep, JoinStep, EndParallelStep
  DEF ParentStep
<1>2. CASE UNCHANGED vars
  <2>1. ShapeInv' /\ PlaceInv' /\ ErrorInv'
    BY <1>2 DEF IInv, ShapeInv, PlaceInv, ErrorInv, vars, extVars, modVars, parVars
  <2>2. CallInv'
    BY <1>2, CallingSame DEF IInv, CallInv, Running, vars, extVars, modVars, parVars
  <2> QED
    BY <2>1, <2>2 DEF IInv
<1> QED
  BY <1>1, <1>2, NextStatementStep, WorkerStepStep, ExecuteStep DEF Next

\* The lists of modules stay sound: a worker starts with its parent's and ends with none.
LEMMA RegistryStep ==
  ASSUME FilesFound, IInv, RegistryInv, [Next]_vars
  PROVE  RegistryInv'
<1>1. CASE UNCHANGED <<origin, registry>>
  BY <1>1 DEF RegistryInv, Sound, Knows
<1>2. CASE NextStatement \/ CallParallel \/ AllStarted \/ Join \/ JoinUnstarted \/ EndParallel
  BY <1>1, <1>2 DEF NextStatement, CallParallel, AllStarted, Join, JoinUnstarted, EndParallel,
     modVars
<1>3. CASE StartWorker
  <2>1. UNCHANGED registry \/ registry' = [registry EXCEPT ![next] = registry[Main]]
    BY <1>3 DEF StartWorker
  <2>2. UNCHANGED origin
    BY <1>3 DEF StartWorker
  <2> QED
    BY <2>1, <2>2, ActorFacts DEF IInv, RegistryInv, ShapeInv
<1>4. ASSUME NEW w \in Workers, WorkerStep(w)
      PROVE  RegistryInv'
  <2>1. \/ UNCHANGED registry
        \/ registry' = [registry EXCEPT ![w] = <<>>]
    BY <1>4 DEF WorkerStep, BindParameters, EndWorker
  <2>2. \/ UNCHANGED origin
        \/ origin' = Append(origin, Missing)
    BY <1>4 DEF WorkerStep, BindParameters, EndWorker
  <2>3. IsList(origin) /\ \A a \in Actors : Sound(registry[a], origin)
    BY DEF RegistryInv
  <2>4. \A a \in Actors : Sound(registry'[a], origin)
    BY <2>1, <2>3, EmptySound DEF IInv, ShapeInv
  <2>5. CASE UNCHANGED origin
    BY <2>3, <2>4, <2>5 DEF RegistryInv
  <2>6. CASE origin' = Append(origin, Missing)
    <3>1. IsList(Append(origin, Missing))
      BY <2>3, Extended
    <3>2. \A a \in Actors : Sound(registry'[a], Append(origin, Missing))
      BY <2>3, <2>4, SoundExtended
    <3> QED
      BY <2>6, <3>1, <3>2 DEF RegistryInv
  <2> QED
    BY <2>2, <2>5, <2>6
<1>5. ASSUME NEW a \in Actors, Execute(a)
      PROVE  RegistryInv'
  BY <1>5, StepRegistry DEF Execute, IInv
<1>6. CASE UNCHANGED vars
  BY <1>1, <1>6 DEF vars, modVars
<1> QED
  BY <1>2, <1>3, <1>4, <1>5, <1>6 DEF Next, ParentStep

\* The invariant of the calls holds in every reachable state.
THEOREM Invariance == Spec => []IInv
<1> QED
  BY InitInv, NextInv, PTL DEF Spec

\* Lists of modules are sound in every reachable state, when searches find files.
THEOREM RegistrySound == FilesFound => (Spec => []RegistryInv)
<1> SUFFICES ASSUME FilesFound PROVE Spec => []RegistryInv
  OBVIOUS
<1>1. Init => RegistryInv
  <2> SUFFICES ASSUME Init PROVE RegistryInv
    OBVIOUS
  <2>1. origin = <<Missing>> /\ registry = [a \in Actors |-> <<>>]
    BY DEF Init, InitModules
  <2>2. IsList(origin)
    <3>1. <<Missing>> \in Seq({Missing})
      OBVIOUS
    <3> QED
      BY <2>1, <3>1 DEF IsList
  <2>3. \A a \in Actors : Sound(registry[a], origin)
    BY <2>1, EmptySound
  <2> QED
    BY <2>2, <2>3 DEF RegistryInv
<1>2. IInv /\ RegistryInv /\ [Next]_vars => RegistryInv'
  BY RegistryStep
<1> QED
  BY <1>1, <1>2, Invariance, PTL DEF Spec

\* A thread has one environment for each file, whatever names, aliases and paths it
\* imports it by, for all files, bodies and programs.
THEOREM OneEnvironment == FilesFound => (Spec => []OneEnvPerFile)
<1>1. RegistryInv => OneEnvPerFile
  <2> SUFFICES ASSUME RegistryInv, NEW a \in Actors,
                      NEW i \in DOMAIN registry[a], NEW j \in DOMAIN registry[a],
                      origin[registry[a][i].env] = origin[registry[a][j].env]
               PROVE  registry[a][i].env = registry[a][j].env
    BY DEF OneEnvPerFile
  <2>1. Sound(registry[a], origin)
    BY DEF RegistryInv
  <2>2. PICK k \in DOMAIN registry[a] :
          /\ registry[a][k].name = origin[registry[a][i].env]
          /\ registry[a][k].env = registry[a][i].env
    BY <2>1 DEF Sound, Knows
  <2>3. PICK l \in DOMAIN registry[a] :
          /\ registry[a][l].name = origin[registry[a][j].env]
          /\ registry[a][l].env = registry[a][j].env
    BY <2>1 DEF Sound, Knows
  <2> QED
    BY <2>1, <2>2, <2>3 DEF Sound
<1> QED
  BY <1>1, RegistrySound, PTL

-----------------------------------------------------------------------------
(* PARALLEL implements ForkJoin. *)

\* The status and the error ForkJoin sees of each worker.
Statuses == [w \in Workers |-> TaskStatus(w)]
ErrorsOf == [w \in Workers |-> Located(errors[w])]

\* Starting a worker is ForkJoin's Start, whether or not thrd_create succeeds.
LEMMA StartSimulation == IInv /\ StartWorker => next \in Workers /\ FJ!Start(next)
<1> SUFFICES ASSUME IInv, StartWorker PROVE next \in Workers /\ FJ!Start(next)
  OBVIOUS
<1>1. /\ phase = "start" /\ next <= Len(Functions) /\ Len(Functions) \in 0..MaxWorkers
      /\ outcome = Pending /\ outcome' = outcome
  BY DEF StartWorker, IInv, CallInv, Calling, PlaceInv
<1>2. next \in Workers /\ next \in Nat /\ next <= MaxWorkers
  BY <1>1, ActorFacts DEF IInv, PlaceInv, Workers
<1>3. Statuses[next] = "none" /\ \A v \in 1..(next - 1) : Statuses[v] # "none"
  <2>1. \A v \in 1..(next - 1) : v \in Workers /\ worker[v] # "none"
    BY <1>1, <1>2, ActorFacts DEF IInv, CallInv
  <2>2. worker[next] = "none"
    BY <1>1, <1>2 DEF IInv, CallInv
  <2> QED
    BY <1>2, <2>1, <2>2 DEF Statuses, TaskStatus, Running
<1>4. CASE worker' = [worker EXCEPT ![next] = "bind"] /\ UNCHANGED errors
  <2>1. Statuses' = [Statuses EXCEPT ![next] = "running"]
    BY <1>2, <1>4 DEF Statuses, TaskStatus, Running, IInv, PlaceInv
  <2>2. ErrorsOf' = ErrorsOf
    BY <1>4 DEF ErrorsOf, Located
  <2> QED
    BY <1>1, <1>2, <1>3, <2>1, <2>2 DEF FJ!Start, Statuses, ErrorsOf
<1>5. CASE /\ worker' = [worker EXCEPT ![next] = "unstarted"]
           /\ errors' = [errors EXCEPT ![next] = Error(next, 0)]
  <2>1. Error(next, 0) # None
    BY <1>2, ActorFacts DEF Error, None
  <2>2. Statuses' = [Statuses EXCEPT ![next] = "failed"]
    BY <1>2, <1>5, <2>1 DEF Statuses, TaskStatus, Running, IInv, PlaceInv, ErrorInv
  <2>3. Located(Error(next, 0)) = Error(next, CallLine)
    BY <2>1 DEF Located, Error
  <2>4. ErrorsOf' = [ErrorsOf EXCEPT ![next] = Error(next, CallLine)]
    BY <1>2, <1>5, <2>3 DEF ErrorsOf, Located, IInv, ErrorInv
  <2>5. FJ!Fails(next)
    BY <2>2, <2>4 DEF FJ!Fails, Statuses, ErrorsOf, WorkerErrors
  <2> QED
    BY <1>1, <1>2, <1>3, <2>5 DEF FJ!Start, Statuses, ErrorsOf
<1> QED
  BY <1>2, <1>4, <1>5 DEF StartWorker

\* A worker that ends with an error is ForkJoin's End.
LEMMA FailSimulation ==
  ASSUME IInv, NEW w \in Workers, Running(w), NEW line \in {0, BodyLine},
         worker' = [worker EXCEPT ![w] = "done"],
         errors' = [errors EXCEPT ![w] = Error(w, line)],
         UNCHANGED outcome
  PROVE  FJ!End(w)
<1>1. Error(w, line) # None
  BY ActorFacts DEF Error, None
<1>2. Statuses[w] = "running"
  BY DEF Statuses, TaskStatus, Running
<1>3. Statuses' = [Statuses EXCEPT ![w] = "failed"]
  BY <1>1 DEF Statuses, TaskStatus, Running, IInv, PlaceInv, ErrorInv
<1>4. Located(Error(w, line)) \in WorkerErrors(w)
  BY <1>1 DEF Located, Error, BodyLine, WorkerErrors
<1>5. ErrorsOf' = [ErrorsOf EXCEPT ![w] = Located(Error(w, line))]
  BY DEF ErrorsOf, Located, IInv, ErrorInv
<1>6. FJ!Fails(w)
  BY <1>3, <1>4, <1>5 DEF FJ!Fails, Statuses, ErrorsOf
<1> QED
  BY <1>2, <1>6 DEF FJ!End, Statuses

\* The steps of a worker are ForkJoin's End or none.
LEMMA WorkerSimulation ==
  ASSUME IInv, NEW w \in Workers, WorkerStep(w)
  PROVE  FJ!End(w) \/ UNCHANGED <<Statuses, ErrorsOf, outcome>>
<1>1. Running(w) /\ UNCHANGED outcome
  BY DEF WorkerStep, BindParameters, EndWorker, Ended, Running
<1>2. errors[w] = None
  BY <1>1 DEF IInv, ErrorInv, Running
<1>3. \/ worker' = [worker EXCEPT ![w] = "run"] /\ UNCHANGED errors
      \/ /\ worker' = [worker EXCEPT ![w] = "done"]
         /\ \/ UNCHANGED errors
            \/ \E line \in {0, BodyLine} : errors' = [errors EXCEPT ![w] = Error(w, line)]
  BY DEF WorkerStep, BindParameters, EndWorker
<1>4. CASE worker' = [worker EXCEPT ![w] = "run"] /\ UNCHANGED errors
  <2>1. \A v \in Workers : TaskStatus(v)' = TaskStatus(v)
    BY <1>1, <1>4 DEF TaskStatus, Running, IInv, PlaceInv
  <2> QED
    BY <1>1, <1>4, <2>1 DEF Statuses, ErrorsOf, Located
<1>5. CASE worker' = [worker EXCEPT ![w] = "done"] /\ UNCHANGED errors
  <2>1. Statuses[w] = "running"
    BY <1>1 DEF Statuses, TaskStatus, Running
  <2>2. Statuses' = [Statuses EXCEPT ![w] = "ok"]
    BY <1>2, <1>5 DEF Statuses, TaskStatus, Running, IInv, PlaceInv
  <2>3. ErrorsOf' = ErrorsOf
    BY <1>5 DEF ErrorsOf, Located
  <2> QED
    BY <1>1, <2>1, <2>2, <2>3 DEF FJ!End, Statuses, ErrorsOf
<1>6. CASE /\ worker' = [worker EXCEPT ![w] = "done"]
           /\ \E line \in {0, BodyLine} : errors' = [errors EXCEPT ![w] = Error(w, line)]
  BY <1>1, <1>6, FailSimulation
<1> QED
  BY <1>3, <1>4, <1>5, <1>6

\* The end of the statement is ForkJoin's Return.
LEMMA EndSimulation == IInv /\ EndParallel => FJ!Return
<1> SUFFICES ASSUME IInv, EndParallel PROVE FJ!Return
  OBVIOUS
<1>1. /\ phase = "join" /\ next > Len(Functions) /\ Len(Functions) \in 0..MaxWorkers
      /\ outcome = Pending /\ outcome' = Located(FirstError)
      /\ UNCHANGED <<worker, errors>>
  BY DEF EndParallel, IInv, CallInv, Calling, PlaceInv
<1>2. \A w \in Workers : ~Running(w)
  BY <1>1, ActorFacts DEF IInv, CallInv, PlaceInv, Running
<1>3. FJ!AllEnded
  BY <1>2 DEF FJ!AllEnded, FJ!Tasks, Workers, TaskStatus
<1>4. FJ!Failed = {w \in Workers : errors[w] # None}
  BY <1>2 DEF FJ!Failed, FJ!Tasks, Workers, TaskStatus, IInv, ErrorInv
<1>5. Located(FirstError) = FJ!FirstError
  <2> DEFINE left == {w \in Workers : errors[w] # None}
             one == CHOOSE w \in left : \A v \in left : w <= v
  <2>1. FJ!FirstError = IF left = {} THEN None ELSE ErrorsOf[one]
    BY <1>4 DEF FJ!FirstError, ErrorsOf
  <2>2. CASE left = {}
    BY <2>1, <2>2 DEF FirstError, Located
  <2>3. CASE left # {}
    <3>1. left \in SUBSET Nat
      BY ActorFacts
    <3>2. \E w \in left : \A v \in left : w <= v
      BY <2>3, <3>1, LeastExists
    <3>3. one \in Workers
      BY <3>2
    <3>4. FirstError = errors[one]
      BY <2>3 DEF FirstError
    <3> QED
      BY <2>1, <2>3, <3>3, <3>4 DEF ErrorsOf
  <2> QED
    BY <2>2, <2>3
<1>6. Statuses' = Statuses /\ ErrorsOf' = ErrorsOf
  BY <1>1 DEF Statuses, ErrorsOf, TaskStatus, Running, Located
<1> QED
  BY <1>1, <1>3, <1>5, <1>6 DEF FJ!Return, Statuses, ErrorsOf

\* The call of PARALLEL is ForkJoin's Begin, unless an argument is no function.
LEMMA CallSimulation ==
  IInv /\ CallParallel => FJ!Begin \/ UNCHANGED <<Statuses, ErrorsOf, outcome>>
<1> SUFFICES ASSUME IInv, CallParallel PROVE FJ!Begin \/ UNCHANGED <<Statuses, ErrorsOf, outcome>>
  OBVIOUS
<1>1. CASE UNCHANGED <<phase, next, errors, worker, outcome>>
  BY <1>1 DEF Statuses, ErrorsOf, TaskStatus, Running, Located
<1>2. CASE /\ errors' = [w \in Workers |-> None] /\ worker' = [w \in Workers |-> "none"]
           /\ outcome' = Pending
  <2>1. phase = "off" /\ outcome # Pending
    BY DEF CallParallel, IInv, PlaceInv
  <2>2. FJ!AllEnded
    BY <2>1 DEF FJ!AllEnded, FJ!Tasks, Workers, TaskStatus, IInv, CallInv
  <2>3. Statuses' = [w \in Workers |-> "none"]
    BY <1>2 DEF Statuses, TaskStatus, Running
  <2>4. ErrorsOf' = [w \in Workers |-> None]
    BY <1>2 DEF ErrorsOf, Located
  <2> QED
    BY <1>2, <2>1, <2>2, <2>3, <2>4 DEF FJ!Begin, FJ!Tasks, Workers, Statuses, ErrorsOf
<1> QED
  BY <1>1, <1>2 DEF CallParallel

\* Every step of the program and its workers is a step of ForkJoin or none.
LEMMA StepSimulation ==
  IInv /\ [Next]_vars => [FJ!Next]_<<Statuses, ErrorsOf, outcome>>
<1> SUFFICES ASSUME IInv, [Next]_vars
             PROVE  FJ!Next \/ UNCHANGED <<Statuses, ErrorsOf, outcome>>
  OBVIOUS
<1>0. FJ!Tasks = Workers
  BY DEF FJ!Tasks, Workers
<1>1. ASSUME UNCHANGED <<worker, errors, outcome>>
      PROVE  UNCHANGED <<Statuses, ErrorsOf, outcome>>
  BY <1>1 DEF Statuses, ErrorsOf, TaskStatus, Running, Located
<1>2. CASE NextStatement \/ AllStarted \/ Join \/ JoinUnstarted \/ UNCHANGED vars
  BY <1>1, <1>2 DEF NextStatement, AllStarted, Join, JoinUnstarted, vars, parVars
<1>3. ASSUME NEW a \in Actors, Execute(a) PROVE UNCHANGED <<Statuses, ErrorsOf, outcome>>
  <2>1. UNCHANGED <<worker, errors, outcome>>
    BY <1>3 DEF Execute, parVars
  <2> QED
    BY <1>1, <2>1
<1>4. CASE CallParallel
  BY <1>4, CallSimulation DEF FJ!Next
<1>5. CASE StartWorker
  BY <1>0, <1>5, StartSimulation DEF FJ!Next
<1>6. CASE EndParallel
  BY <1>6, EndSimulation DEF FJ!Next
<1>7. ASSUME NEW w \in Workers, WorkerStep(w)
      PROVE  FJ!Next \/ UNCHANGED <<Statuses, ErrorsOf, outcome>>
  BY <1>0, <1>7, WorkerSimulation DEF FJ!Next
<1> QED
  BY <1>2, <1>3, <1>4, <1>5, <1>6, <1>7 DEF Next, ParentStep

\* PARALLEL implements ForkJoin for every program and number of workers: it waits for
\* the workers it has started and ends with the error of the first that failed.
THEOREM ForkJoinRefined == Spec => ForkJoinSpec
<1>1. Init => FJ!Init
  <2> SUFFICES ASSUME Init PROVE FJ!Init
    OBVIOUS
  <2>1. errors = [w \in Workers |-> None] /\ worker = [w \in Workers |-> "none"] /\ outcome = None
    BY DEF Init
  <2> QED
    BY <2>1 DEF FJ!Init, FJ!Tasks, Workers, TaskStatus, Running, Located
<1> QED
  BY <1>1, Invariance, StepSimulation, PTL
  DEF Spec, ForkJoinSpec, FJ!Spec, Statuses, ErrorsOf

-----------------------------------------------------------------------------
(* Environments. *)

\* The environment that has a name: the one asked, or its parent.
LEMMA HolderIs ==
  ASSUME NEW es, Forest(es), NEW e \in DOMAIN es, NEW name
  PROVE  /\ At(es, e, name) # {} => Holder(es, e, name) = e
         /\ At(es, e, name) = {} /\ es[e].parent # 0 /\ At(es, es[e].parent, name) # {}
              => Holder(es, e, name) = es[e].parent
         /\ At(es, e, name) = {} /\ (es[e].parent = 0 \/ At(es, es[e].parent, name) = {})
              => Holder(es, e, name) = 0
<1> DEFINE c == Chain(es, e)
           hits == {i \in DOMAIN c : At(es, c[i], name) # {}}
           one == CHOOSE i \in hits : \A j \in hits : i <= j
<1>1. Holder(es, e, name) = IF hits = {} THEN 0 ELSE c[one]
  BY DEF Holder, Nearest
<1>2. CASE es[e].parent = 0
  <2>1. DOMAIN c = {1} /\ c[1] = e
    BY <1>2 DEF Chain
  <2>2. hits = IF At(es, e, name) # {} THEN {1} ELSE {}
    BY <2>1
  <2>3. At(es, e, name) # {} => one = 1
    BY <2>2
  <2> HIDE DEF c, hits, one
  <2> QED
    BY <1>1, <1>2, <2>1, <2>2, <2>3
<1>3. CASE es[e].parent # 0
  <2>1. DOMAIN c = {1, 2} /\ c[1] = e /\ c[2] = es[e].parent
    BY <1>3 DEF Chain
  <2>2. hits \subseteq {1, 2} /\ (1 \in hits <=> At(es, e, name) # {})
        /\ (2 \in hits <=> At(es, es[e].parent, name) # {})
    BY <2>1
  <2>3. 1 \in hits => one = 1
    BY <2>2
  <2>4. 1 \notin hits /\ 2 \in hits => one = 2
    BY <2>2
  <2> HIDE DEF c, hits, one
  <2> QED
    BY <1>1, <1>3, <2>1, <2>2, <2>3, <2>4
<1> QED
  BY <1>2, <1>3

\* A list with another element in a place.
LEMMA Updated ==
  ASSUME NEW q, IsList(q), NEW i \in DOMAIN q, NEW x
  PROVE  IsList([q EXCEPT ![i] = x])
<1>1. PICK S : q \in Seq(S)
  BY DEF IsList
<1> DEFINE T == S \cup {x}
<1>2. q \in Seq(T) /\ x \in T
  BY <1>1
<1> HIDE DEF T
<1>3. [q EXCEPT ![i] = x] \in Seq(T)
  BY <1>2
<1> QED
  BY <1>3 DEF IsList

\* The entry of a name gets a value.
LEMMA EntryInit ==
  ASSUME NEW x, IsEnv(x), NEW i \in DOMAIN x.entries,
         NEW y, y = [x EXCEPT !.entries[i].init = TRUE]
  PROVE  /\ IsEnv(y) /\ Grown(x, y) /\ y.parent = x.parent /\ y.loaded = x.loaded
         /\ DOMAIN y.entries = DOMAIN x.entries /\ y.entries[i].init
         /\ \A j \in DOMAIN x.entries : y.entries[j].name = x.entries[j].name
<1> DEFINE old == x.entries
           en == Entry(old[i].name, old[i].type, TRUE)
           new == [old EXCEPT ![i] = en]
<1>1. old[i] = Entry(old[i].name, old[i].type, old[i].init)
  BY DEF IsEnv
<1>2. [old[i] EXCEPT !.init = TRUE] = en
  <2>1. ASSUME NEW r, NEW n, NEW t, NEW v, NEW w,
               r = [name |-> n, type |-> t, init |-> v]
        PROVE  [r EXCEPT !.init = w] = [name |-> n, type |-> t, init |-> w]
    BY <2>1
  <2>2. \A w : [old[i] EXCEPT !.init = w] = Entry(old[i].name, old[i].type, w)
    BY <1>1, <2>1 DEF Entry
  <2> QED
    BY <2>2, Zenon
<1>3. y = [x EXCEPT !.entries = new]
  BY <1>2
<1>4. en.name = old[i].name /\ en.type = old[i].type /\ en.init = TRUE
      /\ en = Entry(en.name, en.type, en.init)
  BY DEF Entry
<1>5. IsList(old)
  BY DEF IsEnv
<1> HIDE DEF en
<1>6. IsList(new)
  BY <1>5, Updated
<1>7. \A j \in DOMAIN old : new[j] = IF j = i THEN en ELSE old[j]
  OBVIOUS
<1>8. DOMAIN new = DOMAIN old
  OBVIOUS
<1> HIDE DEF new
<1>9. y.entries = new /\ y.parent = x.parent /\ y.loaded = x.loaded /\ y.source = x.source
      /\ y.scope = x.scope /\ y.extensions = x.extensions
  BY <1>3 DEF IsEnv
<1>10. y = [entries |-> new, parent |-> x.parent, source |-> x.source, scope |-> x.scope,
            loaded |-> x.loaded, extensions |-> x.extensions]
  BY <1>3 DEF IsEnv
<1>11. \A j \in DOMAIN old : /\ new[j] = Entry(new[j].name, new[j].type, new[j].init)
                             /\ new[j].name = old[j].name /\ new[j].type = old[j].type
                             /\ (j = i => new[j].init = TRUE) /\ (j # i => new[j] = old[j])
  BY <1>4, <1>7 DEF IsEnv
<1>12. IsEnv(y)
  <2>1. y = [entries |-> y.entries, parent |-> y.parent, source |-> y.source,
             scope |-> y.scope, loaded |-> y.loaded, extensions |-> y.extensions]
    BY <1>9, <1>10
  <2>2. IsList(y.entries) /\ IsList(y.extensions)
    BY <1>6, <1>9 DEF IsEnv
  <2>3. \A j \in DOMAIN y.entries :
          y.entries[j] = Entry(y.entries[j].name, y.entries[j].type, y.entries[j].init)
    BY <1>8, <1>9, <1>11
  <2> QED
    BY <2>1, <2>2, <2>3 DEF IsEnv
<1>13. Grown(x, y)
  BY <1>8, <1>9, <1>11 DEF Grown
<1> QED
  BY <1>8, <1>9, <1>11, <1>12, <1>13

\* The directory of a module is a field of its own.
LEMMA SourceSet ==
  ASSUME NEW x, IsEnv(x), NEW w, NEW y, y = [x EXCEPT !.source = w]
  PROVE  /\ IsEnv(y) /\ Grown(x, y) /\ y.parent = x.parent /\ y.entries = x.entries
         /\ y.loaded = x.loaded
<1>1. y = [entries |-> x.entries, parent |-> x.parent, source |-> w,
           scope |-> x.scope, loaded |-> x.loaded, extensions |-> x.extensions]
  BY DEF IsEnv
<1>2. /\ y.entries = x.entries /\ y.parent = x.parent /\ y.source = w
      /\ y.scope = x.scope /\ y.loaded = x.loaded /\ y.extensions = x.extensions
  BY <1>1
<1>3. y = [entries |-> y.entries, parent |-> y.parent, source |-> y.source,
           scope |-> y.scope, loaded |-> y.loaded, extensions |-> y.extensions]
  BY <1>1, <1>2
<1> QED
  BY <1>2, <1>3 DEF IsEnv, Grown

\* The same of the extension namespaces.
LEMMA ExtensionsSet ==
  ASSUME NEW x, IsEnv(x), NEW w, IsList(w), NEW y, y = [x EXCEPT !.extensions = w]
  PROVE  /\ IsEnv(y) /\ Grown(x, y) /\ y.parent = x.parent /\ y.entries = x.entries
         /\ y.loaded = x.loaded
<1>1. y = [entries |-> x.entries, parent |-> x.parent, source |-> x.source,
           scope |-> x.scope, loaded |-> x.loaded, extensions |-> w]
  BY DEF IsEnv
<1>2. /\ y.entries = x.entries /\ y.parent = x.parent /\ y.source = x.source
      /\ y.scope = x.scope /\ y.loaded = x.loaded /\ y.extensions = w
  BY <1>1
<1>3. y = [entries |-> y.entries, parent |-> y.parent, source |-> y.source,
           scope |-> y.scope, loaded |-> y.loaded, extensions |-> y.extensions]
  BY <1>1, <1>2
<1> QED
  BY <1>2, <1>3 DEF IsEnv, Grown

\* A module that gets loaded has grown.
LEMMA LoadedSet ==
  ASSUME NEW x, IsEnv(x), NEW w, w, NEW y, y = [x EXCEPT !.loaded = w]
  PROVE  /\ IsEnv(y) /\ Grown(x, y) /\ y.parent = x.parent /\ y.entries = x.entries
         /\ y.loaded = w
<1>1. y = [entries |-> x.entries, parent |-> x.parent, source |-> x.source,
           scope |-> x.scope, loaded |-> w, extensions |-> x.extensions]
  BY DEF IsEnv
<1>2. /\ y.entries = x.entries /\ y.parent = x.parent /\ y.source = x.source
      /\ y.scope = x.scope /\ y.loaded = w /\ y.extensions = x.extensions
  BY <1>1
<1>3. y = [entries |-> y.entries, parent |-> y.parent, source |-> y.source,
           scope |-> y.scope, loaded |-> y.loaded, extensions |-> y.extensions]
  BY <1>1, <1>2
<1> QED
  BY <1>2, <1>3 DEF IsEnv, Grown

\* An environment gets an entry.
LEMMA EntryAdded ==
  ASSUME NEW x, IsEnv(x), NEW name, NEW type, NEW init,
         NEW new, new = Append(x.entries, Entry(name, type, init)),
         NEW y, y = [x EXCEPT !.entries = new]
  PROVE  /\ IsEnv(y) /\ Grown(x, y) /\ y.parent = x.parent /\ y.loaded = x.loaded
         /\ Len(x.entries) \in Nat /\ DOMAIN x.entries = 1..Len(x.entries)
         /\ DOMAIN y.entries = 1..(Len(x.entries) + 1)
         /\ y.entries[Len(x.entries) + 1] = Entry(name, type, init)
         /\ \A j \in DOMAIN x.entries : y.entries[j] = x.entries[j]
<1> DEFINE en == Entry(name, type, init)
<1>1. /\ IsList(new)
      /\ Len(x.entries) \in Nat /\ DOMAIN x.entries = 1..Len(x.entries)
      /\ DOMAIN new = 1..(Len(x.entries) + 1)
      /\ new[Len(x.entries) + 1] = en
      /\ \A i \in DOMAIN x.entries : new[i] = x.entries[i]
  BY Extended DEF IsEnv
<1>2. en = Entry(en.name, en.type, en.init)
  BY DEF Entry
<1>3. en = Entry(name, type, init)
  OBVIOUS
<1> HIDE DEF en
<1>5. y = [entries |-> new, parent |-> x.parent, source |-> x.source, scope |-> x.scope,
           loaded |-> x.loaded, extensions |-> x.extensions]
  BY DEF IsEnv
<1>6. y.entries = new /\ y.parent = x.parent /\ y.loaded = x.loaded
      /\ y.scope = x.scope /\ y.extensions = x.extensions /\ y.source = x.source
  BY <1>5
<1>7. y = [entries |-> y.entries, parent |-> y.parent, source |-> y.source,
           scope |-> y.scope, loaded |-> y.loaded, extensions |-> y.extensions]
  BY <1>5, <1>6
<1>8. \A j \in DOMAIN new : j \in DOMAIN x.entries \/ j = Len(x.entries) + 1
  BY <1>1
<1>9. \A j \in DOMAIN new : new[j] = Entry(new[j].name, new[j].type, new[j].init)
  BY <1>1, <1>2, <1>8 DEF IsEnv
<1>10. IsEnv(y)
  BY <1>1, <1>6, <1>7, <1>9 DEF IsEnv
<1>11. \A j \in DOMAIN x.entries : j \in DOMAIN new
  BY <1>1
<1>12. Grown(x, y)
  BY <1>1, <1>6, <1>11 DEF Grown
<1> QED
  BY <1>1, <1>3, <1>6, <1>10, <1>12

\* An environment in a forest is replaced by one that has grown from it.
LEMMA Replaced ==
  ASSUME NEW es, Forest(es), NEW e \in DOMAIN es, NEW y, IsEnv(y), Grown(es[e], y),
         NEW fs, fs = [es EXCEPT ![e] = y]
  PROVE  /\ Forest(fs) /\ Grows(es, fs) /\ DOMAIN fs = DOMAIN es /\ fs[e] = y
         /\ \A x \in DOMAIN es : x # e => fs[x] = es[x]
<1>1. IsList(fs)
  BY Updated DEF Forest
<1>2. DOMAIN fs = DOMAIN es /\ fs[e] = y /\ \A x \in DOMAIN es : x # e => fs[x] = es[x]
  OBVIOUS
<1>3. y.parent = es[e].parent
  BY DEF Grown
<1>4. \A x \in DOMAIN es : Grown(es[x], es[x])
  BY DEF Grown, Forest, IsEnv
<1>5. Grows(es, fs)
  BY <1>2, <1>4 DEF Grows
<1>6. Forest(fs)
  BY <1>1, <1>2, <1>3 DEF Forest
<1> QED
  BY <1>2, <1>5, <1>6

\* Growth, of one environment and of all, composes.
LEMMA GrowsMore ==
  ASSUME NEW es, NEW fs, NEW gs, Grows(es, fs), Grows(fs, gs)
  PROVE  Grows(es, gs)
BY DEF Grows, Grown

\* What is the same has grown.
LEMMA GrowsNot ==
  ASSUME NEW es
  PROVE  Grows(es, es)
BY DEF Grows, Grown

\* A name that is found stays found, with its type.
LEMMA HolderStays ==
  ASSUME NEW es, Forest(es), NEW fs, Forest(fs), Grows(es, fs), NEW e \in DOMAIN es, NEW name,
         Holder(es, e, name) # 0
  PROVE  Holder(fs, e, name) # 0
<1>1. \A x \in DOMAIN es : At(es, x, name) # {} => At(fs, x, name) # {}
  BY DEF At, Grows, Grown
<1>2. e \in DOMAIN fs /\ fs[e].parent = es[e].parent
  BY DEF Grows, Grown
<1>3. es[e].parent # 0 => es[e].parent \in DOMAIN es
  BY DEF Forest
<1>4. e # 0
  BY DEF Forest, IsList
<1> QED
  BY <1>1, <1>2, <1>3, <1>4, HolderIs

\* The names an environment holds it keeps.
LEMMA HoldsStays ==
  ASSUME NEW x, NEW y, Grown(x, y), NEW body, NEW k, Holds(x, body, k)
  PROVE  Holds(y, body, k)
BY DEF Grown, Holds, HasValue

\* Of the environments of calls only e has changed.
Only(es, fs, e) == \A x \in DOMAIN es : x # e /\ es[x].parent # 0 => fs[x] = es[x]

\* What bindings into e do to a forest: no module gets loaded by them.
Leads(es, fs, e) ==
  /\ Forest(fs) /\ Grows(es, fs) /\ DOMAIN fs = DOMAIN es /\ Only(es, fs, e)
  /\ \A x \in DOMAIN es : fs[x].loaded = es[x].loaded

\* Two such lists of bindings one after the other are one.
LEMMA LeadsMore ==
  ASSUME NEW es, NEW fs, NEW gs, NEW e, Leads(es, fs, e), Leads(fs, gs, e)
  PROVE  Leads(es, gs, e)
<1>1. Grows(es, gs)
  BY GrowsMore DEF Leads
<1>2. Only(es, gs, e)
  BY DEF Leads, Only, Grows, Grown
<1> QED
  BY <1>1, <1>2 DEF Leads

\* No binding is such a list too.
LEMMA LeadsNot ==
  ASSUME NEW es, Forest(es), NEW e
  PROVE  Leads(es, es, e)
BY GrowsNot DEF Leads, Only

\* One environment replaced is such a step.
LEMMA ReplacedLeads ==
  ASSUME NEW es, Forest(es), NEW e, NEW x \in DOMAIN es, x = e \/ es[x].parent = 0,
         NEW y, IsEnv(y), Grown(es[x], y),
         y.loaded = es[x].loaded, NEW fs, fs = [es EXCEPT ![x] = y]
  PROVE  /\ Leads(es, fs, e) /\ fs[x] = y
         /\ \A z \in DOMAIN es : z # x => fs[z] = es[z]
<1>2. /\ Forest(fs) /\ Grows(es, fs) /\ DOMAIN fs = DOMAIN es /\ fs[x] = y
      /\ \A z \in DOMAIN es : z # x => fs[z] = es[z]
  BY Replaced
<1>3. Only(es, fs, e)
  BY <1>2 DEF Only
<1>4. Leads(es, fs, e)
  BY <1>2, <1>3 DEF Leads
<1> QED
  BY <1>2, <1>4

\* A name that is defined is one the environment has.
LEMMA DefineLeads ==
  ASSUME NEW es, Forest(es), NEW e \in DOMAIN es, NEW name, NEW type, NEW init,
         NEW fs, fs = Define(es, e, name, type, init)
  PROVE  /\ Leads(es, fs, e) /\ At(fs, e, name) # {}
         /\ \A x \in DOMAIN es : x # e => fs[x] = es[x]
         /\ At(es, e, name) = {} =>
              \E n \in DOMAIN fs[e].entries : /\ At(fs, e, name) = {n}
                                              /\ fs[e].entries[n] = Entry(name, type, init)
<1>1. CASE At(es, e, name) # {}
  BY <1>1, LeadsNot DEF Define
<1>2. CASE At(es, e, name) = {}
  <2> DEFINE new == Append(es[e].entries, Entry(name, type, init))
             y == [es[e] EXCEPT !.entries = new]
             n == Len(es[e].entries) + 1
  <2>1. IsEnv(es[e])
    BY DEF Forest
  <2>2. fs = [es EXCEPT ![e] = y]
    BY <1>2 DEF Define
  <2>3. new = Append(es[e].entries, Entry(name, type, init)) /\ y = [es[e] EXCEPT !.entries = new]
    OBVIOUS
  <2> HIDE DEF y, new
  <2>4. /\ IsEnv(y) /\ Grown(es[e], y) /\ y.loaded = es[e].loaded
        /\ Len(es[e].entries) \in Nat /\ DOMAIN es[e].entries = 1..Len(es[e].entries)
        /\ DOMAIN y.entries = 1..(Len(es[e].entries) + 1)
        /\ y.entries[Len(es[e].entries) + 1] = Entry(name, type, init)
        /\ \A j \in DOMAIN es[e].entries : y.entries[j] = es[e].entries[j]
    BY <2>1, <2>3, EntryAdded
  <2>5. Leads(es, fs, e) /\ fs[e] = y /\ \A z \in DOMAIN es : z # e => fs[z] = es[z]
    BY <2>2, <2>4, ReplacedLeads
  <2>6. n \in DOMAIN y.entries /\ y.entries[n].name = name
    BY <2>4 DEF Entry
  <2>7. \A j \in DOMAIN y.entries : y.entries[j].name = name => j = n
    <3>1. \A j \in DOMAIN es[e].entries : es[e].entries[j].name # name
      BY <1>2 DEF At
    <3>2. \A j \in DOMAIN y.entries : j = n \/ j \in DOMAIN es[e].entries
      BY <2>4
    <3> QED
      BY <2>4, <3>1, <3>2
  <2>8. At(fs, e, name) = {n}
    BY <2>5, <2>6, <2>7 DEF At
  <2> QED
    BY <2>4, <2>5, <2>6, <2>8
<1> QED
  BY <1>1, <1>2

\* A name that is assigned has a value; one of the type that is declared keeps it.
LEMMA AssignLeads ==
  ASSUME NEW es, Forest(es), NEW e \in DOMAIN es, NEW name, NEW type,
         NEW fs, fs = Assign(es, e, name, type)
  PROVE  /\ Leads(es, fs, e)
         /\ Holder(fs, e, name) \in DOMAIN fs /\ Holder(fs, e, name) # 0
         /\ \E j \in DOMAIN fs[Holder(fs, e, name)].entries :
              /\ fs[Holder(fs, e, name)].entries[j].name = name
              /\ fs[Holder(fs, e, name)].entries[j].init
         /\ CanAssign(es, e, name, type) => TypeOf(fs, Holder(fs, e, name), name) = type
<1> DEFINE h == Holder(es, e, name)
<1>1. e # 0 /\ (es[e].parent # 0 => es[e].parent \in DOMAIN es /\ es[es[e].parent].parent = 0)
  BY DEF Forest, IsList
<1>2. CASE h = 0
  <2>1. fs = Define(es, e, name, type, TRUE) /\ At(es, e, name) = {}
    BY <1>1, <1>2, HolderIs DEF Assign
  <2>2. Leads(es, fs, e) /\ At(fs, e, name) # {}
    BY <2>1, DefineLeads
  <2>3. PICK n \in DOMAIN fs[e].entries : /\ At(fs, e, name) = {n}
                                          /\ fs[e].entries[n] = Entry(name, type, TRUE)
    <3>1. ASSUME NEW v, fs = Define(es, e, name, type, v)
          PROVE  \E n \in DOMAIN fs[e].entries :
                   At(fs, e, name) = {n} /\ fs[e].entries[n] = Entry(name, type, v)
      <4>1. At(es, e, name) = {}
        BY <2>1
      <4> QED
        BY <3>1, <4>1, DefineLeads
    <3> QED
      BY <2>1, <3>1, Zenon
  <2>4. Forest(fs) /\ e \in DOMAIN fs
    BY <2>2 DEF Leads
  <2>5. Holder(fs, e, name) = e
    BY <2>2, <2>4, HolderIs
  <2>6. fs[e].entries[n].name = name /\ fs[e].entries[n].type = type
        /\ fs[e].entries[n].init = TRUE
    BY <2>3 DEF Entry
  <2>7. TypeOf(fs, e, name) = type
    BY <2>3, <2>6 DEF TypeOf
  <2> QED
    BY <1>1, <2>2, <2>4, <2>5, <2>6, <2>7
<1>3. CASE h # 0
  <2> DEFINE i == CHOOSE i \in At(es, h, name) : TRUE
             y == [es[h] EXCEPT !.entries[i].init = TRUE]
  <2>1. h \in DOMAIN es /\ At(es, h, name) # {} /\ (h = e \/ (h = es[e].parent /\ es[h].parent = 0))
    BY <1>1, <1>3, HolderIs
  <2>2. i \in At(es, h, name)
    BY <2>1
  <2>3. fs = [es EXCEPT ![h] = y]
    BY <1>3 DEF Assign
  <2>4. IsEnv(es[h]) /\ i \in DOMAIN es[h].entries
    BY <2>1, <2>2 DEF Forest, At
  <2>5. y = [es[h] EXCEPT !.entries[i].init = TRUE]
    OBVIOUS
  <2>6. TypeOf(es, h, name) = es[h].entries[i].type
    BY DEF TypeOf
  <2> HIDE DEF h, y
  <2>7. i = CHOOSE j \in At(es, h, name) : TRUE
    OBVIOUS
  <2> HIDE DEF i
  <2>8. /\ IsEnv(y) /\ Grown(es[h], y) /\ y.loaded = es[h].loaded
        /\ DOMAIN y.entries = DOMAIN es[h].entries /\ y.entries[i].init
        /\ \A j \in DOMAIN es[h].entries : y.entries[j].name = es[h].entries[j].name
    BY <2>4, <2>5, EntryInit
  <2>9. Leads(es, fs, e) /\ fs[h] = y /\ \A z \in DOMAIN es : z # h => fs[z] = es[z]
    <3>1. h \in DOMAIN es /\ (h = e \/ es[h].parent = 0) /\ IsEnv(y) /\ Grown(es[h], y) /\ y.loaded = es[h].loaded
      BY <2>1, <2>8
    <3> QED
      BY <2>3, <3>1, ReplacedLeads
  <2>10. At(fs, h, name) = At(es, h, name)
    BY <2>8, <2>9 DEF At
  <2>11. Forest(fs) /\ e \in DOMAIN fs /\ fs[e].parent = es[e].parent /\ h \in DOMAIN fs
    BY <2>1, <2>9 DEF Leads, Grows, Grown
  <2>12. Holder(fs, e, name) = h
    <3>1. CASE At(es, e, name) # {}
      <4>1. h = e
        BY <3>1, HolderIs DEF h
      <4> QED
        BY <2>1, <2>10, <2>11, <4>1, HolderIs
    <3>2. CASE At(es, e, name) = {}
      <4>1. h = es[e].parent /\ h # 0 /\ h # e
        BY <1>3, <2>1, <3>2, HolderIs DEF h
      <4>2. At(fs, e, name) = {}
        BY <2>9, <3>2, <4>1 DEF At
      <4> QED
        BY <2>1, <2>10, <2>11, <4>1, <4>2, HolderIs
    <3> QED
      BY <3>1, <3>2
  <2>13. y.entries[i].name = name /\ i \in DOMAIN y.entries
    BY <2>2, <2>4, <2>8 DEF At
  <2>14. TypeOf(fs, h, name) = y.entries[i].type
    BY <2>7, <2>9, <2>10 DEF TypeOf
  <2>15. y.entries[i].type = es[h].entries[i].type
    BY <2>4, <2>8 DEF Grown
  <2>16. CanAssign(es, e, name, type) => es[h].entries[i].type = type
    BY <1>3, <2>6 DEF CanAssign, h
  <2> QED
    BY <1>3, <2>8, <2>9, <2>11, <2>12, <2>13, <2>14, <2>15, <2>16 DEF h
<1> QED
  BY <1>2, <1>3

-----------------------------------------------------------------------------
(* The bindings a caller gets. *)

\* The state in which bindings are made.
IsState(s) == s = [envs |-> s.envs, loaded |-> s.loaded, operators |-> s.operators, ok |-> s.ok]

\* A state with one field replaced.
LEMMA StateSet ==
  ASSUME NEW s, IsState(s), NEW w, NEW y
  PROVE  /\ y = [s EXCEPT !.envs = w] => IsState(y) /\ y.envs = w /\ y.ok = s.ok
         /\ y = [s EXCEPT !.ok = w] => IsState(y) /\ y.envs = s.envs /\ y.ok = w
         /\ y = [s EXCEPT !.loaded = w] => IsState(y) /\ y.envs = s.envs /\ y.ok = s.ok
         /\ y = [s EXCEPT !.operators = w] => IsState(y) /\ y.envs = s.envs /\ y.ok = s.ok
<1>1. CASE y = [s EXCEPT !.envs = w]
  <2>1. y = [envs |-> w, loaded |-> s.loaded, operators |-> s.operators, ok |-> s.ok]
    BY <1>1 DEF IsState
  <2> QED
    BY <2>1 DEF IsState
<1>2. CASE y = [s EXCEPT !.ok = w]
  <2>1. y = [envs |-> s.envs, loaded |-> s.loaded, operators |-> s.operators, ok |-> w]
    BY <1>2 DEF IsState
  <2> QED
    BY <2>1 DEF IsState
<1>3. CASE y = [s EXCEPT !.loaded = w]
  <2>1. y = [envs |-> s.envs, loaded |-> w, operators |-> s.operators, ok |-> s.ok]
    BY <1>3 DEF IsState
  <2> QED
    BY <2>1 DEF IsState
<1>4. CASE y = [s EXCEPT !.operators = w]
  <2>1. y = [envs |-> s.envs, loaded |-> s.loaded, operators |-> w, ok |-> s.ok]
    BY <1>4 DEF IsState
  <2> QED
    BY <2>1 DEF IsState
<1> QED
  BY <1>1, <1>2, <1>3, <1>4

\* An exposure changes no environment.
LEMMA ExposeKeeps ==
  ASSUME NEW s, IsState(s), NEW name, NEW scope, NEW y, y = ExposeNamed(s, name, scope)
  PROVE  IsState(y) /\ y.envs = s.envs /\ y.ok = s.ok
<1>1. CASE y = s
  BY <1>1
<1>2. CASE \E i, A, B : y = [s EXCEPT !.loaded[i].exposures = A, !.operators = B]
  <2>1. PICK i, A, B : y = [s EXCEPT !.loaded[i].exposures = A, !.operators = B]
    BY <1>2
  <2> DEFINE r == [s EXCEPT !.loaded[i].exposures = A]
  <2>2. y = [r EXCEPT !.operators = B]
    BY <2>1
  <2>3. r = [s EXCEPT !.loaded = [@ EXCEPT ![i].exposures = A]]
    OBVIOUS
  <2> HIDE DEF r
  <2>4. IsState(r) /\ r.envs = s.envs /\ r.ok = s.ok
    BY <2>3, StateSet
  <2> QED
    BY <2>2, <2>4, StateSet
<1> QED
  BY <1>1, <1>2 DEF ExposeNamed, ExposeScope

\* What steps of bindings into e do; an error stays one.
Kept(s, t, e) == IsState(t) /\ Leads(s.envs, t.envs, e) /\ (t.ok => s.ok)

\* What is kept by two steps is kept by both.
LEMMA KeptMore ==
  ASSUME NEW s, NEW t, NEW u, NEW e, Kept(s, t, e), Kept(t, u, e)
  PROVE  Kept(s, u, e)
<1>1. Leads(s.envs, u.envs, e)
  BY LeadsMore DEF Kept
<1> QED
  BY <1>1 DEF Kept

\* A state in which bindings into e can go on.
Bindable(s, e) == IsState(s) /\ Forest(s.envs) /\ e \in DOMAIN s.envs

\* Bindings can go on after bindings.
LEMMA KeptBindable ==
  ASSUME NEW s, NEW t, NEW e, Bindable(s, e), Kept(s, t, e)
  PROVE  Bindable(t, e)
BY DEF Bindable, Kept, Leads

\* No binding keeps the state.
LEMMA KeptNot ==
  ASSUME NEW s, NEW e, Bindable(s, e)
  PROVE  Kept(s, s, e)
BY LeadsNot DEF Bindable, Kept

\* One step, after which the name is there.
LEMMA BindKeeps ==
  ASSUME NEW s, NEW e, Bindable(s, e), NEW step, NEW t, t = Bind(s, e, step)
  PROVE  /\ Kept(s, t, e)
         /\ t.ok /\ step.kind \in {"assign", "ensure"} => Holder(t.envs, e, step.name) # 0
<1>0. IsState(s) /\ Forest(s.envs) /\ e \in DOMAIN s.envs /\ Leads(s.envs, s.envs, e)
  BY LeadsNot DEF Bindable
<1>1. CASE t = s /\ (~s.ok \/ step.kind = "skip" \/ Holder(s.envs, e, step.name) # 0)
  BY <1>0, <1>1 DEF Kept
<1>2. CASE step.kind = "expose" /\ t = ExposeNamed(s, step.name[2], step.name[1])
  <2>1. IsState(t) /\ t.envs = s.envs /\ t.ok = s.ok
    BY <1>0, <1>2, ExposeKeeps
  <2> QED
    BY <1>0, <1>2, <2>1 DEF Kept
<1>3. CASE t = [s EXCEPT !.envs = Assign(@, e, step.name, step.type)]
  <2> DEFINE fs == Assign(s.envs, e, step.name, step.type)
  <2>1. Leads(s.envs, fs, e) /\ Holder(fs, e, step.name) # 0
    BY <1>0, AssignLeads
  <2>2. t = [s EXCEPT !.envs = fs]
    BY <1>3
  <2> HIDE DEF fs
  <2>3. IsState(t) /\ t.envs = fs /\ t.ok = s.ok
    BY <1>0, <2>2, StateSet
  <2> QED
    BY <2>1, <2>3 DEF Kept
<1>4. CASE t = [s EXCEPT !.ok = FALSE]
  <2>1. \A w : t = [s EXCEPT !.ok = w] => IsState(t) /\ t.envs = s.envs /\ t.ok = w
    BY <1>0, StateSet
  <2>2. IsState(t) /\ t.envs = s.envs /\ t.ok = FALSE
    BY <1>4, <2>1, Zenon
  <2> QED
    BY <1>0, <2>2 DEF Kept
<1> QED
  BY <1>1, <1>2, <1>3, <1>4 DEF Bind

\* BindAll as a fold with its parameters, and what holds after k steps.
BindStep(c, s, step) == Bind(s, c.env, step)

Bound(c, k, s) ==
  /\ Kept(c.start, s, c.env)
  /\ s.ok => \A i \in 1..k : c.steps[i].kind \in {"assign", "ensure"} =>
                               Holder(s.envs, c.env, c.steps[i].name) # 0

Binding == INSTANCE Induction WITH Op <- BindStep, P <- Bound

\* A list of steps keeps the forest and, without an error, binds every name.
LEMMA BindAllKeeps ==
  ASSUME NEW s, NEW e, Bindable(s, e), NEW steps, IsList(steps), NEW t, t = BindAll(s, e, steps)
  PROVE  /\ Kept(s, t, e)
         /\ t.ok => \A i \in DOMAIN steps : steps[i].kind \in {"assign", "ensure"} =>
                                              Holder(t.envs, e, steps[i].name) # 0
<1> DEFINE c == [env |-> e, start |-> s, steps |-> steps]
           n == Len(steps)
<1>0. c.env = e /\ c.start = s /\ c.steps = steps
  OBVIOUS
<1>1. n \in Nat /\ DOMAIN steps = 1..n
  BY DEF IsList
<1>2. t = Binding!Fold(c, s, steps)
  BY DEF BindAll, BindStep, Binding!Fold, FoldLeft, MapThenFoldSet, Binding!Greatest, Max
<1> HIDE DEF c, n
<1>3. Bound(c, 0, s)
  BY <1>0, KeptNot DEF Bound
<1>4. ASSUME NEW i \in 1..n, NEW r, Bound(c, i - 1, r)
      PROVE  Bound(c, i, BindStep(c, r, steps[i]))
  <2> DEFINE u == BindStep(c, r, steps[i])
  <2>1. Kept(s, r, e)
    BY <1>0, <1>4 DEF Bound
  <2>2. Bindable(r, e)
    BY <2>1, KeptBindable
  <2>3. u = Bind(r, e, steps[i])
    BY <1>0 DEF BindStep
  <2> HIDE DEF u
  <2>4. /\ Kept(r, u, e)
        /\ u.ok /\ steps[i].kind \in {"assign", "ensure"} => Holder(u.envs, e, steps[i].name) # 0
    BY <2>2, <2>3, BindKeeps
  <2>5. Kept(s, u, e)
    BY <2>1, <2>4, KeptMore
  <2>6. ASSUME u.ok, NEW j \in 1..i, steps[j].kind \in {"assign", "ensure"}
        PROVE  Holder(u.envs, e, steps[j].name) # 0
    <3>1. CASE j = i
      BY <2>4, <2>6, <3>1
    <3>2. CASE j # i
      <4>1. j \in 1..(i - 1) /\ r.ok
        BY <2>4, <2>6, <3>2 DEF Kept
      <4>2. Holder(r.envs, e, steps[j].name) # 0
        BY <1>0, <1>4, <2>6, <4>1 DEF Bound
      <4>3. Forest(r.envs) /\ Forest(u.envs) /\ Grows(r.envs, u.envs) /\ e \in DOMAIN r.envs
        BY <2>2, <2>4 DEF Bindable, Kept, Leads
      <4> QED
        BY <4>2, <4>3, HolderStays
    <3> QED
      BY <3>1, <3>2
  <2>7. Bound(c, i, u)
    BY <1>0, <2>5, <2>6 DEF Bound
  <2> QED
    BY <2>7 DEF u
<1>5. Bound(c, n, Binding!Fold(c, s, steps))
  BY <1>1, <1>3, <1>4, Binding!FoldInduct
<1> QED
  BY <1>0, <1>1, <1>2, <1>5 DEF Bound

\* The steps for the entries of an environment are a list.
LEMMA PrefixedList ==
  ASSUME NEW prefix, NEW entries, IsList(entries)
  PROVE  IsList(Prefixed(prefix, entries)) /\ DOMAIN Prefixed(prefix, entries) = DOMAIN entries
<1> DEFINE f == Prefixed(prefix, entries)
           S == {f[i] : i \in DOMAIN entries}
<1>1. f = [i \in DOMAIN entries |-> f[i]]
  BY DEF Prefixed
<1>2. DOMAIN entries = 1..Len(entries) /\ Len(entries) \in Nat
  BY DEF IsList
<1> HIDE DEF f
<1>3. f \in [1..Len(entries) -> S]
  BY <1>1, <1>2
<1>4. f \in Seq(S)
  BY <1>2, <1>3
<1> QED
  BY <1>1, <1>4 DEF IsList, f

\* The bindings of an extension's names under an alias are a list.
LEMMA NamespaceList ==
  ASSUME NEW alias, NEW space, NEW entries, IsList(entries)
  PROVE  IsList(NamespaceSteps(alias, space, entries))
<1> DEFINE x == Do("expose", <<alias, space>>, Str)
           y == Do("ensure", <<alias, space>>, Str)
           q == Prefixed(<<alias, space>>, entries)
<1>1. NamespaceSteps(alias, space, entries) = <<x, y>> \o q
  BY DEF NamespaceSteps
<1>2. IsList(q)
  BY PrefixedList
<1> HIDE DEF x, y, q
<1>3. PICK S : q \in Seq(S)
  BY <1>2 DEF IsList
<1> DEFINE T == S \cup {x, y}
<1>4. q \in Seq(T) /\ <<x, y>> \in Seq(T)
  BY <1>3
<1> HIDE DEF T
<1>5. <<x, y>> \o q \in Seq(T)
  BY <1>4
<1> QED
  BY <1>1, <1>5 DEF IsList

\* The folds over a module's extensions, and over the names it is registered under.
SpaceStep(c, s, space) == BindAll(s, c.env, NamespaceSteps(c.alias, space, c.given.entries))
NameStep(c, s, x) == IF x.env = c.module THEN ExportAs(s, c.env, c.given, x.name) ELSE s
KeptFrom(c, k, s) == Kept(c.start, s, c.env)

Spaces == INSTANCE Induction WITH Op <- SpaceStep, P <- KeptFrom
Names == INSTANCE Induction WITH Op <- NameStep, P <- KeptFrom

\* The entries of an environment that are given under an alias, or none.
Given(s, e, env, prefix) ==
  \A i \in DOMAIN env.entries : env.entries[i].init =>
    Holder(s.envs, e, prefix \o env.entries[i].name) # 0

\* A list made of the entries keeps the forest and gives what has a value.
LEMMA PrefixedKeeps ==
  ASSUME NEW s, NEW e, Bindable(s, e), NEW env, IsEnv(env), NEW prefix,
         NEW t, t = BindAll(s, e, Prefixed(prefix, env.entries))
  PROVE  Kept(s, t, e) /\ (t.ok => Given(t, e, env, prefix))
<1> DEFINE steps == Prefixed(prefix, env.entries)
<1>1. IsList(steps) /\ DOMAIN steps = DOMAIN env.entries
  BY PrefixedList DEF IsEnv
<1>2. \A i \in DOMAIN env.entries :
        /\ steps[i].name = prefix \o env.entries[i].name
        /\ env.entries[i].init => steps[i].kind = "assign"
  BY DEF Prefixed, Do
<1> HIDE DEF steps
<1>3. /\ Kept(s, t, e)
      /\ t.ok => \A i \in DOMAIN steps : steps[i].kind \in {"assign", "ensure"} =>
                                           Holder(t.envs, e, steps[i].name) # 0
  BY <1>1, BindAllKeeps DEF steps
<1> QED
  BY <1>1, <1>2, <1>3 DEF Given

\* INCLUDE gives the names as they are.
LEMMA IncludeKeeps ==
  ASSUME NEW s, NEW e, Bindable(s, e), NEW env, IsEnv(env), NEW t, t = IncludeFrom(s, e, env)
  PROVE  Kept(s, t, e) /\ (t.ok => Given(t, e, env, <<>>))
BY PrefixedKeeps DEF IncludeFrom

\* Names stay given.
LEMMA GivenStays ==
  ASSUME NEW s, NEW t, NEW e, Bindable(s, e), Kept(s, t, e), NEW env, NEW prefix,
         Given(s, e, env, prefix)
  PROVE  Given(t, e, env, prefix)
<1>1. Forest(s.envs) /\ Forest(t.envs) /\ Grows(s.envs, t.envs) /\ e \in DOMAIN s.envs
  BY DEF Bindable, Kept, Leads
<1> QED
  BY <1>1, HolderStays DEF Given

\* IMPORT gives the names under the alias, those of the extensions after them.
LEMMA ExportAsKeeps ==
  ASSUME NEW s, NEW e, Bindable(s, e), NEW env, IsEnv(env), NEW alias,
         NEW t, t = ExportAs(s, e, env, alias)
  PROVE  Kept(s, t, e) /\ (t.ok => Given(t, e, env, <<alias>>))
<1> DEFINE base == BindAll(s, e, Prefixed(<<alias>>, env.entries))
           list == env.extensions
           c == [env |-> e, start |-> base, given |-> env, alias |-> alias]
           n == Len(list)
<1>0. c.env = e /\ c.start = base /\ c.given = env /\ c.alias = alias
  OBVIOUS
<1>1. n \in Nat /\ DOMAIN list = 1..n
  BY DEF IsEnv, IsList
<1>2. t = Spaces!Fold(c, base, list)
  BY DEF ExportAs, SpaceStep, Spaces!Fold, FoldLeft, MapThenFoldSet, Spaces!Greatest, Max
<1>3. Kept(s, base, e) /\ (base.ok => Given(base, e, env, <<alias>>))
  BY PrefixedKeeps
<1> HIDE DEF c, n, base, list
<1>4. Bindable(base, e)
  BY <1>3, KeptBindable
<1>5. KeptFrom(c, 0, base)
  BY <1>0, <1>4, KeptNot DEF KeptFrom
<1>6. ASSUME NEW i \in 1..n, NEW r, KeptFrom(c, i - 1, r)
      PROVE  KeptFrom(c, i, SpaceStep(c, r, list[i]))
  <2> DEFINE u == SpaceStep(c, r, list[i])
             steps == NamespaceSteps(alias, list[i], env.entries)
  <2>1. Kept(base, r, e)
    BY <1>0, <1>6 DEF KeptFrom
  <2>2. Bindable(r, e)
    BY <1>4, <2>1, KeptBindable
  <2>3. u = BindAll(r, e, steps)
    BY <1>0 DEF SpaceStep
  <2>4. IsList(steps)
    BY NamespaceList DEF IsEnv
  <2> HIDE DEF u, steps
  <2>5. Kept(r, u, e)
    BY <2>2, <2>3, <2>4, BindAllKeeps
  <2>6. Kept(base, u, e)
    BY <2>1, <2>5, KeptMore
  <2>7. KeptFrom(c, i, u)
    BY <1>0, <2>6 DEF KeptFrom
  <2> QED
    BY <2>7 DEF u
<1>7. KeptFrom(c, n, Spaces!Fold(c, base, list))
  BY <1>1, <1>5, <1>6, Spaces!FoldInduct
<1>8. Kept(base, t, e)
  BY <1>0, <1>2, <1>7 DEF KeptFrom
<1>9. Kept(s, t, e)
  BY <1>3, <1>8, KeptMore
<1>10. t.ok => Given(t, e, env, <<alias>>)
  <2>1. t.ok => base.ok
    BY <1>8 DEF Kept
  <2> QED
    BY <1>3, <1>4, <1>8, <2>1, GivenStays
<1> QED
  BY <1>9, <1>10

\* EXPORT gives them once more under each name of the module.
LEMMA ExportAllKeeps ==
  ASSUME NEW s, NEW e, Bindable(s, e), NEW env, IsEnv(env), NEW list, IsList(list), NEW m,
         NEW t, t = ExportAll(s, e, env, list, m)
  PROVE  Kept(s, t, e)
<1> DEFINE c == [env |-> e, start |-> s, given |-> env, module |-> m]
           n == Len(list)
<1>0. c.env = e /\ c.start = s /\ c.given = env /\ c.module = m
  OBVIOUS
<1>1. n \in Nat /\ DOMAIN list = 1..n
  BY DEF IsList
<1>2. t = Names!Fold(c, s, list)
  BY DEF ExportAll, NameStep, Names!Fold, FoldLeft, MapThenFoldSet, Names!Greatest, Max
<1> HIDE DEF c, n
<1>3. KeptFrom(c, 0, s)
  BY <1>0, KeptNot DEF KeptFrom
<1>4. ASSUME NEW i \in 1..n, NEW r, KeptFrom(c, i - 1, r)
      PROVE  KeptFrom(c, i, NameStep(c, r, list[i]))
  <2> DEFINE u == NameStep(c, r, list[i])
  <2>1. Kept(s, r, e)
    BY <1>0, <1>4 DEF KeptFrom
  <2>2. Bindable(r, e)
    BY <2>1, KeptBindable
  <2>3. u = r \/ u = ExportAs(r, e, env, list[i].name)
    BY <1>0 DEF NameStep
  <2> HIDE DEF u
  <2>4. Kept(r, u, e)
    BY <2>2, <2>3, KeptNot, ExportAsKeeps
  <2>5. Kept(s, u, e)
    BY <2>1, <2>4, KeptMore
  <2>6. KeptFrom(c, i, u)
    BY <1>0, <2>5 DEF KeptFrom
  <2> QED
    BY <2>6 DEF u
<1>5. KeptFrom(c, n, Names!Fold(c, s, list))
  BY <1>1, <1>3, <1>4, Names!FoldInduct
<1> QED
  BY <1>0, <1>2, <1>5 DEF KeptFrom

\* And the import itself binds its alias at the end.
LEMMA GiveKeeps ==
  ASSUME NEW s, NEW e, Bindable(s, e), NEW env, IsEnv(env), NEW alias,
         NEW t, t = Give(s, e, env, alias)
  PROVE  Kept(s, t, e) /\ (t.ok => Given(t, e, env, <<alias>>))
<1> DEFINE r == ExportAs(s, e, env, alias)
           step == Do("ensure", <<alias>>, Str)
<1>1. Kept(s, r, e) /\ (r.ok => Given(r, e, env, <<alias>>))
  BY ExportAsKeeps
<1>2. t = Bind(r, e, step)
  BY DEF Give
<1> HIDE DEF r, step
<1>3. Bindable(r, e)
  BY <1>1, KeptBindable
<1>4. Kept(r, t, e)
  BY <1>2, <1>3, BindKeeps
<1>5. Kept(s, t, e)
  BY <1>1, <1>4, KeptMore
<1>6. t.ok => Given(t, e, env, <<alias>>)
  <2>1. t.ok => r.ok
    BY <1>4 DEF Kept
  <2> QED
    BY <1>1, <1>3, <1>4, <2>1, GivenStays
<1> QED
  BY <1>5, <1>6

-----------------------------------------------------------------------------
(* Programs in execution. *)

\* What is left of a thread's programs: fewer of them, or fewer statements.
Cut(q, r) ==
  /\ IsList(r) /\ DOMAIN r \subseteq DOMAIN q
  /\ \A i \in DOMAIN r : r[i] = Frame(q[i].env, r[i].rest, q[i].load)

\* The programs left are in the environments they were in.
LEMMA CutFacts ==
  ASSUME NEW q, NEW r, Cut(q, r), NEW i \in DOMAIN r
  PROVE  r[i].env = q[i].env /\ r[i].load = q[i].load
BY DEF Cut, Frame

\* All of them may be left.
LEMMA CutSame ==
  ASSUME NEW q, NEW es, GoodFrames(q, es)
  PROVE  Cut(q, q)
BY DEF Cut, GoodFrames

\* What is left of good programs is good.
LEMMA CutGood ==
  ASSUME NEW q, NEW es, GoodFrames(q, es), NEW r, Cut(q, r)
  PROVE  GoodFrames(r, es)
<1>1. \A i \in DOMAIN r : /\ i \in DOMAIN q /\ r[i].env = q[i].env /\ r[i].load = q[i].load
                          /\ r[i] = Frame(r[i].env, r[i].rest, r[i].load)
  BY CutFacts DEF Cut
<1> QED
  BY <1>1 DEF GoodFrames, Cut

\* The length and the last element of a list.
LEMMA ListLen ==
  ASSUME NEW q, IsList(q)
  PROVE  Len(q) \in Nat /\ DOMAIN q = 1..Len(q) /\ (q # <<>> => Len(q) # 0 /\ Len(q) \in DOMAIN q)
BY DEF IsList

\* The innermost program with its statement done.
LEMMA AdvancedIs ==
  ASSUME ShapeInv, NEW a \in Actors, NEW es, GoodFrames(frames[a], es), frames[a] # <<>>
  PROVE  LET q == frames[a]
             n == Len(q)
             r == Advanced(a)
         IN /\ n \in Nat /\ n # 0 /\ DOMAIN q = 1..n /\ Top(a) = q[n]
            /\ DOMAIN r = DOMAIN q /\ Cut(q, r)
            /\ r[n] = Frame(q[n].env, Tail(q[n].rest), q[n].load)
            /\ \A i \in DOMAIN q : i # n => r[i] = q[i]
<1> DEFINE q == frames[a]
           n == Len(q)
           r == Advanced(a)
           rest == Tail(q[n].rest)
           x == Frame(q[n].env, rest, q[n].load)
<1>1. n \in Nat /\ n # 0 /\ DOMAIN q = 1..n /\ n \in DOMAIN q
  BY ListLen DEF GoodFrames
<1>2. q[n] = Frame(q[n].env, q[n].rest, q[n].load)
  BY <1>1 DEF GoodFrames
<1>3. r = [q EXCEPT ![n] = [q[n] EXCEPT !.rest = rest]]
  BY DEF Advanced
<1>4. ASSUME NEW f, NEW e, NEW l, NEW w, NEW v, f = Frame(e, w, l)
      PROVE  [f EXCEPT !.rest = v] = Frame(e, v, l)
  BY <1>4 DEF Frame
<1> HIDE DEF rest
<1>5. [q[n] EXCEPT !.rest = rest] = x
  BY <1>2, <1>4
<1>6. x = Frame(q[n].env, x.rest, q[n].load)
  BY DEF Frame
<1>7. r = [q EXCEPT ![n] = x]
  BY <1>3, <1>5
<1>8. IsList(q)
  BY DEF GoodFrames
<1>9. x = Frame(q[n].env, rest, q[n].load)
  OBVIOUS
<1>10. \A i \in DOMAIN q : q[i] = Frame(q[i].env, q[i].rest, q[i].load)
  BY DEF GoodFrames
<1>11. Top(a) = q[n]
  BY DEF Top
<1> HIDE DEF x, r, q, n
<1>12. IsList(r)
  BY <1>1, <1>7, <1>8, Updated
<1>13. /\ DOMAIN r = DOMAIN q /\ r[n] = x
       /\ \A i \in DOMAIN q : i # n => r[i] = q[i]
  BY <1>1, <1>7
<1>14. Cut(q, r)
  BY <1>6, <1>10, <1>12, <1>13 DEF Cut
<1> QED
  BY <1>1, <1>9, <1>11, <1>13, <1>14 DEF r, q, n, rest

\* An error leaves the thread its outermost program without statements.
LEMMA RaiseIs ==
  ASSUME ShapeInv, NEW a \in Actors, NEW es, GoodFrames(frames[a], es), frames[a] # <<>>, Raise(a),
         DOMAIN failed = Actors
  PROVE  /\ DOMAIN frames' = Actors /\ DOMAIN failed' = Actors
         /\ \A b \in Actors : b # a => frames'[b] = frames[b]
         /\ Cut(frames[a], frames'[a]) /\ DOMAIN frames'[a] = {1} /\ 1 \in DOMAIN frames[a]
         /\ frames'[a] = <<Frame(frames[a][1].env, <<>>, frames[a][1].load)>>
         /\ failed'[a]
<1> DEFINE q == frames[a]
           x == Frame(q[1].env, <<>>, q[1].load)
<1>1. 1 \in DOMAIN q
  BY ListLen DEF GoodFrames
<1>2. q[1] = Frame(q[1].env, q[1].rest, q[1].load)
  BY <1>1 DEF GoodFrames
<1>3. ASSUME NEW f, NEW e, NEW l, NEW w, NEW v, f = Frame(e, w, l)
      PROVE  [f EXCEPT !.rest = v] = Frame(e, v, l)
  BY <1>3 DEF Frame
<1>4. [q[1] EXCEPT !.rest = <<>>] = x
  BY <1>2, <1>3
<1>5. frames' = [frames EXCEPT ![a] = <<x>>]
  BY <1>4 DEF Raise
<1>6. x = Frame(q[1].env, x.rest, q[1].load)
  BY DEF Frame
<1>7. x = Frame(q[1].env, <<>>, q[1].load)
  OBVIOUS
<1> HIDE DEF x
<1>8. /\ DOMAIN frames' = Actors /\ frames'[a] = <<x>>
      /\ \A b \in Actors : b # a => frames'[b] = frames[b]
  BY <1>5 DEF ShapeInv
<1>9. DOMAIN <<x>> = {1} /\ <<x>>[1] = x /\ IsList(<<x>>)
  <2>1. <<x>> \in Seq({x})
    OBVIOUS
  <2>2. IsList(<<x>>)
    BY <2>1 DEF IsList
  <2> QED
    BY <2>2
<1>10. Cut(q, <<x>>)
  BY <1>1, <1>6, <1>9 DEF Cut
<1>11. DOMAIN failed' = Actors /\ failed'[a]
  BY DEF Raise
<1> QED
  BY <1>1, <1>7, <1>8, <1>9, <1>10, <1>11

\* The programs below the innermost.
LEMMA BelowIs ==
  ASSUME NEW q, NEW es, GoodFrames(q, es), Len(q) > 1,
         NEW r, r = SubSeq(q, 1, Len(q) - 1)
  PROVE  /\ Len(q) \in Nat /\ DOMAIN q = 1..Len(q) /\ Len(r) = Len(q) - 1
         /\ DOMAIN r = 1..(Len(q) - 1)
         /\ \A i \in DOMAIN r : r[i] = q[i]
         /\ Cut(q, r)
<1>1. PICK S : q \in Seq(S)
  BY DEF GoodFrames, IsList
<1>2. Len(q) \in Nat /\ DOMAIN q = 1..Len(q)
  BY <1>1
<1>3. r \in Seq(S) /\ Len(r) = Len(q) - 1 /\ \A i \in 1..(Len(q) - 1) : r[i] = q[i]
  BY <1>1, <1>2
<1>4. DOMAIN r = 1..(Len(q) - 1)
  BY <1>2, <1>3
<1>5. IsList(r)
  BY <1>3 DEF IsList
<1>6. DOMAIN r \subseteq DOMAIN q
  BY <1>2, <1>4
<1>7. \A i \in DOMAIN r : r[i] = q[i]
  BY <1>3, <1>4
<1>8. Cut(q, r)
  BY <1>5, <1>6, <1>7 DEF Cut, GoodFrames
<1> QED
  BY <1>2, <1>3, <1>4, <1>7, <1>8

-----------------------------------------------------------------------------
(* Steps and the environments. *)

\* What a step of a thread, or one for it, does to environments, lists and programs.
StepOf(a) ==
  /\ DOMAIN frames' = Actors /\ DOMAIN registry' = Actors /\ DOMAIN failed' = Actors
  /\ \A b \in Actors : b # a => frames'[b] = frames[b] /\ registry'[b] = registry[b]
  /\ Forest(envs') /\ Grows(envs, envs')
  /\ IsList(origin') /\ DOMAIN origin' = DOMAIN envs'
  /\ \A x \in DOMAIN envs : envs[x].parent # 0 /\ envs'[x] # envs[x] =>
                              \E i \in DOMAIN frames[a] : frames[a][i].env = x
  /\ GoodList(registry'[a], envs') /\ GoodFrames(frames'[a], envs')
  /\ \A i \in DOMAIN frames'[a] :
       \/ envs'[frames'[a][i].env].parent = 0
       \/ frames'[a][i].env \notin DOMAIN envs
       \/ \E j \in DOMAIN frames[a] : frames[a][j].env = frames'[a][i].env

\* Lists and programs stay good while the environments grow.
LEMMA GoodGrows ==
  ASSUME NEW es, NEW fs, Grows(es, fs), NEW q
  PROVE  /\ GoodList(q, es) => GoodList(q, fs)
         /\ GoodFrames(q, es) => GoodFrames(q, fs)
BY DEF GoodList, GoodFrames, Grows, Grown

\* Such a step keeps the environments good, and those of calls private.
LEMMA StepKeeps ==
  ASSUME EnvInv, PrivateInv, NEW a \in Actors, StepOf(a)
  PROVE  EnvInv' /\ PrivateInv'
<1>1. EnvInv'
  <2>1. ASSUME NEW b \in Actors
        PROVE  GoodList(registry'[b], envs') /\ GoodFrames(frames'[b], envs')
    <3>1. CASE b = a
      BY <3>1 DEF StepOf
    <3>2. CASE b # a
      BY <3>2, GoodGrows DEF StepOf, EnvInv
    <3> QED
      BY <3>1, <3>2
  <2> QED
    BY <2>1 DEF EnvInv, StepOf
<1>2. ASSUME NEW b \in Actors, b # a, NEW i \in DOMAIN frames'[a], NEW j \in DOMAIN frames'[b],
             frames'[a][i].env = frames'[b][j].env
      PROVE  envs'[frames'[a][i].env].parent = 0
  <2> DEFINE e == frames'[a][i].env
  <2>1. frames'[b] = frames[b] /\ e = frames[b][j].env /\ j \in DOMAIN frames[b]
    BY <1>2 DEF StepOf
  <2>2. e \in DOMAIN envs
    BY <2>1 DEF EnvInv, GoodFrames
  <2>3. CASE envs'[e].parent = 0
    BY <2>3
  <2>4. CASE \E k \in DOMAIN frames[a] : frames[a][k].env = e
    <3>1. envs[e].parent = 0
      BY <1>2, <2>1, <2>4 DEF PrivateInv
    <3> QED
      BY <2>2, <3>1 DEF StepOf, Grows, Grown
  <2> QED
    BY <2>2, <2>3, <2>4 DEF StepOf
<1>3. ASSUME NEW b \in Actors, NEW c \in Actors, b # c,
             NEW i \in DOMAIN frames'[b], NEW j \in DOMAIN frames'[c],
             frames'[b][i].env = frames'[c][j].env
      PROVE  envs'[frames'[b][i].env].parent = 0
  <2>1. CASE b = a
    BY <1>2, <1>3, <2>1
  <2>2. CASE c = a
    BY <1>2, <1>3, <2>2
  <2>3. CASE b # a /\ c # a
    <3>1. frames'[b] = frames[b] /\ frames'[c] = frames[c]
      BY <2>3 DEF StepOf
    <3>2. envs[frames[b][i].env].parent = 0 /\ frames[b][i].env \in DOMAIN envs
      BY <1>3, <3>1 DEF PrivateInv, EnvInv, GoodFrames
    <3> QED
      BY <3>1, <3>2 DEF StepOf, Grows, Grown
  <2> QED
    BY <2>1, <2>2, <2>3
<1>4. PrivateInv'
  BY <1>3 DEF PrivateInv
<1> QED
  BY <1>1, <1>4

\* A step that makes bindings, or none, and leaves the thread some of its programs.
LEMMA GrownStep ==
  ASSUME ShapeInv, EnvInv, NEW a \in Actors, NEW e,
         Forest(envs'), Grows(envs, envs'), DOMAIN envs' = DOMAIN envs, Only(envs, envs', e),
         envs[e].parent = 0 \/ \E i \in DOMAIN frames[a] : frames[a][i].env = e,
         UNCHANGED <<origin, registry>>,
         DOMAIN frames' = Actors, \A b \in Actors : b # a => frames'[b] = frames[b],
         DOMAIN failed' = Actors, Cut(frames[a], frames'[a])
  PROVE  StepOf(a)
<1>1. GoodFrames(frames[a], envs) /\ GoodList(registry[a], envs)
  BY DEF EnvInv
<1>2. GoodFrames(frames'[a], envs')
  BY <1>1, CutGood, GoodGrows
<1>3. GoodList(registry'[a], envs')
  BY <1>1, GoodGrows
<1>4. \A x \in DOMAIN envs : envs[x].parent # 0 /\ envs'[x] # envs[x] =>
                              \E i \in DOMAIN frames[a] : frames[a][i].env = x
  BY DEF Only
<1>5. \A i \in DOMAIN frames'[a] : i \in DOMAIN frames[a] /\ frames'[a][i].env = frames[a][i].env
  BY CutFacts DEF Cut
<1>6. IsList(origin') /\ DOMAIN origin' = DOMAIN envs' /\ DOMAIN registry' = Actors
  BY DEF EnvInv, ShapeInv
<1> QED
  BY <1>2, <1>3, <1>4, <1>5, <1>6 DEF StepOf

\* A step that makes bindings into one environment of the thread.
LEMMA WithinStep ==
  ASSUME ShapeInv, EnvInv, NEW a \in Actors, NEW e, Leads(envs, envs', e),
         envs[e].parent = 0 \/ \E i \in DOMAIN frames[a] : frames[a][i].env = e,
         UNCHANGED <<origin, registry>>,
         DOMAIN frames' = Actors, \A b \in Actors : b # a => frames'[b] = frames[b],
         DOMAIN failed' = Actors, Cut(frames[a], frames'[a])
  PROVE  StepOf(a)
BY GrownStep DEF Leads

\* The programs of a thread after a statement, done or failed.
Leaves(a) ==
  /\ DOMAIN frames' = Actors /\ DOMAIN failed' = Actors
  /\ \A b \in Actors : b # a => frames'[b] = frames[b]
  /\ Cut(frames[a], frames'[a])

\* Programs that stay as they are.
LEMMA SameLeaves ==
  ASSUME ShapeInv, EnvInv, NEW a \in Actors, UNCHANGED <<frames, failed>>
  PROVE  Leaves(a)
BY CutSame DEF Leaves, EnvInv, ShapeInv

\* A statement that is done.
LEMMA ProceedLeaves ==
  ASSUME ShapeInv, EnvInv, NEW a \in Actors, frames[a] # <<>>, Proceed(a)
  PROVE  Leaves(a)
<1>1. frames' = [frames EXCEPT ![a] = Advanced(a)] /\ failed' = failed
  BY DEF Proceed
<1>2. Cut(frames[a], Advanced(a))
  BY AdvancedIs DEF EnvInv
<1>3. frames'[a] = Advanced(a)
  BY <1>1 DEF ShapeInv
<1> QED
  BY <1>1, <1>2, <1>3 DEF Leaves, EnvInv, ShapeInv

\* A statement that fails.
LEMMA RaiseLeaves ==
  ASSUME ShapeInv, EnvInv, NEW a \in Actors, frames[a] # <<>>, Raise(a)
  PROVE  Leaves(a)
BY RaiseIs DEF Leaves, EnvInv

\* The environment of a thread's innermost program.
LEMMA TopIs ==
  ASSUME EnvInv, NEW a \in Actors, frames[a] # <<>>
  PROVE  /\ Len(frames[a]) \in DOMAIN frames[a] /\ Top(a) = frames[a][Len(frames[a])]
         /\ Top(a).env \in DOMAIN envs
         /\ \E i \in DOMAIN frames[a] : frames[a][i].env = Top(a).env
<1>1. Len(frames[a]) \in DOMAIN frames[a] /\ Top(a) = frames[a][Len(frames[a])]
  BY ListLen DEF EnvInv, GoodFrames, Top
<1> QED
  BY <1>1 DEF EnvInv, GoodFrames

\* A step that loads no module and makes no environment.
SameLoaded ==
  DOMAIN envs' = DOMAIN envs /\ \A x \in DOMAIN envs : envs'[x].loaded = envs[x].loaded

\* The lookup of an assignment.
LEMMA LookupStep ==
  ASSUME ShapeInv, EnvInv, NEW a \in Actors, AssignLookup(a)
  PROVE  StepOf(a)
<1>1. frames[a] # <<>> /\ UNCHANGED <<envs, origin, registry>>
  BY DEF AssignLookup, Ready, Busy
<1>2. UNCHANGED <<frames, failed>> \/ Raise(a)
  BY DEF AssignLookup
<1>3. Leaves(a)
  BY <1>1, <1>2, SameLeaves, RaiseLeaves
<1>4. Leads(envs, envs', Global) /\ envs[Global].parent = 0
  BY <1>1, LeadsNot DEF EnvInv, Forest
<1> QED
  BY <1>1, <1>3, <1>4, WithinStep DEF Leaves

\* The environment an assignment goes to.
LEMMA AssigningIs ==
  ASSUME EnvInv, BusyInv, NEW a \in Actors, assigning[a] # NotAssigning
  PROVE  /\ frames[a] # <<>> /\ assigning[a].env \in DOMAIN envs
         /\ \/ envs[assigning[a].env].parent = 0
            \/ \E i \in DOMAIN frames[a] : frames[a][i].env = assigning[a].env
<1>1. frames[a] # <<>>
  BY DEF BusyInv, BusyAt
<1>2. CASE assigning[a].env = Top(a).env
  BY <1>1, <1>2, TopIs
<1>3. CASE assigning[a].env = envs[Top(a).env].parent /\ assigning[a].env # 0
  <2>1. Top(a).env \in DOMAIN envs
    BY <1>1, TopIs
  <2>2. assigning[a].env = Global
    BY <1>3, <2>1 DEF EnvInv, Forest
  <2> QED
    BY <1>1, <2>2 DEF EnvInv, Forest
<1> QED
  BY <1>2, <1>3 DEF BusyInv, BusyAt

\* The declaration of a name by an assignment.
LEMMA DefineStep ==
  ASSUME ShapeInv, EnvInv, BusyInv, NEW a \in Actors, AssignDefine(a)
  PROVE  StepOf(a) /\ SameLoaded
<1>1. assigning[a] # NotAssigning /\ UNCHANGED <<origin, registry, frames, failed>>
  BY DEF AssignDefine, NotAssigning
<1>2. /\ frames[a] # <<>> /\ assigning[a].env \in DOMAIN envs
      /\ \/ envs[assigning[a].env].parent = 0
         \/ \E i \in DOMAIN frames[a] : frames[a][i].env = assigning[a].env
  BY <1>1, AssigningIs
<1>3. Leads(envs, envs', assigning[a].env)
  <2>1. \A v : envs' = Define(envs, assigning[a].env, <<Statement(a).name>>, Statement(a).type, v)
                 => Leads(envs, envs', assigning[a].env)
    BY <1>2, DefineLeads DEF EnvInv
  <2> QED
    BY <2>1, Zenon DEF AssignDefine
<1>4. Leaves(a)
  BY <1>1, SameLeaves
<1>20. StepOf(a)
  BY <1>1, <1>2, <1>3, <1>4, WithinStep DEF Leaves
<1> QED
  BY <1>3, <1>20 DEF Leads, SameLoaded

\* The end of an assignment.
LEMMA EndAssignStep ==
  ASSUME ShapeInv, EnvInv, BusyInv, NEW a \in Actors, EndAssign(a)
  PROVE  StepOf(a) /\ SameLoaded
<1>1. assigning[a] # NotAssigning /\ UNCHANGED <<origin, registry>>
  BY DEF EndAssign, NotAssigning
<1>2. /\ frames[a] # <<>> /\ assigning[a].env \in DOMAIN envs
      /\ \/ envs[assigning[a].env].parent = 0
         \/ \E i \in DOMAIN frames[a] : frames[a][i].env = assigning[a].env
  BY <1>1, AssigningIs
<1>3. Leads(envs, envs', assigning[a].env)
  BY <1>2, LeadsNot, AssignLeads DEF EnvInv, EndAssign
<1>4. Leaves(a)
  BY <1>2, ProceedLeaves, RaiseLeaves DEF EndAssign
<1>20. StepOf(a)
  BY <1>1, <1>2, <1>3, <1>4, WithinStep DEF Leaves
<1> QED
  BY <1>3, <1>20 DEF Leads, SameLoaded

\* Statements that change no environment: a failure, and EXTEND up to its end.
LEMMA QuietStep ==
  ASSUME ShapeInv, EnvInv, NEW a \in Actors, UNCHANGED <<envs, origin, registry>>,
         frames[a] # <<>>, Raise(a) \/ Proceed(a) \/ UNCHANGED <<frames, failed>>
  PROVE  StepOf(a)
<1>1. Leaves(a)
  BY SameLeaves, RaiseLeaves, ProceedLeaves
<1>2. Leads(envs, envs', Global) /\ envs[Global].parent = 0
  BY LeadsNot DEF EnvInv, Forest
<1> QED
  BY <1>1, <1>2, WithinStep DEF Leaves

\* The end of EXTEND, which declares its names.
LEMMA EndExtendStep ==
  ASSUME ShapeInv, EnvInv, BusyInv, NEW a \in Actors, EndExtend(a)
  PROVE  StepOf(a) /\ SameLoaded
<1> DEFINE name == extending[a].name
           e == Top(a).env
           h == Marked(envs, e, LAMBDA x : x.extensions # <<>>)
           into == IF h = 0 THEN e ELSE h
           es == IF CanAssign(envs, e, <<name>>, Str) THEN Assign(envs, e, <<name>>, Str) ELSE envs
           more == Append(es[into].extensions, name)
           y == [es[into] EXCEPT !.extensions = more]
<1>1. frames[a] # <<>> /\ UNCHANGED <<origin, registry>> /\ Proceed(a)
  BY DEF EndExtend, ExtendScope, BusyInv, BusyAt
<1>2. e \in DOMAIN envs /\ \E i \in DOMAIN frames[a] : frames[a][i].env = e
  BY <1>1, TopIs
<1>3. Forest(envs)
  BY DEF EnvInv
<1>4. h = 0 \/ h = e \/ h = envs[e].parent
  <2> DEFINE c == Chain(envs, e)
             hits == {i \in DOMAIN c : envs[c[i]].extensions # <<>>}
             one == CHOOSE i \in hits : \A j \in hits : i <= j
  <2>1. h = IF hits = {} THEN 0 ELSE c[one]
    BY DEF Marked, Nearest
  <2>2. /\ hits \subseteq {1, 2}
        /\ DOMAIN c \subseteq {1, 2} /\ c[1] = e /\ (2 \in DOMAIN c => c[2] = envs[e].parent)
    BY DEF Chain
  <2>3. hits # {} => one \in hits
    <3>1. hits # {} => \E i \in hits : \A j \in hits : i <= j
      BY <2>2
    <3> QED
      BY <3>1
  <2> HIDE DEF c, hits, one
  <2>4. hits \subseteq DOMAIN c
    BY DEF hits
  <2> QED
    BY <2>1, <2>2, <2>3, <2>4
<1>5. into \in DOMAIN envs /\ (into = e \/ envs[into].parent = 0)
  BY <1>2, <1>3, <1>4 DEF Forest
<1>6. Leads(envs, es, e)
  BY <1>2, <1>3, LeadsNot, AssignLeads
<1>7. envs' = es \/ envs' = [es EXCEPT ![into] = y]
  BY DEF EndExtend
<1> HIDE DEF es, into, e
<1>8. /\ Forest(es) /\ into \in DOMAIN es /\ IsEnv(es[into])
      /\ (into = e \/ es[into].parent = 0)
  BY <1>5, <1>6 DEF Leads, Forest, Grows, Grown
<1>9. IsList(more)
  BY <1>8, Extended DEF IsEnv
<1>10. y = [es[into] EXCEPT !.extensions = more]
  OBVIOUS
<1> HIDE DEF more, y
<1>11. IsEnv(y) /\ Grown(es[into], y) /\ y.loaded = es[into].loaded
  BY <1>8, <1>9, <1>10, ExtensionsSet
<1>12. Leads(es, [es EXCEPT ![into] = y], e)
  BY <1>8, <1>11, ReplacedLeads
<1>13. Leads(envs, envs', e)
  BY <1>6, <1>7, <1>12, LeadsMore
<1>14. Leaves(a)
  BY <1>1, ProceedLeaves
<1>20. StepOf(a)
  BY <1>1, <1>2, <1>13, <1>14, WithinStep DEF Leaves
<1> QED
  BY <1>13, <1>20 DEF Leads, SameLoaded

-----------------------------------------------------------------------------
(* The start and the end of an import. *)

\* What is found in a list of modules is one of its environments.
LEMMA LookupGood ==
  ASSUME NEW list, NEW es, GoodList(list, es), NEW name, Lookup(list, name) # 0
  PROVE  Lookup(list, name) \in DOMAIN es /\ es[Lookup(list, name)].parent = 0
BY DEF Lookup, GoodList

\* A module found in the thread's list is one that exists.
LEMMA CachedGood ==
  ASSUME EnvInv, NEW a \in Actors, NEW s, NEW file, Cached(a, s, file) # 0
  PROVE  Cached(a, s, file) \in DOMAIN envs /\ envs[Cached(a, s, file)].parent = 0
<1>1. GoodList(registry[a], envs)
  BY DEF EnvInv
<1> QED
  BY <1>1, LookupGood DEF Cached

\* A module registered is one of the list.
LEMMA RegisterGood ==
  ASSUME NEW list, NEW es, GoodList(list, es), NEW name, NEW e \in DOMAIN es, es[e].parent = 0
  PROVE  GoodList(RegisterName(list, name, e), es)
<1>1. CASE Lookup(list, name) # 0
  BY <1>1 DEF RegisterName
<1>2. CASE Lookup(list, name) = 0
  <2> DEFINE x == [name |-> name, env |-> e]
             r == <<x>> \o list
  <2>1. IsList(list) /\ x.env = e /\ r = <<x>> \o list
    BY DEF GoodList
  <2>2. RegisterName(list, name, e) = r
    BY <1>2 DEF RegisterName
  <2> HIDE DEF x, r
  <2>3. IsList(r)
    BY <2>1, Prepend
  <2>4. r[1] = x
    BY <2>1, Prepend
  <2>5. DOMAIN list = 1..Len(list) /\ Len(list) \in Nat /\ DOMAIN r = 1..(Len(list) + 1)
    BY <2>1, Prepend
  <2>6. \A i \in DOMAIN list : r[i + 1] = list[i]
    BY <2>1, Prepend
  <2>7. \A i \in DOMAIN r : i = 1 \/ (i - 1 \in DOMAIN list /\ r[i] = list[i - 1])
    BY <2>5, <2>6
  <2> QED
    BY <2>1, <2>2, <2>3, <2>4, <2>7 DEF GoodList
<1> QED
  BY <1>1, <1>2

\* A new environment, without entries; a call's has its parameters.
LEMMA NewEnvIs ==
  ASSUME NEW p, NEW source, NEW scope
  PROVE  /\ IsEnv(NewEnv(p, source, scope)) /\ NewEnv(p, source, scope).parent = p
         /\ ~NewEnv(p, source, scope).loaded
<1> DEFINE x == NewEnv(p, source, scope)
<1>1. x.entries = <<>> /\ x.extensions = <<>> /\ x.parent = p /\ x.source = source
      /\ x.scope = scope /\ x.loaded = FALSE
  BY DEF NewEnv
<1>2. x = [entries |-> x.entries, parent |-> x.parent, source |-> x.source,
           scope |-> x.scope, loaded |-> x.loaded, extensions |-> x.extensions]
  BY DEF NewEnv
<1>3. <<>> \in Seq({}) /\ DOMAIN <<>> = {}
  OBVIOUS
<1>4. IsList(<<>>)
  BY <1>3 DEF IsList
<1> HIDE DEF x
<1>5. IsEnv(x)
  BY <1>1, <1>2, <1>3, <1>4 DEF IsEnv
<1>6. x.parent = p /\ ~x.loaded
  BY <1>1
<1> QED
  BY <1>5, <1>6 DEF x

\* One more environment.
LEMMA ForestMore ==
  ASSUME NEW es, Forest(es), NEW x, IsEnv(x), x.parent \in {0, Global}
  PROVE  /\ Forest(Append(es, x)) /\ Grows(es, Append(es, x))
         /\ Len(es) \in Nat /\ DOMAIN es = 1..Len(es)
         /\ DOMAIN Append(es, x) = 1..(Len(es) + 1) /\ Append(es, x)[Len(es) + 1] = x
         /\ \A e \in DOMAIN es : Append(es, x)[e] = es[e]
<1> DEFINE fs == Append(es, x)
<1>1. /\ IsList(fs) /\ Len(es) \in Nat /\ DOMAIN es = 1..Len(es)
      /\ DOMAIN fs = 1..(Len(es) + 1) /\ fs[Len(es) + 1] = x
      /\ \A e \in DOMAIN es : fs[e] = es[e]
  BY Extended DEF Forest
<1> HIDE DEF fs
<1>2. \A e \in DOMAIN fs : e = Len(es) + 1 \/ e \in DOMAIN es
  BY <1>1
<1>3. DOMAIN es \subseteq DOMAIN fs
  BY <1>1
<1>4. \A e \in DOMAIN es : Grown(es[e], es[e])
  BY DEF Grown
<1>5. Grows(es, fs)
  BY <1>1, <1>3, <1>4 DEF Grows
<1>6. Forest(fs)
  BY <1>1, <1>2, <1>3 DEF Forest
<1> QED
  BY <1>1, <1>5, <1>6 DEF fs

\* The environment a module is found in or gets, and the environments with it.
EnvOf(a, file) ==
  LET cached == Cached(a, Statement(a), file) IN IF cached = 0 THEN Len(origin) + 1 ELSE cached
EnvsWith(a, file, scope) ==
  IF Cached(a, Statement(a), file) = 0 THEN Append(envs, NewEnv(0, NoName, scope)) ELSE envs
OriginWith(a, file) ==
  IF Cached(a, Statement(a), file) = 0 THEN Append(origin, file) ELSE origin

\* The environment of an import, found in the list or made, and the forest with it.
LEMMA FoundOrNew ==
  ASSUME EnvInv, NEW a \in Actors, NEW file, NEW scope
  PROVE  LET cached == Cached(a, Statement(a), file)
             es == EnvsWith(a, file, scope)
             org == OriginWith(a, file)
             e == EnvOf(a, file)
         IN /\ Forest(es) /\ Grows(envs, es) /\ e \in DOMAIN es /\ es[e].parent = 0
            /\ \A x \in DOMAIN envs : es[x] = envs[x]
            /\ IsList(org) /\ DOMAIN org = DOMAIN es /\ \A x \in DOMAIN envs : org[x] = origin[x]
            /\ cached # 0 => DOMAIN es = DOMAIN envs /\ e = cached
            /\ cached = 0 => /\ org[e] = file /\ e \notin DOMAIN envs /\ ~es[e].loaded
                             /\ DOMAIN es = DOMAIN envs \cup {e}
<1> DEFINE cached == Cached(a, Statement(a), file)
           es == EnvsWith(a, file, scope)
           org == OriginWith(a, file)
           e == EnvOf(a, file)
<1>1. CASE cached # 0
  <2>1. es = envs /\ org = origin /\ e = cached
    BY <1>1 DEF EnvsWith, OriginWith, EnvOf
  <2> HIDE DEF es, org, e
  <2>2. cached \in DOMAIN envs /\ envs[cached].parent = 0
    BY <1>1, CachedGood
  <2> QED
    BY <1>1, <2>1, <2>2, GrowsNot DEF EnvInv, es, org, e
<1>2. CASE cached = 0
  <2> DEFINE x == NewEnv(0, NoName, scope)
  <2>1. IsEnv(x) /\ x.parent = 0 /\ ~x.loaded
    BY NewEnvIs
  <2>2. es = Append(envs, x)
    BY <1>2 DEF EnvsWith
  <2>3. org = Append(origin, file) /\ e = Len(origin) + 1
    BY <1>2 DEF OriginWith, EnvOf
  <2> HIDE DEF x, es, org, e
  <2>4. /\ Forest(es) /\ Grows(envs, es) /\ Len(envs) \in Nat /\ DOMAIN envs = 1..Len(envs)
        /\ DOMAIN es = 1..(Len(envs) + 1) /\ es[Len(envs) + 1] = x
        /\ \A y \in DOMAIN envs : es[y] = envs[y]
    BY <2>1, <2>2, ForestMore DEF EnvInv
  <2>5. /\ IsList(org) /\ Len(origin) \in Nat /\ DOMAIN origin = 1..Len(origin)
        /\ DOMAIN org = 1..(Len(origin) + 1) /\ org[Len(origin) + 1] = file
        /\ \A y \in DOMAIN origin : org[y] = origin[y]
    BY <2>3, Extended DEF EnvInv
  <2>6. Len(origin) = Len(envs)
    BY <2>4, <2>5 DEF EnvInv
  <2>7. e = Len(envs) + 1 /\ e \notin DOMAIN envs /\ DOMAIN es = DOMAIN envs \cup {e}
    BY <2>3, <2>4, <2>6
  <2> QED
    BY <1>2, <2>1, <2>4, <2>5, <2>6, <2>7 DEF EnvInv, es, org, e
<1> QED
  BY <1>1, <1>2

\* What the start of an import does to the thread's state, but for its programs.
Imports(a, file, e) ==
  /\ Forest(envs') /\ Grows(envs, envs') /\ e \in DOMAIN envs' /\ envs'[e].parent = 0
  /\ \A x \in DOMAIN envs : /\ envs[x].parent # 0 => envs'[x] = envs[x]
                            /\ envs'[x].loaded = envs[x].loaded
                            /\ origin'[x] = origin[x]
  /\ IsList(origin') /\ DOMAIN origin' = DOMAIN envs'
  /\ \/ e \in DOMAIN envs /\ DOMAIN envs' = DOMAIN envs /\ e = Cached(a, Statement(a), file)
     \/ /\ e \notin DOMAIN envs /\ DOMAIN envs' = DOMAIN envs \cup {e}
        /\ origin'[e] = file /\ ~envs'[e].loaded
  /\ DOMAIN registry' = Actors /\ GoodList(registry'[a], envs')
  /\ \A b \in Actors : b # a => registry'[b] = registry[b]

\* The import served by the program that has been started.
LoadOf(a, file, e) ==
  [call |-> Statement(a), file |-> file, env |-> e,
   runs |-> ~envs'[e].loaded /\ file \in Files /\ Readable(file)]

Pushes(a, file, e) ==
  /\ UNCHANGED failed
  /\ frames' = [frames EXCEPT ![a] =
       Append(Advanced(a), Frame(e, IF LoadOf(a, file, e).runs THEN Body(file) ELSE <<>>,
                                 LoadOf(a, file, e)))]

\* An import fails, or finds or makes its environment and starts a program there.
LEMMA BeginIs ==
  ASSUME ShapeInv, EnvInv, NEW a \in Actors, NEW file, NEW scope, Begin(a, file, scope)
  PROVE  \/ Raise(a) /\ UNCHANGED <<envs, origin, registry>>
         \/ \E e : Imports(a, file, e) /\ (Raise(a) \/ Pushes(a, file, e))
<1> DEFINE s == Statement(a)
           cached == Cached(a, s, file)
           es == EnvsWith(a, file, scope)
           org == OriginWith(a, file)
           e == EnvOf(a, file)
           list == RegisterName(RegisterName(IF cached = 0 THEN RegisterName(registry[a], file, e)
                                             ELSE registry[a], s.name, e), Alias(s), e)
           runs == ~es[e].loaded /\ file \in Files /\ Readable(file)
           y == Started(es[e], file)
           started == [es EXCEPT ![e] = y]
<1>1. SUFFICES ASSUME ~(Raise(a) /\ UNCHANGED <<envs, origin, registry>>)
               PROVE  \E d : Imports(a, file, d) /\ (Raise(a) \/ Pushes(a, file, d))
  OBVIOUS
<1>2. /\ registry' = [registry EXCEPT ![a] = list]
      /\ origin' = org
      /\ envs' = IF runs THEN started ELSE es
  BY <1>1 DEF Begin, EnvsWith, OriginWith, EnvOf
<1>3. \/ Raise(a)
      \/ /\ UNCHANGED failed
         /\ frames' = [frames EXCEPT ![a] =
              Append(Advanced(a), Frame(e, IF runs THEN Body(file) ELSE <<>>,
                       [call |-> s, file |-> file, env |-> e, runs |-> runs]))]
  BY <1>1 DEF Begin, EnvsWith, OriginWith, EnvOf
<1>4. s = Statement(a) /\ cached = Cached(a, s, file)
  OBVIOUS
<1>5. /\ Forest(es) /\ Grows(envs, es) /\ e \in DOMAIN es /\ es[e].parent = 0
      /\ \A x \in DOMAIN envs : es[x] = envs[x]
      /\ IsList(org) /\ DOMAIN org = DOMAIN es /\ \A x \in DOMAIN envs : org[x] = origin[x]
      /\ cached # 0 => DOMAIN es = DOMAIN envs /\ e = cached
      /\ cached = 0 => /\ org[e] = file /\ e \notin DOMAIN envs /\ ~es[e].loaded
                       /\ DOMAIN es = DOMAIN envs \cup {e}
  BY FoundOrNew
<1> HIDE DEF s, cached
<1>7. y = [es[e] EXCEPT !.source = DirOf(file)]
  BY DEF Started
<1>8. started = [es EXCEPT ![e] = y] /\ (runs <=> ~es[e].loaded /\ file \in Files /\ Readable(file))
  OBVIOUS
<1>9. list = RegisterName(RegisterName(IF cached = 0 THEN RegisterName(registry[a], file, e)
                                       ELSE registry[a], s.name, e), Alias(s), e)
  OBVIOUS
<1> HIDE DEF es, org, e, y, started
<1>10. IsEnv(y) /\ Grown(es[e], y) /\ y.parent = es[e].parent /\ y.loaded = es[e].loaded
  <2>1. IsEnv(es[e])
    BY <1>5 DEF Forest
  <2> QED
    BY <1>7, <2>1, SourceSet
<1>11. /\ Forest(started) /\ Grows(es, started) /\ DOMAIN started = DOMAIN es
       /\ started[e] = y /\ \A x \in DOMAIN es : x # e => started[x] = es[x]
  BY <1>5, <1>8, <1>10, Replaced
<1>12. /\ Forest(envs') /\ Grows(es, envs') /\ DOMAIN envs' = DOMAIN es
       /\ \A x \in DOMAIN es : x # e => envs'[x] = es[x]
       /\ envs'[e].parent = 0 /\ envs'[e].loaded = es[e].loaded
  BY <1>2, <1>5, <1>10, <1>11, GrowsNot
<1>13. Grows(envs, envs')
  BY <1>5, <1>12, GrowsMore
<1>14. GoodList(registry[a], envs')
  BY <1>13, GoodGrows DEF EnvInv
<1>15. e \in DOMAIN envs'
  BY <1>5, <1>12
<1>16. GoodList(list, envs')
  <2>1. GoodList(IF cached = 0 THEN RegisterName(registry[a], file, e) ELSE registry[a], envs')
    BY <1>12, <1>14, <1>15, RegisterGood
  <2> QED
    BY <1>9, <1>12, <1>15, <2>1, RegisterGood
<1> HIDE DEF list
<1>17. /\ DOMAIN registry' = Actors /\ GoodList(registry'[a], envs')
       /\ \A b \in Actors : b # a => registry'[b] = registry[b]
  BY <1>2, <1>16 DEF ShapeInv
<1>18. \A x \in DOMAIN envs : /\ envs[x].parent # 0 => envs'[x] = envs[x]
                              /\ envs'[x].loaded = envs[x].loaded
                              /\ origin'[x] = origin[x]
  <2> SUFFICES ASSUME NEW x \in DOMAIN envs
               PROVE  /\ envs[x].parent # 0 => envs'[x] = envs[x]
                      /\ envs'[x].loaded = envs[x].loaded
                      /\ origin'[x] = origin[x]
    OBVIOUS
  <2>1. es[x] = envs[x] /\ org[x] = origin[x] /\ x \in DOMAIN es
    BY <1>5 DEF Grows
  <2>2. CASE x = e
    BY <1>2, <1>5, <1>12, <2>1, <2>2
  <2>3. CASE x # e
    BY <1>2, <1>12, <2>1, <2>3
  <2> QED
    BY <2>2, <2>3
<1>19. \/ e \in DOMAIN envs /\ DOMAIN envs' = DOMAIN envs /\ e = Cached(a, Statement(a), file)
       \/ /\ e \notin DOMAIN envs /\ DOMAIN envs' = DOMAIN envs \cup {e}
          /\ origin'[e] = file /\ ~envs'[e].loaded
  BY <1>2, <1>4, <1>5, <1>12
<1>20. Imports(a, file, e)
  BY <1>2, <1>5, <1>12, <1>13, <1>15, <1>17, <1>18, <1>19 DEF Imports
<1>21. runs = (~envs'[e].loaded /\ file \in Files /\ Readable(file))
  BY <1>12
<1>22. Raise(a) \/ Pushes(a, file, e)
  BY <1>3, <1>4, <1>21 DEF Pushes, LoadOf
<1> QED
  BY <1>20, <1>22

\* The start of an import.
LEMMA BeginStep ==
  ASSUME ShapeInv, EnvInv, NEW a \in Actors, frames[a] # <<>>,
         NEW file, NEW scope, Begin(a, file, scope)
  PROVE  StepOf(a)
<1>1. CASE Raise(a) /\ UNCHANGED <<envs, origin, registry>>
  BY <1>1, QuietStep
<1>2. CASE \E e : Imports(a, file, e) /\ (Raise(a) \/ Pushes(a, file, e))
  <2>1. PICK e : Imports(a, file, e) /\ (Raise(a) \/ Pushes(a, file, e))
    BY <1>2
  <2>2. GoodFrames(frames[a], envs')
    BY <2>1, GoodGrows DEF Imports, EnvInv
  <2>3. /\ Forest(envs') /\ Grows(envs, envs') /\ IsList(origin') /\ DOMAIN origin' = DOMAIN envs'
        /\ \A x \in DOMAIN envs : envs[x].parent # 0 => envs'[x] = envs[x]
        /\ DOMAIN registry' = Actors /\ GoodList(registry'[a], envs')
        /\ \A b \in Actors : b # a => registry'[b] = registry[b]
    BY <2>1 DEF Imports
  <2>4. CASE Raise(a)
    <3>1. Leaves(a)
      BY <2>4, RaiseLeaves
    <3>2. GoodFrames(frames'[a], envs')
      BY <2>2, <3>1, CutGood DEF Leaves
    <3>3. \A i \in DOMAIN frames'[a] : i \in DOMAIN frames[a] /\ frames'[a][i].env = frames[a][i].env
      BY <3>1, CutFacts DEF Leaves, Cut
    <3> QED
      BY <2>3, <3>1, <3>2, <3>3 DEF StepOf, Leaves
  <2>5. CASE Pushes(a, file, e)
    <3> DEFINE load == LoadOf(a, file, e)
               f == Frame(e, IF load.runs THEN Body(file) ELSE <<>>, load)
               q == Advanced(a)
               r == Append(q, f)
    <3>1. frames' = [frames EXCEPT ![a] = r] /\ UNCHANGED failed
      BY <2>5 DEF Pushes
    <3>2. Cut(frames[a], q)
      BY AdvancedIs DEF EnvInv
    <3>3. GoodFrames(q, envs')
      BY <2>2, <3>2, CutGood
    <3>4. f.env = e /\ f = Frame(f.env, f.rest, f.load) /\ f.load.env = e
      BY DEF Frame, LoadOf
    <3>5. r = Append(q, f)
      OBVIOUS
    <3> HIDE DEF f, q, r
    <3>6. /\ IsList(r) /\ Len(q) \in Nat /\ DOMAIN q = 1..Len(q)
          /\ DOMAIN r = 1..(Len(q) + 1) /\ r[Len(q) + 1] = f
          /\ \A i \in DOMAIN q : r[i] = q[i]
      BY <3>3, <3>5, Extended DEF GoodFrames
    <3>7. \A i \in DOMAIN r : (i \in DOMAIN q /\ r[i] = q[i]) \/ r[i] = f
      BY <3>6
    <3>8. e \in DOMAIN envs' /\ envs'[e].parent = 0
      BY <2>1 DEF Imports
    <3>9. GoodFrames(r, envs')
      BY <3>3, <3>4, <3>6, <3>7, <3>8 DEF GoodFrames
    <3>10. \A i \in DOMAIN q : i \in DOMAIN frames[a] /\ q[i].env = frames[a][i].env
      BY <3>2, CutFacts DEF Cut
    <3>11. /\ DOMAIN frames' = Actors /\ frames'[a] = r /\ DOMAIN failed' = Actors
           /\ \A b \in Actors : b # a => frames'[b] = frames[b]
      BY <3>1 DEF ShapeInv, EnvInv
    <3>12. \A i \in DOMAIN r : \/ envs'[r[i].env].parent = 0
                               \/ \E j \in DOMAIN frames[a] : frames[a][j].env = r[i].env
      BY <3>4, <3>7, <3>8, <3>10
    <3> QED
      BY <2>3, <3>9, <3>11, <3>12 DEF StepOf
  <2> QED
    BY <2>1, <2>4, <2>5
<1> QED
  BY <1>1, <1>2, BeginIs

\* The prefix of the names an import gives its caller.
PrefixOf(load) == IF load.call.op = "include" THEN <<>> ELSE <<Alias(load.call)>>

\* What the end of an import does to the environments: the module's, e's below it.
Ends(a, m, e) ==
  \E es :
    /\ Forest(es) /\ Grows(envs, es) /\ DOMAIN es = DOMAIN envs
    /\ es[m].entries = envs[m].entries /\ \A x \in DOMAIN envs : x # m => es[x] = envs[x]
    /\ es[m].loaded = envs[m].loaded \/ Top(a).load.runs
    /\ Leads(es, envs', e)
    /\ \/ Raise(a)
       \/ /\ frames' = [frames EXCEPT ![a] = SubSeq(frames[a], 1, Len(frames[a]) - 1)]
          /\ UNCHANGED failed
          /\ \A i \in DOMAIN envs[m].entries : envs[m].entries[i].init =>
               Holder(envs', e, PrefixOf(Top(a).load) \o envs[m].entries[i].name) # 0

\* The marking of a module as loaded.
Loading(es, m) == [es EXCEPT ![m].loaded = TRUE]

\* A module marked as loaded is the same module.
LEMMA MarkLoaded ==
  ASSUME NEW es, Forest(es), NEW m \in DOMAIN es, NEW fs, fs = Loading(es, m)
  PROVE  /\ Forest(fs) /\ Grows(es, fs) /\ DOMAIN fs = DOMAIN es
         /\ fs[m].entries = es[m].entries /\ fs[m].parent = es[m].parent
         /\ \A x \in DOMAIN es : x # m => fs[x] = es[x]
<1> DEFINE y == [es[m] EXCEPT !.loaded = TRUE]
<1>1. IsEnv(es[m])
  BY DEF Forest
<1>2. /\ IsEnv(y) /\ Grown(es[m], y) /\ y.parent = es[m].parent /\ y.entries = es[m].entries
  <2>1. ASSUME NEW w, w
        PROVE  LET z == [es[m] EXCEPT !.loaded = w]
               IN IsEnv(z) /\ Grown(es[m], z) /\ z.parent = es[m].parent /\ z.entries = es[m].entries
    <3> DEFINE z == [es[m] EXCEPT !.loaded = w]
    <3>1. z = [es[m] EXCEPT !.loaded = w]
      OBVIOUS
    <3> HIDE DEF z
    <3>2. IsEnv(z) /\ Grown(es[m], z) /\ z.parent = es[m].parent /\ z.entries = es[m].entries
      BY <1>1, <2>1, <3>1, LoadedSet
    <3> QED
      BY <3>2 DEF z
  <2> QED
    BY <2>1, Zenon
<1>3. fs = [es EXCEPT ![m] = y]
  BY DEF Loading
<1>4. PICK z : z = y
  OBVIOUS
<1> HIDE DEF y
<1>5. IsEnv(z) /\ Grown(es[m], z)
  BY <1>2, <1>4, Zenon
<1>6. fs = [es EXCEPT ![m] = z]
  BY <1>3, <1>4
<1>7. z.parent = es[m].parent /\ z.entries = es[m].entries
  BY <1>2, <1>4
<1>8. Forest(fs) /\ Grows(es, fs) /\ DOMAIN fs = DOMAIN es
  BY <1>5, <1>6, Replaced
<1>9. fs[m] = z /\ \A x \in DOMAIN es : x # m => fs[x] = es[x]
  BY <1>6
<1> QED
  BY <1>7, <1>8, <1>9

\* The end of an import: nothing, or the module marked and its names given.
LEMMA EndImportIs ==
  ASSUME ShapeInv, EnvInv, NEW a \in Actors, EndImport(a)
  PROVE  LET q == frames[a]
             n == Len(q)
         IN /\ n \in Nat /\ n > 1 /\ DOMAIN q = 1..n /\ Top(a) = q[n] /\ q[n].rest = <<>>
            /\ q[n].load.env = q[n].env
            /\ UNCHANGED <<origin, registry>>
            /\ UNCHANGED <<envs, frames, failed>> \/ Ends(a, q[n].env, q[n - 1].env)
<1> DEFINE q == frames[a]
           n == Len(q)
           top == Top(a)
           below == SubSeq(q, 1, n - 1)
           e == below[Len(below)].env
           m == top.load.env
           es == IF top.load.runs THEN [envs EXCEPT ![m].loaded = TRUE] ELSE envs
           alias == Alias(top.load.call)
           start == [State EXCEPT !.envs = es]
           s == IF top.load.call.op = "include" THEN IncludeFrom(start, e, es[m])
                ELSE Give(start, e, es[m], alias)
<1>1. n > 1 /\ top.rest = <<>> /\ UNCHANGED <<origin, registry>>
  BY DEF EndImport
<1>2. \/ UNCHANGED <<envs, frames, failed>>
      \/ /\ envs' = s.envs
         /\ \/ s.ok /\ frames' = [frames EXCEPT ![a] = below] /\ UNCHANGED failed
            \/ Raise(a)
  BY DEF EndImport
<1>3. n \in Nat /\ DOMAIN q = 1..n /\ Len(below) = n - 1 /\ below[n - 1] = q[n - 1]
      /\ n \in DOMAIN q /\ n - 1 \in DOMAIN q
  <2>1. GoodFrames(q, envs)
    BY DEF EnvInv
  <2>2. /\ n \in Nat /\ DOMAIN q = 1..n /\ Len(below) = n - 1 /\ DOMAIN below = 1..(n - 1)
        /\ \A i \in DOMAIN below : below[i] = q[i]
    BY <1>1, <2>1, BelowIs
  <2>3. n - 1 \in DOMAIN below
    BY <1>1, <2>2
  <2> QED
    BY <1>1, <2>2, <2>3
<1>4. e = q[n - 1].env /\ e \in DOMAIN envs
  BY <1>3 DEF EnvInv, GoodFrames
<1>5. top = q[n]
  BY DEF Top
<1>6. m = q[n].env /\ m \in DOMAIN envs /\ q[n].load.env = q[n].env
  BY <1>1, <1>3, <1>5 DEF EnvInv, GoodFrames
<1>7. /\ start = [State EXCEPT !.envs = es]
      /\ s = IF top.load.call.op = "include" THEN IncludeFrom(start, e, es[m])
             ELSE Give(start, e, es[m], alias)
  OBVIOUS
<1>8. /\ Forest(es) /\ Grows(envs, es) /\ DOMAIN es = DOMAIN envs
      /\ es[m].entries = envs[m].entries
      /\ \A x \in DOMAIN envs : x # m => es[x] = envs[x]
      /\ es[m].loaded = envs[m].loaded \/ top.load.runs
  <2>1. Forest(envs)
    BY DEF EnvInv
  <2>2. CASE top.load.runs
    <3>1. es = Loading(envs, m)
      BY <2>2 DEF Loading
    <3> HIDE DEF es, m
    <3> QED
      <4>1. /\ Forest(es) /\ Grows(envs, es) /\ DOMAIN es = DOMAIN envs
            /\ es[m].entries = envs[m].entries
            /\ \A x \in DOMAIN envs : x # m => es[x] = envs[x]
        BY <1>6, <2>1, <3>1, MarkLoaded
      <4> QED
        BY <2>2, <4>1
  <2>3. CASE ~top.load.runs
    <3>1. es = envs
      BY <2>3
    <3> HIDE DEF es, m
    <3> QED
      BY <2>1, <3>1, GrowsNot
  <2> QED
    BY <2>2, <2>3
<1>9. alias = Alias(top.load.call)
  OBVIOUS
<1>10. below = SubSeq(q, 1, n - 1)
  OBVIOUS
<1> HIDE DEF top, e, m, es, start, s, alias, below
<1>11. Bindable(start, e) /\ start.envs = es
  <2>1. IsState(State)
    BY DEF IsState, State
  <2>2. IsState(start) /\ start.envs = es
    BY <1>7, <2>1, StateSet
  <2> QED
    BY <1>4, <1>8, <2>2 DEF Bindable
<1>12. IsEnv(es[m])
  BY <1>6, <1>8 DEF Forest
<1>13. Kept(start, s, e) /\ (s.ok => Given(s, e, es[m], PrefixOf(top.load)))
  <2>1. CASE top.load.call.op = "include"
    BY <1>7, <1>11, <1>12, <2>1, IncludeKeeps DEF PrefixOf
  <2>2. CASE top.load.call.op # "include"
    BY <1>7, <1>9, <1>11, <1>12, <2>2, GiveKeeps DEF PrefixOf
  <2> QED
    BY <2>1, <2>2
<1>14. UNCHANGED <<envs, frames, failed>> \/ Ends(a, m, e)
  <2>1. CASE UNCHANGED <<envs, frames, failed>>
    BY <2>1
  <2>2. CASE /\ envs' = s.envs
             /\ \/ s.ok /\ frames' = [frames EXCEPT ![a] = below] /\ UNCHANGED failed
                \/ Raise(a)
    <3>1. Leads(es, envs', e)
      BY <1>11, <1>13, <2>2 DEF Kept
    <3>2. s.ok => \A i \in DOMAIN envs[m].entries : envs[m].entries[i].init =>
                    Holder(envs', e, PrefixOf(top.load) \o envs[m].entries[i].name) # 0
      BY <1>8, <1>13, <2>2 DEF Given
    <3>3. \/ Raise(a)
          \/ /\ frames' = [frames EXCEPT ![a] = SubSeq(frames[a], 1, Len(frames[a]) - 1)]
             /\ UNCHANGED failed
             /\ \A i \in DOMAIN envs[m].entries : envs[m].entries[i].init =>
                  Holder(envs', e, PrefixOf(top.load) \o envs[m].entries[i].name) # 0
      BY <1>10, <2>2, <3>2
    <3>4. top = Top(a)
      BY DEF top
    <3> QED
      BY <1>8, <3>1, <3>3, <3>4 DEF Ends
  <2> QED
    BY <1>2, <2>1, <2>2
<1> QED
  BY <1>1, <1>3, <1>4, <1>5, <1>6, <1>14 DEF top

\* The end of an import is a step of its thread.
LEMMA EndImportStep ==
  ASSUME ShapeInv, EnvInv, NEW a \in Actors, EndImport(a)
  PROVE  StepOf(a)
<1> DEFINE q == frames[a]
           n == Len(q)
           m == q[n].env
           e == q[n - 1].env
<1>1. /\ n \in Nat /\ n > 1 /\ DOMAIN q = 1..n /\ Top(a) = q[n]
      /\ UNCHANGED <<origin, registry>>
      /\ UNCHANGED <<envs, frames, failed>> \/ Ends(a, m, e)
  BY EndImportIs
<1>2. q # <<>> /\ n - 1 \in DOMAIN q /\ n \in DOMAIN q
  BY <1>1
<1>3. CASE UNCHANGED <<envs, frames, failed>>
  BY <1>1, <1>2, <1>3, QuietStep
<1>4. CASE Ends(a, m, e)
  <2>1. PICK es :
    /\ Forest(es) /\ Grows(envs, es) /\ DOMAIN es = DOMAIN envs
    /\ \A x \in DOMAIN envs : x # m => es[x] = envs[x]
    /\ Leads(es, envs', e)
    /\ \/ Raise(a)
       \/ /\ frames' = [frames EXCEPT ![a] = SubSeq(frames[a], 1, Len(frames[a]) - 1)]
          /\ UNCHANGED failed
    BY <1>4 DEF Ends
  <2>2. Forest(envs') /\ DOMAIN envs' = DOMAIN envs /\ Grows(envs, envs')
    BY <2>1, GrowsMore DEF Leads
  <2>3. m \in DOMAIN envs /\ envs[m].parent = 0
    BY <1>1, <1>2 DEF EnvInv, GoodFrames
  <2>4. Only(envs, envs', e)
    <3> SUFFICES ASSUME NEW x \in DOMAIN envs, x # e, envs[x].parent # 0
                 PROVE  envs'[x] = envs[x]
      BY DEF Only
    <3>1. es[x] = envs[x]
      BY <2>1, <2>3
    <3> QED
      BY <2>1, <3>1 DEF Leads, Only
  <2>5. Leaves(a)
    <3>1. CASE Raise(a)
      BY <1>2, <3>1, RaiseLeaves
    <3>2. CASE /\ frames' = [frames EXCEPT ![a] = SubSeq(q, 1, n - 1)]
               /\ UNCHANGED failed
      <4> DEFINE below == SubSeq(q, 1, n - 1)
      <4>1. below = SubSeq(q, 1, n - 1)
        OBVIOUS
      <4> HIDE DEF below
      <4>2. Cut(q, below)
        BY <1>1, <4>1, BelowIs DEF EnvInv
      <4>3. frames' = [frames EXCEPT ![a] = below]
        BY <3>2, <4>1
      <4> QED
        BY <3>2, <4>2, <4>3 DEF Leaves, ShapeInv, EnvInv
    <3> QED
      BY <2>1, <3>1, <3>2
  <2>6. \E i \in DOMAIN q : q[i].env = e
    BY <1>2
  <2> HIDE DEF e
  <2> QED
    BY <1>1, <2>2, <2>4, <2>5, <2>6, GrownStep DEF Leaves
<1> QED
  BY <1>1, <1>3, <1>4

\* EXPORT is a step of its thread and loads no module.
LEMMA ExportStep ==
  ASSUME ShapeInv, EnvInv, NEW a \in Actors, Export(a)
  PROVE  StepOf(a) /\ SameLoaded
         /\ frames[a] # <<>> /\ (Raise(a) \/ Proceed(a) \/ UNCHANGED <<frames, failed>>)
         /\ UNCHANGED <<origin, registry>>
<1> DEFINE e == Top(a).env
           name == <<Statement(a).name>>
           m == Lookup(registry[a], Statement(a).module)
           type == TypeOf(envs, Holder(envs, e, name), name)
           es == Assign(envs, m, name, type)
           start == [State EXCEPT !.envs = es]
           r == ExportAll(start, e, es[m], registry[a], m)
<1>1. /\ frames[a] # <<>> /\ UNCHANGED <<origin, registry>>
      /\ Raise(a) \/ Proceed(a) \/ UNCHANGED <<frames, failed>>
  BY DEF Export, Ready, Busy
<1>2. envs' = envs \/ (m # 0 /\ envs' = r.envs)
  BY DEF Export
<1>3. e \in DOMAIN envs /\ \E i \in DOMAIN frames[a] : frames[a][i].env = e
  BY <1>1, TopIs
<1>4. CASE envs' = envs
  <2>1. StepOf(a)
    BY <1>1, <1>4, QuietStep
  <2> QED
    BY <1>1, <1>4, <2>1 DEF SameLoaded
<1>5. CASE m # 0 /\ envs' = r.envs
  <2>1. m \in DOMAIN envs /\ envs[m].parent = 0
    BY <1>5, LookupGood DEF EnvInv
  <2>2. /\ es = Assign(envs, m, name, type)
        /\ start = [State EXCEPT !.envs = es]
        /\ r = ExportAll(start, e, es[m], registry[a], m)
    OBVIOUS
  <2> HIDE DEF e, m, name, type, es, start, r
  <2>3. Leads(envs, es, m)
    BY <2>1, <2>2, AssignLeads DEF EnvInv
  <2>4. Leads(envs, es, e)
    BY <2>1, <2>3 DEF Leads, Only
  <2>5. IsState(start) /\ start.envs = es
    <3>1. IsState(State)
      BY DEF IsState, State
    <3> QED
      BY <2>2, <3>1, StateSet
  <2>6. Bindable(start, e)
    BY <1>3, <2>4, <2>5 DEF Bindable, Leads
  <2>7. IsEnv(es[m]) /\ IsList(registry[a])
    BY <2>1, <2>3 DEF Leads, Forest, EnvInv, GoodList
  <2>8. Kept(start, r, e)
    BY <2>2, <2>6, <2>7, ExportAllKeeps
  <2>9. Leads(envs, envs', e)
    BY <1>5, <2>4, <2>5, <2>8, LeadsMore DEF Kept
  <2>10. Leaves(a)
    BY <1>1, SameLeaves, RaiseLeaves, ProceedLeaves
  <2>11. StepOf(a)
    BY <1>1, <1>3, <2>9, <2>10, WithinStep DEF Leaves
  <2> QED
    BY <1>1, <2>9, <2>11 DEF Leads, SameLoaded
<1> QED
  BY <1>2, <1>4, <1>5

-----------------------------------------------------------------------------
(* All steps of a statement. *)

\* What a statement does to the thread's programs.
Moves(a) ==
  \/ UNCHANGED <<frames, failed>>
  \/ Raise(a)
  \/ Proceed(a) /\ Top(a).rest # <<>>
  \/ /\ frames' = [frames EXCEPT ![a] = SubSeq(frames[a], 1, Len(frames[a]) - 1)]
     /\ Len(frames[a]) > 1 /\ UNCHANGED failed
  \/ (\E file, e : Pushes(a, file, e)) /\ Top(a).rest # <<>>

\* A statement of a thread that executes one.
LEMMA ModuleStepOf ==
  ASSUME ShapeInv, EnvInv, BusyInv, NEW a \in Actors, ModuleStep(a)
  PROVE  StepOf(a) /\ frames[a] # <<>> /\ Moves(a)
<1>1. CASE AssignLookup(a)
  <2>1. frames[a] # <<>> /\ (UNCHANGED <<frames, failed>> \/ Raise(a))
    BY <1>1 DEF AssignLookup, Ready, Busy
  <2> QED
    BY <1>1, <2>1, LookupStep DEF Moves
<1>2. CASE AssignDefine(a)
  <2>0. assigning[a] # NotAssigning
    BY <1>2 DEF AssignDefine, NotAssigning
  <2>1. frames[a] # <<>> /\ UNCHANGED <<frames, failed>>
    BY <1>2, <2>0 DEF AssignDefine, BusyInv, BusyAt
  <2> QED
    BY <1>2, <2>1, DefineStep DEF Moves
<1>3. CASE EndAssign(a)
  <2>0. assigning[a] # NotAssigning
    BY <1>3 DEF EndAssign, NotAssigning
  <2>1. frames[a] # <<>> /\ Top(a).rest # <<>> /\ (Proceed(a) \/ Raise(a))
    BY <1>3, <2>0 DEF EndAssign, BusyInv, BusyAt
  <2> QED
    BY <1>3, <2>1, EndAssignStep DEF Moves
<1>4. CASE Fail(a)
  <2>1. frames[a] # <<>> /\ Raise(a) /\ UNCHANGED <<envs, origin, registry>>
    BY <1>4 DEF Fail, Ready, Busy
  <2> QED
    BY <2>1, QuietStep DEF Moves
<1>5. ASSUME NEW file, NEW scope, Begin(a, file, scope), Ready(a)
      PROVE  StepOf(a) /\ frames[a] # <<>> /\ Moves(a)
  <2>1. frames[a] # <<>> /\ Top(a).rest # <<>>
    BY <1>5 DEF Ready, Busy
  <2>2. Raise(a) \/ \E e : Pushes(a, file, e)
    BY <1>5, BeginIs
  <2> QED
    BY <1>5, <2>1, <2>2, BeginStep DEF Moves
<1>6. CASE BeginImport(a) \/ BeginInclude(a) \/ BeginImportPath(a)
  BY <1>5, <1>6 DEF BeginImport, BeginInclude, BeginImportPath
<1>7. CASE EndImport(a)
  <2>1. frames[a] # <<>> /\ Len(frames[a]) > 1
    BY <1>7 DEF EndImport, Busy
  <2>2. Moves(a)
    BY <1>7, <2>1 DEF EndImport, Moves
  <2> QED
    BY <1>7, <2>1, <2>2, EndImportStep
<1>8. CASE Export(a)
  <2>1. Top(a).rest # <<>>
    BY <1>8 DEF Export, Ready
  <2>2. StepOf(a) /\ frames[a] # <<>> /\ (Raise(a) \/ Proceed(a) \/ UNCHANGED <<frames, failed>>)
    BY <1>8, ExportStep
  <2> QED
    BY <2>1, <2>2 DEF Moves
<1>9. CASE Extend(a)
  <2>1. frames[a] # <<>> /\ UNCHANGED <<envs, origin, registry>>
        /\ (Raise(a) \/ UNCHANGED <<frames, failed>>)
    BY <1>9 DEF Extend, Ready, Busy
  <2> QED
    BY <2>1, QuietStep DEF Moves
<1>10. CASE EndExtend(a)
  <2>1. frames[a] # <<>> /\ Top(a).rest # <<>> /\ Proceed(a)
    BY <1>10 DEF EndExtend, ExtendScope, BusyInv, BusyAt
  <2> QED
    BY <1>10, <2>1, EndExtendStep DEF Moves
<1>11. CASE LoaderStep(a) /\ UNCHANGED modVars
  <2>1. extending[a].step # "idle"
    BY <1>11 DEF LoaderStep, ExtendOpen, ExtendInit, ExtendExpose
  <2>2. frames[a] # <<>> /\ UNCHANGED <<envs, origin, registry, frames, failed>>
    BY <1>11, <2>1 DEF BusyInv, BusyAt, modVars
  <2> QED
    BY <2>2, QuietStep DEF Moves
<1> QED
  BY <1>1, <1>2, <1>3, <1>4, <1>6, <1>7, <1>8, <1>9, <1>10, <1>11 DEF ModuleStep

\* A list without its first element.
LEMMA TailIs ==
  ASSUME NEW q, IsList(q), q # <<>>
  PROVE  /\ Head(q) = q[1] /\ 1 \in DOMAIN q /\ IsList(Tail(q))
         /\ Len(q) \in Nat /\ DOMAIN q = 1..Len(q) /\ DOMAIN Tail(q) = 1..(Len(q) - 1)
         /\ \A i \in DOMAIN Tail(q) : Tail(q)[i] = q[i + 1]
<1>1. PICK S : q \in Seq(S)
  BY DEF IsList
<1>2. Tail(q) \in Seq(S) /\ Len(Tail(q)) = Len(q) - 1 /\ Len(q) \in Nat /\ Len(q) # 0
  BY <1>1
<1>3. DOMAIN Tail(q) = 1..(Len(q) - 1) /\ DOMAIN q = 1..Len(q) /\ 1 \in DOMAIN q
  BY <1>1, <1>2
<1>4. \A i \in 1..(Len(q) - 1) : Tail(q)[i] = q[i + 1]
  BY <1>1, <1>2
<1>5. Head(q) = q[1]
  BY <1>1
<1> QED
  BY <1>2, <1>3, <1>4, <1>5 DEF IsList

\* The first statement of a list, and the others.
LEMMA FormedTail ==
  ASSUME NEW q, AllFormed(q), q # <<>>
  PROVE  AllFormed(Tail(q)) /\ Formed(Head(q))
<1>1. /\ Head(q) = q[1] /\ 1 \in DOMAIN q /\ IsList(Tail(q))
      /\ Len(q) \in Nat /\ DOMAIN q = 1..Len(q) /\ DOMAIN Tail(q) = 1..(Len(q) - 1)
      /\ \A i \in DOMAIN Tail(q) : Tail(q)[i] = q[i + 1]
  BY TailIs DEF AllFormed
<1>2. \A i \in DOMAIN Tail(q) : i + 1 \in DOMAIN q
  BY <1>1
<1> QED
  BY <1>1, <1>2 DEF AllFormed

\* No statements are a list of them.
LEMMA FormedEmpty == AllFormed(<<>>)
<1>1. <<>> \in Seq({}) /\ DOMAIN <<>> = {}
  OBVIOUS
<1>2. IsList(<<>>)
  BY <1>1 DEF IsList
<1> QED
  BY <1>1, <1>2 DEF AllFormed

\* The statements left of the thread's programs stay lists of statements.
FormedAt(a) == \A i \in DOMAIN frames[a] : AllFormed(frames[a][i].rest)

\* A statement leaves the thread lists of statements.
LEMMA MovesFormed ==
  ASSUME ProgramsFormed, ShapeInv, EnvInv, NEW a \in Actors, frames[a] # <<>>, FormedAt(a), Moves(a)
  PROVE  FormedAt(a)'
<1> DEFINE q == frames[a]
           n == Len(q)
<1>0. GoodFrames(q, envs) /\ DOMAIN failed = Actors /\ DOMAIN frames = Actors
  BY DEF EnvInv, ShapeInv
<1>1. CASE UNCHANGED <<frames, failed>>
  BY <1>1 DEF FormedAt
<1>2. CASE Raise(a)
  <2> DEFINE x == Frame(q[1].env, <<>>, q[1].load)
  <2>1. frames'[a] = <<x>>
    BY <1>0, <1>2, RaiseIs
  <2>2. x.rest = <<>>
    BY DEF Frame
  <2> HIDE DEF x
  <2>3. \A i \in DOMAIN <<x>> : <<x>>[i] = x
    OBVIOUS
  <2> QED
    BY <2>1, <2>2, <2>3, FormedEmpty DEF FormedAt
<1>3. ASSUME Top(a).rest # <<>>
      PROVE  \A i \in DOMAIN Advanced(a) : AllFormed(Advanced(a)[i].rest)
  <2> DEFINE r == Advanced(a)
             x == Frame(q[n].env, Tail(q[n].rest), q[n].load)
  <2>1. /\ n \in Nat /\ n # 0 /\ DOMAIN q = 1..n /\ Top(a) = q[n]
        /\ DOMAIN r = DOMAIN q /\ r[n] = x
        /\ \A i \in DOMAIN q : i # n => r[i] = q[i]
    BY <1>0, AdvancedIs
  <2>2. n \in DOMAIN q
    BY <2>1
  <2>3. AllFormed(Tail(q[n].rest))
    BY <1>3, <2>1, <2>2, FormedTail DEF FormedAt
  <2>4. x.rest = Tail(q[n].rest)
    BY DEF Frame
  <2> HIDE DEF r, x, n
  <2> QED
    BY <2>1, <2>2, <2>3, <2>4 DEF FormedAt, r
<1>4. CASE Proceed(a) /\ Top(a).rest # <<>>
  <2>1. frames'[a] = Advanced(a)
    BY <1>0, <1>4 DEF Proceed
  <2> QED
    BY <1>3, <1>4, <2>1 DEF FormedAt
<1>5. CASE frames' = [frames EXCEPT ![a] = SubSeq(q, 1, n - 1)] /\ n > 1
  <2> DEFINE r == SubSeq(q, 1, n - 1)
  <2>1. DOMAIN r \subseteq DOMAIN q /\ \A i \in DOMAIN r : r[i] = q[i]
    <3>1. r = SubSeq(q, 1, Len(q) - 1)
      OBVIOUS
    <3> HIDE DEF r
    <3>2. Len(q) \in Nat /\ DOMAIN q = 1..Len(q) /\ DOMAIN r = 1..(Len(q) - 1)
          /\ \A i \in DOMAIN r : r[i] = q[i]
      BY <1>0, <1>5, <3>1, BelowIs
    <3> QED
      BY <3>2
  <2>2. frames'[a] = r
    BY <1>0, <1>5
  <2> HIDE DEF r
  <2> QED
    BY <2>1, <2>2 DEF FormedAt
<1>6. ASSUME NEW file, NEW e, Pushes(a, file, e), Top(a).rest # <<>>
      PROVE  FormedAt(a)'
  <2> DEFINE load == LoadOf(a, file, e)
             rest == IF load.runs THEN Body(file) ELSE <<>>
             f == Frame(e, rest, load)
             r == Advanced(a)
             s == Append(r, f)
  <2>1. frames'[a] = s
    BY <1>0, <1>6 DEF Pushes
  <2>2. AllFormed(rest)
    <3>1. load.runs => file \in Files
      BY DEF LoadOf
    <3> QED
      BY <3>1, FormedEmpty DEF ProgramsFormed
  <2>3. f.rest = rest
    BY DEF Frame
  <2>4. \A i \in DOMAIN r : AllFormed(r[i].rest)
    BY <1>3, <1>6
  <2>5. IsList(r)
    BY <1>0, AdvancedIs DEF Cut
  <2>6. s = Append(r, f)
    OBVIOUS
  <2> HIDE DEF load, rest, f, r, s
  <2>7. /\ Len(r) \in Nat /\ DOMAIN r = 1..Len(r)
        /\ DOMAIN s = 1..(Len(r) + 1) /\ s[Len(r) + 1] = f
        /\ \A i \in DOMAIN r : s[i] = r[i]
    BY <2>5, <2>6, Extended
  <2>8. \A i \in DOMAIN s : (i \in DOMAIN r /\ s[i] = r[i]) \/ s[i] = f
    BY <2>7
  <2> QED
    BY <2>1, <2>2, <2>3, <2>4, <2>8 DEF FormedAt
<1> QED
  BY <1>1, <1>2, <1>4, <1>5, <1>6 DEF Moves

\* The other threads stay where they are in their statements.
LEMMA BusyOther ==
  ASSUME EnvInv, PrivateInv, BusyInv, NEW a \in Actors, StepOf(a), NEW b \in Actors, b # a,
         assigning'[b] = assigning[b], extending'[b] = extending[b]
  PROVE  BusyAt(b)'
<1>1. frames'[b] = frames[b] /\ Top(b)' = Top(b) /\ Statement(b)' = Statement(b)
  BY DEF StepOf, Top, Statement
<1>2. CASE assigning[b] = NotAssigning
  BY <1>1, <1>2 DEF BusyInv, BusyAt
<1>3. CASE assigning[b] # NotAssigning
  <2> DEFINE x == Top(b).env
  <2>1. frames[b] # <<>> /\ x \in DOMAIN envs /\ \E j \in DOMAIN frames[b] : frames[b][j].env = x
    BY <1>3, TopIs DEF BusyInv, BusyAt
  <2>2. envs'[x].parent = envs[x].parent
    BY <2>1 DEF StepOf, Grows, Grown
  <2>3. envs[x].parent # 0 => envs'[x] = envs[x]
    BY <2>1 DEF StepOf, PrivateInv
  <2>4. envs[x].parent # 0 => \A name : At(envs', x, name) = At(envs, x, name)
    BY <2>3 DEF At
  <2>5. BusyAt(b)
    BY DEF BusyInv
  <2> QED
    BY <1>1, <1>3, <2>2, <2>4, <2>5 DEF BusyAt
<1> QED
  BY <1>2, <1>3

\* A thread between two statements.
LEMMA BusyNot ==
  ASSUME NEW a, assigning'[a] = NotAssigning, extending'[a].step = "idle"
  PROVE  BusyAt(a)'
BY DEF BusyAt

\* And the thread that executes is where its statement has brought it.
LEMMA ModuleBusy ==
  ASSUME ShapeInv, EnvInv, BusyInv, NEW a \in Actors, ModuleStep(a)
  PROVE  BusyAt(a)'
<1>0. BusyAt(a)
  BY DEF BusyInv
<1>1. CASE AssignLookup(a)
  <2> DEFINE e == Top(a).env
             name == <<Statement(a).name>>
             h == Holder(envs, e, name)
             into == IF h = 0 /\ envs[e].parent # 0 THEN envs[e].parent ELSE e
             x == [step |-> IF h = 0 THEN "define" ELSE "assign", env |-> into]
  <2>1. /\ Ready(a) /\ Statement(a).op = "assign" /\ UNCHANGED <<envs, extending>>
        /\ frames[a] # <<>> /\ Top(a).rest # <<>> /\ extending[a].step = "idle"
        /\ assigning[a] = NotAssigning
        /\ (assigning' = [assigning EXCEPT ![a] = x] /\ UNCHANGED frames) \/ UNCHANGED assigning
    BY <1>1 DEF AssignLookup, Ready, Busy, extVars
  <2>2. CASE UNCHANGED assigning
    BY <2>1, <2>2, BusyNot
  <2>3. CASE assigning' = [assigning EXCEPT ![a] = x] /\ UNCHANGED frames
    <3>1. assigning'[a] = x /\ Top(a)' = Top(a) /\ Statement(a)' = Statement(a)
      BY <2>3 DEF ShapeInv, Top, Statement
    <3>2. x.step \in {"define", "assign"} /\ x.env = into
      OBVIOUS
    <3>3. \/ into = e
          \/ into = envs[e].parent /\ into # 0 /\ At(envs, e, name) = {}
      <4>1. e \in DOMAIN envs
        BY <2>1, TopIs
      <4>2. e # 0
        BY <4>1 DEF EnvInv, Forest, IsList
      <4> QED
        BY <4>1, <4>2, HolderIs DEF EnvInv
    <3>4. x = [step |-> x.step, env |-> x.env]
      OBVIOUS
    <3> HIDE DEF x, into
    <3> QED
      BY <2>1, <2>3, <3>1, <3>2, <3>3, <3>4 DEF BusyAt
  <2> QED
    BY <2>1, <2>2, <2>3
<1>2. CASE AssignDefine(a)
  <2> DEFINE x == Top(a).env
             d == assigning[a].env
             name == <<Statement(a).name>>
  <2>1. /\ assigning[a] # NotAssigning /\ UNCHANGED <<frames, extending>>
        /\ assigning' = [assigning EXCEPT ![a].step = "assign"]
    BY <1>2 DEF AssignDefine, NotAssigning, extVars
  <2>2. assigning'[a] = [assigning[a] EXCEPT !.step = "assign"]
    BY <2>1 DEF ShapeInv
  <2>3. d \in DOMAIN envs /\ x \in DOMAIN envs
    BY <2>1, AssigningIs, TopIs DEF BusyInv, BusyAt
  <2>4. Grows(envs, envs') /\ \A y \in DOMAIN envs : y # d => envs'[y] = envs[y]
    <3>1. \A v : envs' = Define(envs, d, name, Statement(a).type, v) =>
                   Leads(envs, envs', d) /\ \A y \in DOMAIN envs : y # d => envs'[y] = envs[y]
      BY <2>3, DefineLeads DEF EnvInv
    <3>2. Leads(envs, envs', d) /\ \A y \in DOMAIN envs : y # d => envs'[y] = envs[y]
      BY <1>2, <3>1, Zenon DEF AssignDefine
    <3> QED
      BY <3>2 DEF Leads
  <2>5. envs'[x].parent = envs[x].parent
    BY <2>3, <2>4 DEF Grows, Grown
  <2>6. d # x => At(envs', x, name) = At(envs, x, name)
    BY <2>3, <2>4 DEF At
  <2>7. Top(a)' = Top(a) /\ Statement(a)' = Statement(a) /\ frames'[a] = frames[a]
        /\ extending'[a] = extending[a]
    BY <2>1 DEF Top, Statement
  <2>8. assigning'[a] = [step |-> "assign", env |-> d]
    <3>1. assigning[a] = [step |-> assigning[a].step, env |-> d]
      BY <1>0, <2>1 DEF BusyAt
    <3>2. ASSUME NEW r, NEW u, NEW v, NEW w, r = [step |-> u, env |-> v]
          PROVE  [r EXCEPT !.step = w] = [step |-> w, env |-> v]
      BY <3>2
    <3> QED
      BY <2>2, <3>1, <3>2
  <2>9. /\ extending[a].step = "idle" /\ frames[a] # <<>> /\ Top(a).rest # <<>>
        /\ Statement(a).op = "assign"
        /\ d = x \/ (d = envs[x].parent /\ d # 0 /\ At(envs, x, name) = {})
    BY <1>0, <2>1 DEF BusyAt
  <2>10. d = x \/ (d = envs'[x].parent /\ d # 0 /\ At(envs', x, name) = {})
    BY <2>5, <2>6, <2>9
  <2>11. /\ assigning'[a].env = d /\ assigning'[a].step = "assign"
         /\ assigning'[a] = [step |-> assigning'[a].step, env |-> assigning'[a].env]
    BY <2>8
  <2> HIDE DEF d, x, name
  <2>12. x = Top(a)'.env /\ name = <<Statement(a)'.name>>
    BY <2>7 DEF x, name
  <2> QED
    BY <2>7, <2>9, <2>10, <2>11, <2>12 DEF BusyAt
<1>3. CASE EndAssign(a)
  <2>1. assigning[a] # NotAssigning /\ UNCHANGED extending /\ assigning'[a] = NotAssigning
    BY <1>3 DEF EndAssign, NotAssigning, extVars, ShapeInv
  <2>2. extending[a].step = "idle"
    BY <1>0, <2>1 DEF BusyAt
  <2> QED
    BY <2>1, <2>2, BusyNot
<1>4. ASSUME Ready(a), UNCHANGED <<assigning, extending>>
      PROVE  BusyAt(a)'
  BY <1>4, BusyNot DEF Ready, Busy
<1>5. CASE Fail(a) \/ Export(a)
  BY <1>4, <1>5 DEF Fail, Export, extVars
<1>6. ASSUME NEW file, NEW scope, Begin(a, file, scope) PROVE UNCHANGED <<assigning, extending>>
  BY <1>6 DEF Begin, extVars
<1>7. CASE BeginImport(a) \/ BeginInclude(a) \/ BeginImportPath(a)
  BY <1>4, <1>6, <1>7 DEF BeginImport, BeginInclude, BeginImportPath
<1>8. CASE EndImport(a)
  <2>1. extending[a].step = "idle" /\ Top(a).rest = <<>> /\ UNCHANGED <<assigning, extending>>
    BY <1>8 DEF EndImport, Busy
  <2>2. assigning[a] = NotAssigning
    BY <1>0, <2>1 DEF BusyAt
  <2> QED
    BY <2>1, <2>2, BusyNot
<1>9. CASE Extend(a)
  <2>1. /\ frames[a] # <<>> /\ Top(a).rest # <<>> /\ Statement(a).op = "extend"
        /\ assigning[a] = NotAssigning /\ extending[a].step = "idle" /\ UNCHANGED assigning
        /\ UNCHANGED extending \/ UNCHANGED frames
    BY <1>9 DEF Extend, Ready, Busy, extVars
  <2>2. CASE UNCHANGED extending
    BY <2>1, <2>2, BusyNot
  <2>3. CASE UNCHANGED frames
    BY <2>1, <2>3 DEF BusyAt, Top, Statement
  <2> QED
    BY <2>1, <2>2, <2>3
<1>10. CASE EndExtend(a)
  <2>1. extending[a].step # "idle" /\ UNCHANGED assigning
    BY <1>10 DEF EndExtend, ExtendScope
  <2>2. assigning[a] = NotAssigning
    BY <1>0, <2>1 DEF BusyAt
  <2>3. extending'[a].step = "idle"
    BY <1>10 DEF EndExtend, ExtendScope, ShapeInv, Idle
  <2> QED
    BY <2>1, <2>2, <2>3, BusyNot
<1>11. CASE LoaderStep(a) /\ UNCHANGED modVars
  <2>1. extending[a].step # "idle" /\ UNCHANGED <<frames, assigning>>
    BY <1>11 DEF LoaderStep, ExtendOpen, ExtendInit, ExtendExpose, modVars
  <2>2. /\ assigning[a] = NotAssigning
        /\ frames[a] # <<>> /\ Top(a).rest # <<>> /\ Statement(a).op = "extend"
    BY <1>0, <2>1 DEF BusyAt
  <2> QED
    BY <2>1, <2>2 DEF BusyAt, Top, Statement
<1> QED
  BY <1>1, <1>2, <1>3, <1>5, <1>7, <1>8, <1>9, <1>10, <1>11 DEF ModuleStep

-----------------------------------------------------------------------------
(* The steps of the program's thread and of the workers. *)

\* The inductive invariant of modules, environments and programs, beside IInv.
ProgramInv == EnvInv /\ PrivateInv /\ IdleInv /\ BusyInv /\ FormedInv

\* A list of one element.
LEMMA One ==
  ASSUME NEW x
  PROVE  IsList(<<x>>) /\ DOMAIN <<x>> = {1} /\ <<x>>[1] = x
<1>1. <<x>> \in Seq({x})
  OBVIOUS
<1>2. IsList(<<x>>)
  BY <1>1 DEF IsList
<1> QED
  BY <1>2

\* A step that leaves every thread's statement where it is.
LEMMA BusyKept ==
  ASSUME BusyInv, UNCHANGED <<envs, frames, assigning, extending>>
  PROVE  BusyInv'
BY DEF BusyInv, BusyAt, Top, Statement, At

\* Environments and programs that stay as they are.
LEMMA EnvKept ==
  ASSUME EnvInv, PrivateInv, UNCHANGED <<envs, origin, registry, frames, failed>>
  PROVE  EnvInv' /\ PrivateInv'
BY DEF EnvInv, PrivateInv

\* One thread's programs start or end while it is in no statement.
LEMMA OneStep ==
  ASSUME ShapeInv, EnvInv, PrivateInv, BusyInv, NEW a \in Actors, StepOf(a),
         UNCHANGED <<assigning, extending>>,
         assigning[a] = NotAssigning, extending[a].step = "idle"
  PROVE  EnvInv' /\ PrivateInv' /\ BusyInv'
<1>1. EnvInv' /\ PrivateInv'
  BY StepKeeps
<1>2. ASSUME NEW b \in Actors PROVE BusyAt(b)'
  BY BusyOther, BusyNot
<1> QED
  BY <1>1, <1>2 DEF BusyInv

\* A step of PARALLEL that changes nothing of modules and programs.
LEMMA StayStep ==
  ASSUME ProgramInv, UNCHANGED <<envs, origin, registry, frames, failed, assigning, extending>>,
         UNCHANGED program, UNCHANGED worker
  PROVE  ProgramInv'
<1>1. EnvInv' /\ PrivateInv' /\ BusyInv'
  BY EnvKept, BusyKept DEF ProgramInv
<1>2. IdleInv' /\ FormedInv'
  BY DEF ProgramInv, IdleInv, FormedInv
<1> QED
  BY <1>1, <1>2 DEF ProgramInv

\* The program's next statement.
LEMMA NextStatementKeeps ==
  ASSUME IInv, ProgramInv, NextStatement
  PROVE  ProgramInv'
<1> DEFINE f == Frame(Global, <<Head(program)>>, NoLoad)
<1>0. ShapeInv /\ EnvInv /\ PrivateInv /\ IdleInv /\ BusyInv /\ FormedInv
  BY DEF IInv, ProgramInv
<1>1. /\ program # <<>> /\ program' = Tail(program) /\ UNCHANGED worker
      /\ UNCHANGED <<envs, origin, registry, assigning, extending>>
      /\ frames' = [frames EXCEPT ![Main] = <<f>>] /\ failed' = [failed EXCEPT ![Main] = FALSE]
      /\ frames[Main] = <<>> \/ Top(Main).rest = <<>>
  BY DEF NextStatement, extVars
<1>2. /\ frames'[Main] = <<f>> /\ DOMAIN frames' = Actors
      /\ \A b \in Actors : b # Main => frames'[b] = frames[b]
      /\ DOMAIN failed' = Actors
  BY <1>0, <1>1, ActorFacts DEF ShapeInv, EnvInv
<1>3. f.env = Global /\ f = Frame(f.env, f.rest, f.load) /\ f.rest = <<Head(program)>>
  BY DEF Frame
<1> HIDE DEF f
<1>4. IsList(<<f>>) /\ DOMAIN <<f>> = {1} /\ <<f>>[1] = f
  BY One
<1>5. Forest(envs) /\ Grows(envs, envs) /\ Global \in DOMAIN envs /\ envs[Global].parent = 0
  BY <1>0, GrowsNot DEF EnvInv, Forest
<1>6. GoodFrames(<<f>>, envs)
  BY <1>3, <1>4, <1>5 DEF GoodFrames
<1>7. StepOf(Main)
  BY <1>0, <1>1, <1>2, <1>3, <1>4, <1>5, <1>6, ActorFacts DEF StepOf, EnvInv, ShapeInv
<1>8. assigning[Main] = NotAssigning /\ extending[Main].step = "idle"
  BY <1>0, <1>1, ActorFacts DEF BusyInv, BusyAt
<1>9. EnvInv' /\ PrivateInv' /\ BusyInv'
  BY <1>0, <1>1, <1>7, <1>8, OneStep, ActorFacts
<1>10. IdleInv'
  BY <1>0, <1>1, <1>2, ActorFacts DEF IdleInv
<1>11. FormedInv'
  <2>1. AllFormed(Tail(program)) /\ Formed(Head(program))
    BY <1>0, <1>1, FormedTail DEF FormedInv
  <2>2. IsList(<<Head(program)>>) /\ DOMAIN <<Head(program)>> = {1}
        /\ <<Head(program)>>[1] = Head(program)
    BY One
  <2>3. AllFormed(f.rest)
    BY <1>3, <2>1, <2>2 DEF AllFormed
  <2> QED
    BY <1>1, <1>2, <1>4, <2>1, <2>3 DEF FormedInv
<1> QED
  BY <1>9, <1>10, <1>11 DEF ProgramInv

\* The end of PARALLEL, or a call that fails.
LEMMA MainMoves ==
  ASSUME ProgramsFormed, ShapeInv, EnvInv, PrivateInv, BusyInv, FormedInv, frames[Main] # <<>>,
         Raise(Main) \/ (Proceed(Main) /\ Top(Main).rest # <<>>) \/ UNCHANGED <<frames, failed>>,
         UNCHANGED <<envs, origin, registry, assigning, extending, program>>,
         assigning[Main] = NotAssigning, extending[Main].step = "idle"
  PROVE  EnvInv' /\ PrivateInv' /\ BusyInv' /\ FormedInv'
         /\ \A b \in Actors : b # Main => frames'[b] = frames[b]
<1>1. StepOf(Main)
  BY QuietStep, ActorFacts
<1>2. EnvInv' /\ PrivateInv' /\ BusyInv'
  BY <1>1, OneStep, ActorFacts
<1>3. FormedInv'
  <2>1. Moves(Main)
    BY DEF Moves
  <2>2. FormedAt(Main)
    BY DEF FormedInv, FormedAt
  <2>3. FormedAt(Main)'
    BY <2>1, <2>2, MovesFormed, ActorFacts
  <2> QED
    BY <2>3 DEF FormedInv, FormedAt
<1> QED
  BY <1>1, <1>2, <1>3 DEF StepOf

\* The call of PARALLEL.
LEMMA CallKeeps ==
  ASSUME ProgramsFormed, IInv, ProgramInv, CallParallel
  PROVE  ProgramInv'
<1>0. ShapeInv /\ EnvInv /\ PrivateInv /\ IdleInv /\ BusyInv /\ FormedInv
  BY DEF IInv, ProgramInv
<1>1. /\ phase = "off" /\ frames[Main] # <<>>
      /\ Raise(Main) \/ UNCHANGED <<frames, failed>>
      /\ UNCHANGED <<envs, origin, registry, assigning, extending, program>>
      /\ assigning[Main] = NotAssigning /\ extending[Main].step = "idle"
      /\ UNCHANGED worker \/ worker' = [w \in Workers |-> "none"]
  BY DEF CallParallel, Ready, Busy, extVars
<1>2. /\ EnvInv' /\ PrivateInv' /\ BusyInv' /\ FormedInv'
      /\ \A b \in Actors : b # Main => frames'[b] = frames[b]
  BY <1>0, <1>1, MainMoves
<1>3. IdleInv'
  <2>1. \A w \in Workers : worker[w] # "run"
    BY <1>1 DEF IInv, CallInv, Running
  <2> QED
    BY <1>0, <1>2, <2>1, ActorFacts DEF IdleInv
<1> QED
  BY <1>2, <1>3 DEF ProgramInv

\* The end of PARALLEL.
LEMMA EndParallelKeeps ==
  ASSUME ProgramsFormed, IInv, ProgramInv, EndParallel
  PROVE  ProgramInv'
<1>0. ShapeInv /\ EnvInv /\ PrivateInv /\ IdleInv /\ BusyInv /\ FormedInv
  BY DEF IInv, ProgramInv
<1>1. /\ phase # "off"
      /\ Raise(Main) \/ Proceed(Main)
      /\ UNCHANGED worker
      /\ UNCHANGED <<envs, origin, registry, assigning, extending, program>>
  BY DEF EndParallel, extVars
<1>2. /\ frames[Main] # <<>> /\ Top(Main).rest # <<>>
      /\ assigning[Main] = NotAssigning /\ extending[Main].step = "idle"
  BY <1>1 DEF IInv, CallInv, Calling
<1>3. /\ EnvInv' /\ PrivateInv' /\ BusyInv' /\ FormedInv'
      /\ \A b \in Actors : b # Main => frames'[b] = frames[b]
  BY <1>0, <1>1, <1>2, MainMoves
<1>4. IdleInv'
  BY <1>0, <1>1, <1>3, ActorFacts DEF IdleInv, EndParallel
<1> QED
  BY <1>3, <1>4 DEF ProgramInv

\* The start of a worker.
LEMMA StartKeeps ==
  ASSUME IInv, ProgramInv, StartWorker
  PROVE  ProgramInv'
<1>0. ShapeInv /\ EnvInv /\ PrivateInv /\ IdleInv /\ BusyInv /\ FormedInv
  BY DEF IInv, ProgramInv
<1>1. /\ phase = "start" /\ next <= Len(Functions)
      /\ UNCHANGED <<envs, origin, frames, failed, assigning, extending, program>>
      /\ \E x \in {"bind", "unstarted"} : worker' = [worker EXCEPT ![next] = x]
      /\ UNCHANGED registry \/ registry' = [registry EXCEPT ![next] = registry[Main]]
  BY DEF StartWorker, extVars
<1>2. next \in Workers /\ next \in Actors /\ worker[next] = "none"
  <2>1. next \in 1..MaxWorkers
    BY <1>1, ActorFacts DEF IInv, PlaceInv, CallInv, Calling
  <2> QED
    BY <1>1, <2>1, ActorFacts DEF IInv, CallInv
<1>3. frames[next] = <<>>
  BY <1>0, <1>2 DEF IdleInv
<1>4. GoodList(registry'[next], envs) /\ DOMAIN registry' = Actors
      /\ \A b \in Actors : b # next => registry'[b] = registry[b]
  BY <1>0, <1>1, <1>2, ActorFacts DEF EnvInv, ShapeInv
<1>5. StepOf(next)
  <2>1. Forest(envs) /\ Grows(envs, envs)
    BY <1>0, GrowsNot DEF EnvInv
  <2>2. DOMAIN frames[next] = {}
    BY <1>3
  <2>3. GoodFrames(frames[next], envs)
    BY <1>0, <1>2 DEF EnvInv
  <2> QED
    BY <1>0, <1>1, <1>4, <2>1, <2>2, <2>3 DEF StepOf, EnvInv, ShapeInv
<1>6. assigning[next] = NotAssigning /\ extending[next].step = "idle"
  BY <1>0, <1>2, <1>3 DEF BusyInv, BusyAt
<1>7. EnvInv' /\ PrivateInv' /\ BusyInv'
  BY <1>0, <1>1, <1>2, <1>5, <1>6, OneStep
<1>8. IdleInv'
  <2>1. \A w \in Workers : w # next => worker'[w] = worker[w]
    BY <1>1
  <2> QED
    BY <1>0, <1>1, <1>3, <2>1 DEF IdleInv
<1>9. FormedInv'
  BY <1>0, <1>1 DEF FormedInv
<1> QED
  BY <1>7, <1>8, <1>9 DEF ProgramInv

\* A worker that is to bind its parameters has a function.
LEMMA WorkerFunction ==
  ASSUME IInv, EnvInv, FormedInv, NEW w \in Workers, Running(w)
  PROVE  w \in DOMAIN Functions /\ IsList(Functions[w].params)
<1>1. phase # "off" /\ Calling
  BY DEF IInv, CallInv
<1>2. w <= Len(Functions)
  <2>1. w \in Nat /\ next \in Nat /\ Len(Functions) \in Nat
    BY <1>1, ActorFacts DEF Calling, IInv, PlaceInv
  <2>2. worker[w] # "none"
    BY DEF Running
  <2>3. CASE phase = "start"
    <3>1. next <= Len(Functions) + 1 /\ ~(w >= next)
      BY <2>2, <2>3 DEF IInv, CallInv
    <3> QED
      BY <2>1, <3>1
  <2>4. CASE phase = "join"
    BY <2>1, <2>2, <2>4 DEF IInv, CallInv
  <2> QED
    BY <1>1, <2>3, <2>4 DEF IInv, PlaceInv
<1>3. Formed(Statement(Main))
  <2> DEFINE n == Len(frames[Main])
  <2>1. IsList(frames[Main])
    BY ActorFacts DEF EnvInv, GoodFrames
  <2>2. n \in DOMAIN frames[Main] /\ Top(Main).rest # <<>>
    BY <1>1, <2>1, ListLen DEF Calling
  <2>3. AllFormed(Top(Main).rest)
    BY <2>2 DEF FormedInv, Top
  <2> QED
    BY <2>2, <2>3, FormedTail DEF Statement
<1>4. IsList(Functions) /\ \A j \in DOMAIN Functions : IsList(Functions[j].params)
  BY <1>1, <1>3 DEF Formed, Calling, Functions
<1>5. w \in DOMAIN Functions
  <2>1. DOMAIN Functions = 1..Len(Functions) /\ Len(Functions) \in Nat
    BY <1>4 DEF IsList
  <2> QED
    BY <1>2, <2>1, ActorFacts
<1> QED
  BY <1>4, <1>5

\* The environment of a call: the function's parameters.
Call(f) ==
  [NewEnv(Global, NoName, NoName) EXCEPT !.entries =
     [i \in DOMAIN f.params |-> Entry(<<f.params[i].name>>, f.params[i].type, TRUE)]]

\* An environment with other entries.
LEMMA EntriesOf ==
  ASSUME NEW r, IsEnv(r), NEW list, IsList(list),
         \A i \in DOMAIN list : list[i] = Entry(list[i].name, list[i].type, list[i].init)
  PROVE  /\ IsEnv([r EXCEPT !.entries = list]) /\ [r EXCEPT !.entries = list].parent = r.parent
         /\ [r EXCEPT !.entries = list].loaded = r.loaded
         /\ [r EXCEPT !.entries = list].entries = list
<1> DEFINE x == [r EXCEPT !.entries = list]
<1>1. /\ x = [entries |-> list, parent |-> r.parent, source |-> r.source, scope |-> r.scope,
              loaded |-> r.loaded, extensions |-> r.extensions]
  BY DEF IsEnv
<1>2. /\ x.entries = list /\ x.parent = r.parent /\ x.source = r.source /\ x.scope = r.scope
      /\ x.loaded = r.loaded /\ x.extensions = r.extensions
  BY <1>1
<1>3. x = [entries |-> x.entries, parent |-> x.parent, source |-> x.source, scope |-> x.scope,
           loaded |-> x.loaded, extensions |-> x.extensions]
  BY <1>1, <1>2
<1>4. x.entries = list /\ x.extensions = r.extensions
  BY <1>2
<1> HIDE DEF x
<1>5. IsEnv(x)
  BY <1>3, <1>4 DEF IsEnv
<1> QED
  BY <1>2, <1>5 DEF x

\* The environment of a call is an environment below the global one.
LEMMA CallIs ==
  ASSUME NEW f, IsList(f.params)
  PROVE  IsEnv(Call(f)) /\ Call(f).parent = Global /\ ~Call(f).loaded
<1> DEFINE p == f.params
           r == NewEnv(Global, NoName, NoName)
           list(v) == [i \in DOMAIN p |-> Entry(<<p[i].name>>, p[i].type, v)]
<1>1. IsEnv(r) /\ r.parent = Global /\ ~r.loaded
  BY NewEnvIs
<1>2. \A v : /\ IsList(list(v))
             /\ \A i \in DOMAIN list(v) :
                  list(v)[i] = Entry(list(v)[i].name, list(v)[i].type, list(v)[i].init)
  <2> SUFFICES ASSUME NEW v
               PROVE  /\ IsList(list(v))
                      /\ \A i \in DOMAIN list(v) :
                           list(v)[i] = Entry(list(v)[i].name, list(v)[i].type, list(v)[i].init)
    OBVIOUS
  <2>1. DOMAIN p = 1..Len(p) /\ Len(p) \in Nat
    BY ListLen
  <2>2. list(v) \in [1..Len(p) -> {list(v)[i] : i \in DOMAIN p}]
    BY <2>1
  <2>3. list(v) \in Seq({list(v)[i] : i \in DOMAIN p})
    BY <2>1, <2>2
  <2> QED
    BY <2>3 DEF IsList, Entry
<1> HIDE DEF r
<1>3. \A v : LET x == [r EXCEPT !.entries = list(v)]
             IN IsEnv(x) /\ x.parent = Global /\ ~x.loaded
  <2> SUFFICES ASSUME NEW v
               PROVE  LET x == [r EXCEPT !.entries = list(v)]
                      IN IsEnv(x) /\ x.parent = Global /\ ~x.loaded
    OBVIOUS
  <2> DEFINE l == list(v)
  <2>1. IsList(l) /\ \A i \in DOMAIN l : l[i] = Entry(l[i].name, l[i].type, l[i].init)
    BY <1>2
  <2> HIDE DEF l
  <2>2. LET x == [r EXCEPT !.entries = l] IN IsEnv(x) /\ x.parent = Global /\ ~x.loaded
    BY <1>1, <2>1, EntriesOf
  <2> QED
    BY <2>2 DEF l
<1>4. Call(f) = [r EXCEPT !.entries = list(TRUE)]
  BY DEF Call, r
<1> QED
  BY <1>3, <1>4, Zenon

\* A worker's call starts, or does not.
LEMMA BindParametersKeeps ==
  ASSUME IInv, ProgramInv, NEW w \in Workers, BindParameters(w)
  PROVE  ProgramInv'
<1> DEFINE f == Functions[w]
           call == Call(f)
           fs == Append(envs, call)
           n == Len(fs)
           frame == Frame(n, f.body, NoLoad)
<1>0. /\ ShapeInv /\ EnvInv /\ PrivateInv /\ IdleInv /\ BusyInv /\ FormedInv
      /\ w \in Actors /\ w # Main /\ frames[w] = <<>>
  BY ActorFacts DEF IInv, ProgramInv, IdleInv, BindParameters
<1>1. worker[w] = "bind" /\ UNCHANGED <<program, assigning, extending>>
  BY DEF BindParameters, extVars
<1>2. assigning[w] = NotAssigning /\ extending[w].step = "idle"
  BY <1>0 DEF BusyInv, BusyAt
<1>3. IsList(f.params)
  BY <1>0, <1>1, WorkerFunction DEF Running
<1>4. IsEnv(call) /\ call.parent = Global
  BY <1>3, CallIs
<1>5. \/ /\ UNCHANGED <<envs, origin, frames, failed>>
         /\ worker' = [worker EXCEPT ![w] = "done"]
         /\ registry' = [registry EXCEPT ![w] = <<>>]
      \/ /\ envs' = fs /\ origin' = Append(origin, Missing)
         /\ frames' = [frames EXCEPT ![w] = <<frame>>]
         /\ failed' = [failed EXCEPT ![w] = FALSE]
         /\ worker' = [worker EXCEPT ![w] = "run"]
         /\ UNCHANGED registry
  BY DEF BindParameters, Call
<1> HIDE DEF call, f
<1>6. StepOf(w) /\ frames'[Main] = frames[Main] /\ IdleInv'
  <2>1. CASE /\ UNCHANGED <<envs, origin, frames, failed>>
             /\ worker' = [worker EXCEPT ![w] = "done"]
             /\ registry' = [registry EXCEPT ![w] = <<>>]
    <3>1. Forest(envs) /\ Grows(envs, envs) /\ DOMAIN <<>> = {} /\ <<>> \in Seq({})
      BY <1>0, GrowsNot DEF EnvInv
    <3>2. GoodList(registry'[w], envs) /\ GoodFrames(frames[w], envs) /\ DOMAIN frames[w] = {}
      BY <1>0, <2>1, <3>1 DEF GoodList, IsList, EnvInv, ShapeInv
    <3>3. IdleInv'
      BY <1>0, <2>1 DEF IdleInv
    <3> QED
      BY <1>0, <2>1, <3>1, <3>2, <3>3 DEF StepOf, EnvInv, ShapeInv
  <2>2. CASE /\ envs' = fs /\ origin' = Append(origin, Missing)
             /\ frames' = [frames EXCEPT ![w] = <<frame>>]
             /\ failed' = [failed EXCEPT ![w] = FALSE]
             /\ worker' = [worker EXCEPT ![w] = "run"]
             /\ UNCHANGED registry
    <3>1. fs = Append(envs, call)
      OBVIOUS
    <3>2. frame.env = n /\ frame = Frame(frame.env, frame.rest, frame.load)
      BY DEF Frame
    <3>3. n = Len(fs)
      OBVIOUS
    <3> HIDE DEF fs, frame, n
    <3>4. /\ Forest(fs) /\ Grows(envs, fs) /\ Len(envs) \in Nat /\ DOMAIN envs = 1..Len(envs)
          /\ DOMAIN fs = 1..(Len(envs) + 1) /\ fs[Len(envs) + 1] = call
          /\ \A e \in DOMAIN envs : fs[e] = envs[e]
      BY <1>0, <1>4, <3>1, ForestMore DEF EnvInv
    <3>5. /\ IsList(origin') /\ Len(origin) \in Nat /\ DOMAIN origin = 1..Len(origin)
          /\ DOMAIN origin' = 1..(Len(origin) + 1)
      BY <1>0, <2>2, Extended DEF EnvInv
    <3>6. Len(origin) = Len(envs)
      BY <1>0, <3>4, <3>5 DEF EnvInv
    <3>7. IsList(<<frame>>) /\ DOMAIN <<frame>> = {1} /\ <<frame>>[1] = frame
      BY One
    <3>8. n = Len(envs) + 1 /\ n \in DOMAIN fs /\ n \notin DOMAIN envs
      <4>1. IsList(fs)
        BY <3>4 DEF Forest
      <4>2. Len(fs) \in Nat /\ DOMAIN fs = 1..Len(fs)
        BY <4>1, ListLen
      <4>3. n = Len(envs) + 1
        BY <3>3, <3>4, <4>2
      <4> QED
        BY <3>4, <4>3
    <3>9. GoodFrames(<<frame>>, fs)
      BY <3>2, <3>7, <3>8 DEF GoodFrames
    <3>10. GoodList(registry[w], fs)
      BY <1>0, <3>4, GoodGrows DEF EnvInv
    <3>11. /\ frames'[w] = <<frame>> /\ DOMAIN frames' = Actors /\ DOMAIN failed' = Actors
           /\ \A b \in Actors : b # w => frames'[b] = frames[b]
           /\ DOMAIN registry' = Actors
      BY <1>0, <2>2 DEF ShapeInv, EnvInv
    <3>12. StepOf(w)
      <4>1. \A i \in DOMAIN frames'[w] : frames'[w][i].env \notin DOMAIN envs
        BY <3>2, <3>7, <3>8, <3>11
      <4>2. DOMAIN origin' = DOMAIN envs'
        BY <2>2, <3>4, <3>5, <3>6
      <4> QED
        BY <1>0, <2>2, <3>4, <3>5, <3>9, <3>10, <3>11, <4>1, <4>2 DEF StepOf
    <3>13. IdleInv'
      <4>1. \A v \in Workers : v # w => worker'[v] = worker[v] /\ frames'[v] = frames[v]
        BY <2>2, <3>11, ActorFacts
      <4>2. worker'[w] = "run"
        BY <1>1, <2>2 DEF IInv, PlaceInv
      <4> QED
        BY <1>0, <4>1, <4>2 DEF IdleInv
    <3> QED
      BY <1>0, <3>11, <3>12, <3>13, ActorFacts
  <2> QED
    BY <1>5, <2>1, <2>2
<1>7. EnvInv' /\ PrivateInv' /\ BusyInv'
  BY <1>0, <1>1, <1>2, <1>6, OneStep
<1>8. FormedInv'
  BY <1>0, <1>1, <1>6 DEF FormedInv
<1> QED
  BY <1>6, <1>7, <1>8 DEF ProgramInv

\* A worker ends.
LEMMA EndWorkerKeeps ==
  ASSUME IInv, ProgramInv, NEW w \in Workers, EndWorker(w)
  PROVE  ProgramInv'
<1>0. /\ ShapeInv /\ EnvInv /\ PrivateInv /\ IdleInv /\ BusyInv /\ FormedInv
      /\ w \in Actors /\ w # Main
  BY ActorFacts DEF IInv, ProgramInv
<1>1. /\ frames[w] # <<>> /\ Top(w).rest = <<>> /\ extending[w].step = "idle"
      /\ UNCHANGED <<program, envs, origin, assigning, extending>>
      /\ worker' = [worker EXCEPT ![w] = "done"] /\ frames' = [frames EXCEPT ![w] = <<>>]
      /\ registry' = [registry EXCEPT ![w] = <<>>] /\ failed' = [failed EXCEPT ![w] = FALSE]
  BY DEF EndWorker, Ended, Busy, extVars
<1>2. assigning[w] = NotAssigning
  BY <1>0, <1>1 DEF BusyInv, BusyAt
<1>3. /\ frames'[w] = <<>> /\ registry'[w] = <<>> /\ DOMAIN frames' = Actors
      /\ DOMAIN registry' = Actors /\ DOMAIN failed' = Actors
      /\ \A b \in Actors : b # w => frames'[b] = frames[b] /\ registry'[b] = registry[b]
  BY <1>0, <1>1 DEF ShapeInv, EnvInv
<1>4. StepOf(w)
  <2>1. Forest(envs) /\ Grows(envs, envs) /\ DOMAIN <<>> = {} /\ <<>> \in Seq({})
    BY <1>0, GrowsNot DEF EnvInv
  <2>2. GoodList(<<>>, envs) /\ GoodFrames(<<>>, envs)
    BY <2>1 DEF GoodList, GoodFrames, IsList
  <2> QED
    BY <1>0, <1>1, <1>3, <2>1, <2>2 DEF StepOf, EnvInv
<1>5. EnvInv' /\ PrivateInv' /\ BusyInv'
  BY <1>0, <1>1, <1>2, <1>4, OneStep
<1>6. IdleInv'
  BY <1>0, <1>1, <1>3, ActorFacts DEF IdleInv
<1>7. FormedInv'
  BY <1>0, <1>1, <1>3, ActorFacts DEF FormedInv
<1> QED
  BY <1>5, <1>6, <1>7 DEF ProgramInv

\* A thread executes a part of a statement.
LEMMA ExecuteKeeps ==
  ASSUME ProgramsFormed, IInv, ProgramInv, NEW a \in Actors, Execute(a)
  PROVE  ProgramInv'
<1>0. ShapeInv /\ EnvInv /\ PrivateInv /\ IdleInv /\ BusyInv /\ FormedInv /\ ModuleStep(a)
  BY DEF IInv, ProgramInv, Execute
<1>1. StepOf(a) /\ frames[a] # <<>> /\ Moves(a)
  BY <1>0, ModuleStepOf
<1>2. EnvInv' /\ PrivateInv'
  BY <1>0, <1>1, StepKeeps
<1>3. BusyInv'
  <2>1. Apart(a)
    BY <1>0, StepApart
  <2>2. \A b \in Actors : b # a => assigning'[b] = assigning[b] /\ extending'[b] = extending[b]
    BY <2>1 DEF Apart
  <2>3. BusyAt(a)'
    BY <1>0, ModuleBusy
  <2>4. \A b \in Actors : b # a => BusyAt(b)'
    BY <1>0, <1>1, <2>2, BusyOther
  <2> QED
    BY <2>3, <2>4 DEF BusyInv
<1>4. UNCHANGED <<worker, program>> /\ \A b \in Actors : b # a => frames'[b] = frames[b]
  BY <1>1 DEF Execute, parVars, StepOf
<1>5. IdleInv'
  BY <1>0, <1>1, <1>4, ActorFacts DEF IdleInv
<1>6. FormedInv'
  <2>1. CASE a = Main
    <3>1. FormedAt(a)
      BY <1>0, <2>1 DEF FormedInv, FormedAt
    <3>2. FormedAt(a)'
      BY <1>0, <1>1, <3>1, MovesFormed
    <3> QED
      BY <1>0, <1>4, <2>1, <3>2 DEF FormedInv, FormedAt
  <2>2. CASE a # Main
    BY <1>0, <1>4, <2>2, ActorFacts DEF FormedInv
  <2> QED
    BY <2>1, <2>2
<1> QED
  BY <1>2, <1>3, <1>5, <1>6 DEF ProgramInv

\* At the start there is the global environment and no program in execution.
LEMMA ProgramInit ==
  ASSUME ProgramsFormed, Init
  PROVE  ProgramInv
<1> DEFINE x == NewEnv(0, MainDir, NoName)
<1>1. /\ envs = <<x>> /\ origin = <<Missing>> /\ program \in Programs
      /\ registry = [a \in Actors |-> <<>>] /\ frames = [a \in Actors |-> <<>>]
      /\ DOMAIN failed = Actors /\ assigning = [a \in Actors |-> NotAssigning]
      /\ \A a \in Actors : extending[a].step = "idle"
  BY DEF Init, InitModules, ExtInit, Idle
<1>2. IsEnv(x) /\ x.parent = 0
  BY NewEnvIs
<1> HIDE DEF x
<1>3. IsList(<<x>>) /\ DOMAIN <<x>> = {1} /\ <<x>>[1] = x
  BY One
<1>4. IsList(<<Missing>>) /\ DOMAIN <<Missing>> = {1}
  BY One
<1>5. Forest(envs)
  BY <1>1, <1>2, <1>3 DEF Forest, Global
<1>6. DOMAIN <<>> = {} /\ <<>> \in Seq({})
  OBVIOUS
<1>7. \A es : GoodList(<<>>, es) /\ GoodFrames(<<>>, es)
  BY <1>6 DEF GoodList, GoodFrames, IsList
<1>8. EnvInv
  BY <1>1, <1>3, <1>4, <1>5, <1>7 DEF EnvInv
<1>9. PrivateInv /\ IdleInv
  BY <1>1, <1>6, ActorFacts DEF PrivateInv, IdleInv
<1>10. BusyInv
  BY <1>1 DEF BusyInv, BusyAt
<1>11. FormedInv
  BY <1>1, <1>6, ActorFacts DEF FormedInv, ProgramsFormed
<1> QED
  BY <1>8, <1>9, <1>10, <1>11 DEF ProgramInv

\* Every step preserves it.
LEMMA ProgramNext ==
  ASSUME ProgramsFormed, IInv, ProgramInv, [Next]_vars
  PROVE  ProgramInv'
<1>1. CASE AllStarted \/ Join \/ JoinUnstarted \/ UNCHANGED vars
  <2>1. UNCHANGED <<envs, origin, registry, frames, failed, assigning, extending, program, worker>>
    BY <1>1 DEF AllStarted, Join, JoinUnstarted, vars, extVars, modVars, parVars
  <2> QED
    BY <2>1, StayStep
<1>2. CASE ParentStep
  BY <1>1, <1>2, CallKeeps, StartKeeps, EndParallelKeeps DEF ParentStep
<1>3. CASE \E w \in Workers : WorkerStep(w)
  BY <1>3, BindParametersKeeps, EndWorkerKeeps DEF WorkerStep
<1>4. CASE \E a \in Actors : Execute(a)
  BY <1>4, ExecuteKeeps
<1> QED
  BY <1>1, <1>2, <1>3, <1>4, NextStatementKeeps DEF Next

\* In every state the environments are a forest that only grows, the environments of
\* calls are private to their threads, and a thread in the middle of an assignment or of
\* EXTEND is at that statement, in the environment it has looked up.
THEOREM ProgramsSound == ProgramsFormed => (Spec => []ProgramInv)
<1> SUFFICES ASSUME ProgramsFormed PROVE Spec => []ProgramInv
  OBVIOUS
<1>1. Init => ProgramInv
  BY ProgramInit
<1>2. IInv /\ ProgramInv /\ [Next]_vars => ProgramInv'
  BY ProgramNext
<1> QED
  BY <1>1, <1>2, Invariance, PTL DEF Spec

\* Only the end of an assignment turns a thread's assignment to none.
LEMMA OnlyEndAssign ==
  ASSUME IInv, ProgramInv, [Next]_vars, NEW a \in Actors,
         assigning[a].step = "assign", assigning'[a] = NotAssigning
  PROVE  EndAssign(a)
<1>0. ShapeInv /\ assigning[a] # NotAssigning /\ assigning'[a] # assigning[a]
  BY DEF NotAssigning, IInv
<1>1. \E b \in Actors : Execute(b)
  BY <1>0 DEF Next, vars, modVars, NextStatement, ParentStep, CallParallel, StartWorker, AllStarted,
     Join, JoinUnstarted, EndParallel, WorkerStep, BindParameters, EndWorker, extVars
<1>2. PICK b \in Actors : ModuleStep(b)
  BY <1>1 DEF Execute
<1>3. b = a
  BY <1>0, <1>2, StepApart DEF Apart
<1> QED
  BY <1>0, <1>2, <1>3 DEF ModuleStep, AssignLookup, AssignDefine, Fail, BeginImport, BeginInclude, 
     BeginImportPath, Begin, EndImport, Export, Extend, EndExtend, Ready, modVars, ShapeInv

-----------------------------------------------------------------------------
(* Assignments. *)

\* The end of an assignment that does not fail, whoever has declared the name meanwhile.
LEMMA EndAssignTyped ==
  ASSUME ShapeInv, EnvInv, BusyInv, NEW a \in Actors, EndAssign(a), ~failed'[a]
  PROVE  LET h == Holder(envs', Top(a).env, <<Statement(a).name>>)
         IN h # 0 /\ TypeOf(envs', h, <<Statement(a).name>>) = Statement(a).type
<1> DEFINE name == <<Statement(a).name>>
           type == Statement(a).type
           into == assigning[a].env
           e == Top(a).env
           fs == Assign(envs, into, name, type)
<1>0. Forest(envs) /\ BusyAt(a) /\ assigning[a] # NotAssigning
  BY DEF EnvInv, BusyInv, EndAssign, NotAssigning
<1>1. envs' = fs /\ CanAssign(envs, into, name, type)
  <2>1. ~Raise(a)
    BY DEF Raise, EnvInv
  <2> QED
    BY <2>1 DEF EndAssign, StillFits
<1>2. /\ frames[a] # <<>> /\ into \in DOMAIN envs
      /\ \/ into = e
         \/ into = envs[e].parent /\ into # 0 /\ At(envs, e, name) = {}
  BY <1>0, AssigningIs DEF BusyAt
<1>3. e \in DOMAIN envs
  BY <1>2, TopIs
<1> DEFINE h == Holder(fs, into, name)
<1>4. /\ Leads(envs, fs, into) /\ h # 0 /\ h \in DOMAIN fs
      /\ TypeOf(fs, h, name) = type
  <2>1. fs = Assign(envs, into, name, type)
    OBVIOUS
  <2> HIDE DEF fs
  <2> QED
    BY <1>0, <1>1, <1>2, <2>1, AssignLeads
<1> HIDE DEF fs, into, name
<1>5. Holder(fs, e, name) = h
  <2>1. CASE into = e
    BY <2>1
  <2>2. CASE into # e /\ into = envs[e].parent /\ into # 0 /\ At(envs, e, name) = {}
    <3>1. fs[e] = envs[e]
      BY <1>3, <1>4, <2>2 DEF Leads, Only
    <3>2. At(fs, e, name) = {} /\ fs[e].parent = into
      BY <2>2, <3>1 DEF At
    <3>3. into = Global /\ fs[into].parent = 0 /\ Forest(fs) /\ e \in DOMAIN fs /\ into \in DOMAIN fs
      <4>1. into = Global
        BY <1>0, <1>3, <2>2 DEF Forest
      <4> QED
        BY <1>2, <1>3, <1>4, <4>1 DEF Leads, Forest
    <3>4. At(fs, into, name) # {}
      BY <1>4, <3>3, HolderIs DEF h
    <3>5. h = into
      BY <3>3, <3>4, HolderIs
    <3> QED
      BY <2>2, <3>2, <3>3, <3>4, <3>5, HolderIs
  <2> QED
    BY <1>2, <2>1, <2>2
<1> QED
  BY <1>1, <1>4, <1>5 DEF name

\* An assignment that raises no error leaves the name declared with its type, though
\* another thread declares it between the lookup and the definition (STMT_ASSIGN).
THEOREM AssignmentsTyped == ProgramsFormed => (Spec => AssignmentTyped)
<1> SUFFICES ASSUME ProgramsFormed PROVE Spec => AssignmentTyped
  OBVIOUS
<1>1. ASSUME IInv, ProgramInv, [Next]_vars, NEW a \in Actors,
             assigning[a].step = "assign", assigning'[a] = NotAssigning, ~failed'[a]
      PROVE  LET h == Holder(envs', Top(a).env, <<Statement(a).name>>)
             IN h # 0 /\ TypeOf(envs', h, <<Statement(a).name>>) = Statement(a).type
  BY <1>1, OnlyEndAssign, EndAssignTyped DEF IInv, ProgramInv
<1>2. IInv /\ ProgramInv /\ [Next]_vars =>
        [\A a \in Actors :
           assigning[a].step = "assign" /\ assigning'[a] = NotAssigning /\ ~failed'[a] =>
             LET h == Holder(envs', Top(a).env, <<Statement(a).name>>)
             IN h # 0 /\ TypeOf(envs', h, <<Statement(a).name>>) = Statement(a).type]_vars
  BY <1>1
<1> QED
  BY <1>2, Invariance, ProgramsSound, PTL DEF Spec, AssignmentTyped

-----------------------------------------------------------------------------
(* Modules that are loaded are whole. *)

\* The statements of a body after the first k of them.
LEMMA RestIs ==
  ASSUME NEW b, IsList(b), NEW k \in 0..Len(b), NEW r, r = SubSeq(b, k + 1, Len(b))
  PROVE  /\ r = <<>> => k = Len(b)
         /\ r # <<>> => /\ k + 1 \in 0..Len(b) /\ Head(r) = b[k + 1]
                        /\ Tail(r) = SubSeq(b, (k + 1) + 1, Len(b))
<1>1. PICK S : b \in Seq(S)
  BY DEF IsList
<1>2. Len(b) \in Nat /\ k \in Nat /\ k <= Len(b)
  BY <1>1
<1>3. r \in Seq(S) /\ Len(r) = Len(b) - k /\ \A i \in 1..(Len(b) - k) : r[i] = b[k + i]
  BY <1>1, <1>2
<1>4. r = <<>> => k = Len(b)
  <2>1. r = <<>> => Len(r) = 0
    OBVIOUS
  <2> QED
    BY <1>2, <1>3, <2>1
<1>5. ASSUME r # <<>>
      PROVE  /\ k + 1 \in 0..Len(b) /\ Head(r) = b[k + 1]
             /\ Tail(r) = SubSeq(b, (k + 1) + 1, Len(b))
  <2>1. Len(r) # 0
    BY <1>3, <1>5
  <2>2. k + 1 \in 0..Len(b) /\ 1 \in 1..(Len(b) - k)
    BY <1>2, <1>3, <2>1
  <2>3. Head(r) = b[k + 1]
    BY <1>3, <1>5, <2>2
  <2> DEFINE t == Tail(r)
             u == SubSeq(b, (k + 1) + 1, Len(b))
  <2>4. t \in Seq(S) /\ Len(t) = Len(b) - (k + 1)
        /\ \A i \in 1..(Len(b) - (k + 1)) : t[i] = b[(k + 1) + i]
    <3>1. t \in Seq(S) /\ Len(t) = Len(r) - 1 /\ \A i \in 1..(Len(r) - 1) : t[i] = r[i + 1]
      BY <1>3, <1>5
    <3>2. ASSUME NEW i \in 1..(Len(b) - (k + 1)) PROVE t[i] = b[(k + 1) + i]
      <4>1. i \in 1..(Len(r) - 1) /\ i + 1 \in 1..(Len(b) - k) /\ k + (i + 1) = (k + 1) + i
        BY <1>2, <1>3
      <4> QED
        BY <1>3, <3>1, <4>1
    <3>3. Len(t) = Len(b) - (k + 1)
      BY <1>2, <1>3, <3>1
    <3> QED
      BY <3>1, <3>2, <3>3
  <2>5. u \in Seq(S) /\ Len(u) = Len(b) - (k + 1)
        /\ \A i \in 1..(Len(b) - (k + 1)) : u[i] = b[(k + 1) + i]
    <3>1. (k + 1) + 1 \in 1..(Len(b) + 1) /\ \A i \in (k + 2)..Len(b) : b[i] \in S
      BY <1>1, <1>2, <2>2
    <3>2. u \in Seq(S)
      BY <1>1, <1>2
    <3>3. Len(u) = Len(b) - (k + 1)
      BY <1>1, <1>2, <2>2
    <3>4. \A i \in 1..(Len(b) - (k + 1)) : u[i] = b[(k + 1) + i]
      BY <1>1, <1>2, <2>2
    <3> QED
      BY <3>2, <3>3, <3>4
  <2> HIDE DEF t, u
  <2>6. t = u
    <3>1. Len(t) = Len(u) /\ \A i \in 1..Len(t) : t[i] = u[i]
      BY <2>4, <2>5
    <3> QED
      BY <2>4, <2>5, <3>1, SeqEqual
  <2> QED
    BY <2>2, <2>3, <2>6 DEF t, u
<1> QED
  BY <1>4, <1>5

\* At the start all statements are left.
LEMMA WholeRest ==
  ASSUME NEW b, IsList(b)
  PROVE  b = SubSeq(b, 0 + 1, Len(b)) /\ 0 \in 0..Len(b)
<1>1. PICK S : b \in Seq(S)
  BY DEF IsList
<1> DEFINE u == SubSeq(b, 0 + 1, Len(b))
<1>2. Len(b) \in Nat
  BY <1>1
<1>3. u \in Seq(S) /\ Len(u) = Len(b) /\ \A i \in 1..Len(b) : u[i] = b[i]
  BY <1>1, <1>2
<1> HIDE DEF u
<1>4. u = b
  BY <1>1, <1>3, SeqEqual
<1> QED
  BY <1>2, <1>4 DEF u

\* What holds of a program keeps holding while the environments grow.
LEMMA FrameStays ==
  ASSUME NEW es, NEW fs, Grows(es, fs), NEW org, NEW per, NEW i, NEW f, f.env \in DOMAIN es,
         per[f.env] = org[f.env], FrameOk(i, f, es, org)
  PROVE  FrameOk(i, f, fs, per)
<1>1. Grown(es[f.env], fs[f.env])
  BY DEF Grows
<1>2. \A k : Holds(es[f.env], Body(f.load.file), k) => Holds(fs[f.env], Body(f.load.file), k)
  BY <1>1, HoldsStays
<1>3. es[f.env].loaded => fs[f.env].loaded
  BY <1>1 DEF Grown
<1> QED
  BY <1>2, <1>3 DEF FrameOk

\* The names of one more statement.
LEMMA HoldsMore ==
  ASSUME NEW env, NEW b, NEW k \in Nat, Holds(env, b, k),
         b[k + 1].op = "assign" =>
           HasValue(env, b[k + 1].name)
  PROVE  Holds(env, b, k + 1)
<1>1. \A i \in 1..(k + 1) : i \in 1..k \/ i = k + 1
  OBVIOUS
<1> QED
  BY <1>1 DEF Holds

\* A statement of a program is done.
LEMMA FrameAdvances ==
  ASSUME ProgramsFormed, NEW es, NEW fs, Grows(es, fs), NEW org, NEW per, NEW i, NEW f,
         f.env \in DOMAIN es, per[f.env] = org[f.env], FrameOk(i, f, es, org), f.rest # <<>>,
         f.load.runs /\ Head(f.rest).op = "assign" =>
           HasValue(fs[f.env], Head(f.rest).name),
         NEW g, g = Frame(f.env, Tail(f.rest), f.load)
  PROVE  FrameOk(i, g, fs, per)
<1>1. g.env = f.env /\ g.load = f.load /\ g.rest = Tail(f.rest)
  BY DEF Frame
<1>2. FrameOk(i, f, fs, per)
  BY FrameStays
<1> DEFINE b == Body(f.load.file)
<1>3. CASE f.load.runs
  <2>1. IsList(b)
    BY <1>3 DEF FrameOk, ProgramsFormed, AllFormed
  <2>2. PICK k \in 0..Len(b) : f.rest = SubSeq(b, k + 1, Len(b)) /\ Holds(fs[f.env], b, k)
    BY <1>2, <1>3 DEF FrameOk
  <2>3. /\ k + 1 \in 0..Len(b) /\ Head(f.rest) = b[k + 1]
        /\ Tail(f.rest) = SubSeq(b, (k + 1) + 1, Len(b))
    BY <2>1, <2>2, RestIs
  <2>4. Holds(fs[f.env], b, k + 1)
    <3>1. k \in Nat
      BY <2>1, ListLen
    <3>2. b[k + 1].op = "assign" =>
            HasValue(fs[f.env], b[k + 1].name)
      <4>1. (k + 1) \in Nat /\ f.rest # <<>>
        BY <3>1
      <4> QED
        BY <1>3, <2>3, <4>1
    <3> HIDE DEF b
    <3> QED
      BY <2>2, <3>1, <3>2, HoldsMore
  <2> QED
    BY <1>1, <1>2, <1>3, <2>3, <2>4 DEF FrameOk
<1>4. CASE ~f.load.runs
  BY <1>1, <1>2, <1>4 DEF FrameOk
<1> QED
  BY <1>3, <1>4

\* The programs of the thread after a statement that is no import.
Waits(a) ==
  \/ UNCHANGED <<frames, failed>>
  \/ Raise(a)
  \/ /\ Proceed(a) /\ Top(a).rest # <<>>
     /\ Top(a).load.runs /\ Statement(a).op = "assign" =>
          HasValue(envs'[Top(a).env], Statement(a).name)

\* No file of an environment is forgotten.
OriginStays == \A x \in DOMAIN envs : origin'[x] = origin[x]

\* The programs of a thread with its statement done.
LEMMA AdvancedFrames ==
  ASSUME ProgramsFormed, ShapeInv, EnvInv, LoadInv, NEW a \in Actors, Grows(envs, envs'),
         OriginStays, frames[a] # <<>>, Top(a).rest # <<>>,
         Top(a).load.runs /\ Statement(a).op = "assign" =>
           HasValue(envs'[Top(a).env], Statement(a).name)
  PROVE  \A i \in DOMAIN Advanced(a) : FrameOk(i, Advanced(a)[i], envs', origin')
<1> DEFINE q == frames[a]
           n == Len(q)
           r == Advanced(a)
           x == Frame(q[n].env, Tail(q[n].rest), q[n].load)
<1>1. /\ n \in Nat /\ n # 0 /\ DOMAIN q = 1..n /\ Top(a) = q[n]
      /\ DOMAIN r = DOMAIN q /\ r[n] = x
      /\ \A i \in DOMAIN q : i # n => r[i] = q[i]
  BY AdvancedIs DEF EnvInv
<1>2. \A i \in DOMAIN q : q[i].env \in DOMAIN envs /\ FrameOk(i, q[i], envs, origin)
  BY DEF EnvInv, GoodFrames, LoadInv
<1>3. ASSUME NEW i \in DOMAIN q, i # n PROVE FrameOk(i, r[i], envs', origin')
  BY <1>1, <1>2, <1>3, FrameStays DEF OriginStays
<1>4. FrameOk(n, x, envs', origin')
  <2>1. n \in DOMAIN q /\ q[n].rest # <<>> /\ Statement(a) = Head(q[n].rest)
    BY <1>1 DEF Statement
  <2>2. q[n].env \in DOMAIN envs /\ origin'[q[n].env] = origin[q[n].env]
        /\ FrameOk(n, q[n], envs, origin)
    BY <1>2, <2>1 DEF OriginStays
  <2>3. x = Frame(q[n].env, Tail(q[n].rest), q[n].load)
    OBVIOUS
  <2>4. Top(a) = q[n]
    BY <1>1
  <2>5. q[n].load.runs /\ Head(q[n].rest).op = "assign" =>
          HasValue(envs'[q[n].env], Head(q[n].rest).name)
    BY <2>1, <2>4, Zenon
  <2> HIDE DEF x, n, r
  <2>6. PICK f : f = q[n]
    OBVIOUS
  <2>7. /\ f.env \in DOMAIN envs /\ origin'[f.env] = origin[f.env]
        /\ f.rest # <<>> /\ x = Frame(f.env, Tail(f.rest), f.load)
    BY <2>1, <2>2, <2>3, <2>6
  <2>8. FrameOk(n, f, envs, origin)
    BY <2>2, <2>6
  <2>9. f.load.runs /\ Head(f.rest).op = "assign" => HasValue(envs'[f.env], Head(f.rest).name)
    BY <2>5, <2>6
  <2> QED
    BY <2>7, <2>8, <2>9, FrameAdvances
<1> QED
  BY <1>1, <1>3, <1>4

\* The programs of a thread after any such statement.
LEMMA WaitsFrames ==
  ASSUME ProgramsFormed, ShapeInv, EnvInv, LoadInv, NEW a \in Actors, Grows(envs, envs'),
         OriginStays, frames[a] # <<>>, Waits(a)
  PROVE  \A i \in DOMAIN frames'[a] : FrameOk(i, frames'[a][i], envs', origin')
<1> DEFINE q == frames[a]
<1>1. \A i \in DOMAIN q : q[i].env \in DOMAIN envs /\ FrameOk(i, q[i], envs, origin)
  BY DEF EnvInv, GoodFrames, LoadInv
<1>2. CASE UNCHANGED <<frames, failed>>
  BY <1>1, <1>2, FrameStays DEF OriginStays
<1>3. CASE Raise(a)
  <2> DEFINE x == Frame(q[1].env, <<>>, q[1].load)
  <2>1. 1 \in DOMAIN q /\ frames'[a] = <<x>>
    BY <1>3, RaiseIs DEF EnvInv
  <2>2. ~q[1].load.runs
    BY <1>1, <2>1 DEF FrameOk
  <2>3. x.load = q[1].load
    BY DEF Frame
  <2>4. FrameOk(1, x, envs', origin')
    BY <2>2, <2>3 DEF FrameOk
  <2> HIDE DEF x
  <2>5. \A i \in DOMAIN <<x>> : i = 1 /\ <<x>>[i] = x
    OBVIOUS
  <2> QED
    BY <2>1, <2>4, <2>5
<1>4. CASE /\ Proceed(a) /\ Top(a).rest # <<>>
           /\ Top(a).load.runs /\ Statement(a).op = "assign" =>
                HasValue(envs'[Top(a).env], Statement(a).name)
  <2>1. frames'[a] = Advanced(a)
    BY <1>4 DEF Proceed, ShapeInv
  <2> QED
    BY <1>4, <2>1, AdvancedFrames
<1> QED
  BY <1>2, <1>3, <1>4 DEF Waits

\* The invariant after a step that leaves modules loaded, or loads one that is whole.
LEMMA LoadKept ==
  ASSUME EnvInv, LoadInv, NEW a \in Actors, OriginStays, Grows(envs, envs'),
         \A b \in Actors : b # a => frames'[b] = frames[b],
         \A m \in DOMAIN envs' : envs'[m].loaded =>
           m \in DOMAIN envs /\ (envs[m].loaded \/ Whole(envs'[m], origin[m])),
         \A i \in DOMAIN frames'[a] : FrameOk(i, frames'[a][i], envs', origin')
  PROVE  LoadInv'
<1>2. ASSUME NEW m \in DOMAIN envs', envs'[m].loaded PROVE Whole(envs'[m], origin'[m])
  <2>1. m \in DOMAIN envs /\ origin'[m] = origin[m] /\ Grown(envs[m], envs'[m])
    BY <1>2 DEF OriginStays, Grows
  <2>2. envs[m].loaded => Whole(envs[m], origin[m])
    BY <2>1 DEF LoadInv
  <2>3. Whole(envs[m], origin[m]) => Whole(envs'[m], origin[m])
    BY <2>1, HoldsStays DEF Whole
  <2> QED
    BY <1>2, <2>1, <2>2, <2>3
<1>3. ASSUME NEW b \in Actors, NEW i \in DOMAIN frames'[b]
      PROVE  FrameOk(i, frames'[b][i], envs', origin')
  <2>1. CASE b = a
    BY <2>1
  <2>2. CASE b # a
    <3>1. frames'[b] = frames[b]
      BY <2>2
    <3>2. frames[b][i].env \in DOMAIN envs /\ FrameOk(i, frames[b][i], envs, origin)
      BY <3>1 DEF EnvInv, GoodFrames, LoadInv
    <3> QED
      BY <3>1, <3>2, FrameStays DEF OriginStays
  <2> QED
    BY <2>1, <2>2
<1> QED
  BY <1>2, <1>3 DEF LoadInv

\* A step that loads no module, while the thread waits for none.
LEMMA LoadWaits ==
  ASSUME ProgramsFormed, ShapeInv, EnvInv, LoadInv, NEW a \in Actors, frames[a] # <<>>,
         StepOf(a), SameLoaded, UNCHANGED origin, Waits(a)
  PROVE  LoadInv'
<1>1. OriginStays /\ Grows(envs, envs')
  BY DEF OriginStays, StepOf
<1>2. \A i \in DOMAIN frames'[a] : FrameOk(i, frames'[a][i], envs', origin')
  BY <1>1, WaitsFrames
<1>3. \A m \in DOMAIN envs' : envs'[m].loaded => m \in DOMAIN envs /\ envs[m].loaded
  BY DEF SameLoaded
<1>4. \A b \in Actors : b # a => frames'[b] = frames[b]
  BY DEF StepOf
<1> QED
  BY <1>1, <1>2, <1>3, <1>4, LoadKept

\* The end of an assignment in the body of a module gives the name its value there.
LEMMA AssignWaits ==
  ASSUME ShapeInv, EnvInv, BusyInv, LoadInv, NEW a \in Actors, EndAssign(a)
  PROVE  Waits(a)
<1> DEFINE into == assigning[a].env
           e == Top(a).env
           v == Statement(a).name
           fs == Assign(envs, into, <<v>>, Statement(a).type)
<1>0. Forest(envs) /\ BusyAt(a) /\ assigning[a] # NotAssigning
  BY DEF EnvInv, BusyInv, EndAssign, NotAssigning
<1>1. frames[a] # <<>> /\ Top(a).rest # <<>> /\ into \in DOMAIN envs
      /\ (into = e \/ (into = envs[e].parent /\ into # 0))
  BY <1>0, AssigningIs DEF BusyAt
<1>2. Raise(a) \/ (Proceed(a) /\ envs' = fs)
  BY DEF EndAssign
<1>3. ASSUME Top(a).load.runs, envs' = fs
      PROVE  HasValue(envs'[e], v)
  <2> DEFINE n == Len(frames[a])
  <2>1. n \in DOMAIN frames[a] /\ Top(a) = frames[a][n]
    BY <1>1, TopIs
  <2>2. FrameOk(n, frames[a][n], envs, origin)
    BY <2>1 DEF LoadInv
  <2>3. n > 1
    BY <1>3, <2>1, <2>2 DEF FrameOk
  <2>4. envs[e].parent = 0 /\ e \in DOMAIN envs
    BY <2>1, <2>3 DEF EnvInv, GoodFrames
  <2>5. into = e
    BY <1>1, <2>4
  <2> DEFINE h == Holder(fs, e, <<v>>)
  <2>6. fs = Assign(envs, e, <<v>>, Statement(a).type)
    BY <2>5
  <2> HIDE DEF fs
  <2>7. /\ Leads(envs, fs, e) /\ h # 0
        /\ \E j \in DOMAIN fs[h].entries : fs[h].entries[j].name = <<v>> /\ fs[h].entries[j].init
    BY <1>0, <2>4, <2>6, AssignLeads
  <2>8. Forest(fs) /\ e \in DOMAIN fs /\ fs[e].parent = 0
    BY <2>4, <2>7 DEF Leads, Grows, Grown
  <2>9. h = e
    BY <2>7, <2>8, HolderIs
  <2> QED
    BY <1>3, <2>7, <2>9 DEF HasValue
<1> QED
  BY <1>1, <1>2, <1>3 DEF Waits

\* The start of an import.
LEMMA BeginLoad ==
  ASSUME ProgramsFormed, ShapeInv, EnvInv, LoadInv, NamesAgree, NEW a \in Actors, Ready(a),
         Statement(a).op \in {"import", "include", "import_path"}, NEW scope,
         Begin(a, Sought(a), scope)
  PROVE  LoadInv'
<1> DEFINE file == Sought(a)
<1>0. frames[a] # <<>> /\ Top(a).rest # <<>> /\ Statement(a).op # "assign"
  BY DEF Ready, Busy
<1>1. StepOf(a)
  BY <1>0, BeginStep
<1>2. CASE Raise(a) /\ UNCHANGED <<envs, origin, registry>>
  BY <1>0, <1>1, <1>2, LoadWaits DEF SameLoaded, Waits
<1>3. CASE \E e : Imports(a, file, e) /\ (Raise(a) \/ Pushes(a, file, e))
  <2>1. PICK e : Imports(a, file, e) /\ (Raise(a) \/ Pushes(a, file, e))
    BY <1>3
  <2>2. OriginStays /\ Grows(envs, envs')
    BY <2>1 DEF Imports, OriginStays
  <2>3. \A m \in DOMAIN envs' : envs'[m].loaded => m \in DOMAIN envs /\ envs[m].loaded
    BY <2>1 DEF Imports
  <2>6. \A b \in Actors : b # a => frames'[b] = frames[b]
    BY <1>1 DEF StepOf
  <2>4. CASE Raise(a)
    <3>1. \A i \in DOMAIN frames'[a] : FrameOk(i, frames'[a][i], envs', origin')
      BY <1>0, <2>2, <2>4, WaitsFrames DEF Waits
    <3> QED
      BY <2>2, <2>3, <2>6, <3>1, LoadKept
  <2>5. CASE Pushes(a, file, e)
    <3> DEFINE load == LoadOf(a, file, e)
               f == Frame(e, IF load.runs THEN Body(file) ELSE <<>>, load)
               q == Advanced(a)
               r == Append(q, f)
    <3>1. frames'[a] = r
      BY <2>5 DEF Pushes, ShapeInv
    <3>2. \A i \in DOMAIN q : FrameOk(i, q[i], envs', origin')
      BY <1>0, <2>2, AdvancedFrames
    <3>3. Len(q) \in Nat /\ Len(q) # 0
      <4>1. DOMAIN q = DOMAIN frames[a] /\ IsList(q) /\ Len(frames[a]) \in DOMAIN frames[a]
        BY <1>0, AdvancedIs, TopIs DEF EnvInv, Cut
      <4> HIDE DEF q
      <4>2. Len(q) \in Nat /\ DOMAIN q = 1..Len(q)
        BY <4>1, ListLen
      <4> QED
        BY <4>1, <4>2
    <3>4. load.file = file /\ (load.runs <=> ~envs'[e].loaded /\ file \in Files /\ Readable(file))
      BY DEF LoadOf
    <3>5. f.env = e /\ f.load = load /\ f.rest = IF load.runs THEN Body(file) ELSE <<>>
      BY DEF Frame
    <3>6. load.runs => Belongs(origin'[e], file)
      <4> SUFFICES ASSUME load.runs PROVE Belongs(origin'[e], file)
        OBVIOUS
      <4>1. CASE e \in DOMAIN envs /\ e = Cached(a, Statement(a), file)
        <5>1. e # 0
          BY <4>1 DEF EnvInv, Forest, IsList
        <5>2. ~envs[e].loaded
          BY <2>2, <3>4, <4>1 DEF Grows, Grown
        <5>3. Belongs(origin[e], file)
          BY <3>4, <4>1, <5>1, <5>2 DEF NamesAgree
        <5> QED
          BY <2>2, <4>1, <5>3 DEF OriginStays
      <4>2. CASE origin'[e] = file
        BY <4>2 DEF Belongs
      <4> QED
        BY <2>1, <4>1, <4>2 DEF Imports
    <3>7. load.runs => IsList(Body(file))
      BY <3>4 DEF ProgramsFormed, AllFormed
    <3>8. IsList(q)
      BY <1>0, AdvancedIs DEF EnvInv, Cut
    <3>9. r = Append(q, f)
      OBVIOUS
    <3> HIDE DEF load, f, q, r, file
    <3>10. FrameOk(Len(q) + 1, f, envs', origin')
      <4>1. Len(q) + 1 > 1
        BY <3>3
      <4>2. CASE load.runs
        <5>1. /\ Body(file) = SubSeq(Body(file), 0 + 1, Len(Body(file)))
              /\ 0 \in 0..Len(Body(file))
          BY <3>7, <4>2, WholeRest
        <5>2. Holds(envs'[e], Body(file), 0)
          BY DEF Holds
        <5> QED
          BY <3>4, <3>5, <3>6, <4>1, <4>2, <5>1, <5>2 DEF FrameOk
      <4>3. CASE ~load.runs
        BY <3>4, <3>5, <4>1, <4>3 DEF FrameOk
      <4> QED
        BY <4>2, <4>3
    <3>11. /\ DOMAIN q = 1..Len(q) /\ DOMAIN r = 1..(Len(q) + 1) /\ r[Len(q) + 1] = f
           /\ \A i \in DOMAIN q : r[i] = q[i]
      BY <3>8, <3>9, Extended
    <3>12. \A i \in DOMAIN r : FrameOk(i, r[i], envs', origin')
      <4>1. \A i \in DOMAIN r : i = Len(q) + 1 \/ i \in DOMAIN q
        BY <3>3, <3>11
      <4> QED
        BY <3>2, <3>10, <3>11, <4>1
    <3>13. \A i \in DOMAIN frames'[a] : FrameOk(i, frames'[a][i], envs', origin')
      BY <3>1, <3>12
    <3> QED
      BY <2>2, <2>3, <2>6, <3>13, LoadKept
  <2> QED
    BY <2>1, <2>4, <2>5
<1> QED
  BY <1>2, <1>3, BeginIs

\* The module an import has executed, or found loaded, is whole when it ends.
LEMMA EndWhole ==
  ASSUME ProgramsFormed, ShapeInv, EnvInv, LoadInv, NEW a \in Actors, EndImport(a)
  PROVE  LET f == frames[a][Len(frames[a])]
         IN /\ f.load.runs => Belongs(origin[f.env], f.load.file) /\ Whole(envs[f.env], f.load.file)
            /\ ~f.load.runs /\ f.load.file \in Files /\ Readable(f.load.file)
                 => envs[f.env].loaded
<1> DEFINE q == frames[a]
           n == Len(q)
           f == q[n]
           b == Body(f.load.file)
<1>1. /\ n \in Nat /\ n > 1 /\ DOMAIN q = 1..n /\ f.rest = <<>>
  BY EndImportIs
<1>2. n \in DOMAIN q
  BY <1>1
<1>3. FrameOk(n, f, envs, origin)
  BY <1>2 DEF LoadInv
<1>4. CASE f.load.runs
  <2>1. Belongs(origin[f.env], f.load.file) /\ IsList(b)
    BY <1>3, <1>4 DEF FrameOk, ProgramsFormed, AllFormed
  <2>2. PICK k \in 0..Len(b) : f.rest = SubSeq(b, k + 1, Len(b)) /\ Holds(envs[f.env], b, k)
    BY <1>3, <1>4 DEF FrameOk
  <2>3. k = Len(b)
    BY <1>1, <2>1, <2>2, RestIs
  <2> QED
    BY <1>4, <2>1, <2>2, <2>3 DEF Whole
<1>5. CASE ~f.load.runs
  BY <1>1, <1>3, <1>5 DEF FrameOk
<1> QED
  BY <1>4, <1>5

\* The end of an import marks only a module that is whole.
LEMMA EndLoad ==
  ASSUME ProgramsFormed, ShapeInv, EnvInv, LoadInv, NEW a \in Actors, EndImport(a)
  PROVE  LoadInv'
<1> DEFINE q == frames[a]
           n == Len(q)
           m == q[n].env
           e == q[n - 1].env
<1>1. /\ n \in Nat /\ n > 1 /\ DOMAIN q = 1..n /\ Top(a) = q[n]
      /\ UNCHANGED <<origin, registry>>
      /\ UNCHANGED <<envs, frames, failed>> \/ Ends(a, m, e)
  BY EndImportIs
<1>2. q # <<>> /\ n \in DOMAIN q /\ m \in DOMAIN envs
  BY <1>1 DEF EnvInv, GoodFrames
<1>3. StepOf(a)
  BY EndImportStep
<1>4. OriginStays /\ Grows(envs, envs')
  BY <1>1, <1>3 DEF OriginStays, StepOf
<1>5. CASE UNCHANGED <<envs, frames, failed>>
  BY <1>1, <1>2, <1>3, <1>5, LoadWaits DEF SameLoaded, Waits
<1>6. CASE Ends(a, m, e)
  <2>1. PICK es :
    /\ DOMAIN es = DOMAIN envs
    /\ \A x \in DOMAIN envs : x # m => es[x] = envs[x]
    /\ es[m].loaded = envs[m].loaded \/ Top(a).load.runs
    /\ Leads(es, envs', e)
    /\ \/ Raise(a)
       \/ /\ frames' = [frames EXCEPT ![a] = SubSeq(frames[a], 1, Len(frames[a]) - 1)]
          /\ UNCHANGED failed
    BY <1>6 DEF Ends
  <2>2. q[n].load.runs => Whole(envs'[m], origin[m])
    <3>1. q[n].load.runs => Whole(envs[m], origin[m])
      BY EndWhole DEF Belongs, Whole
    <3>2. Grown(envs[m], envs'[m])
      BY <1>2, <1>4 DEF Grows
    <3>3. Whole(envs[m], origin[m]) => Whole(envs'[m], origin[m])
      BY <3>2, HoldsStays DEF Whole
    <3> QED
      BY <3>1, <3>3
  <2>3. \A x \in DOMAIN envs' : envs'[x].loaded =>
           x \in DOMAIN envs /\ (envs[x].loaded \/ Whole(envs'[x], origin[x]))
    <3> SUFFICES ASSUME NEW x \in DOMAIN envs', envs'[x].loaded
                 PROVE  x \in DOMAIN envs /\ (envs[x].loaded \/ Whole(envs'[x], origin[x]))
      OBVIOUS
    <3>1. x \in DOMAIN envs /\ es[x].loaded
      BY <2>1 DEF Leads
    <3>2. CASE x = m
      <4>1. envs[x].loaded \/ q[n].load.runs
        BY <1>1, <2>1, <3>1, <3>2
      <4> QED
        BY <2>2, <3>1, <3>2, <4>1
    <3>3. CASE x # m
      <4>1. es[x] = envs[x]
        BY <2>1, <3>1, <3>3
      <4> QED
        BY <3>1, <4>1
    <3> QED
      BY <3>2, <3>3
  <2>4. \A i \in DOMAIN frames'[a] : FrameOk(i, frames'[a][i], envs', origin')
    <3>1. CASE Raise(a)
      BY <1>2, <1>4, <3>1, WaitsFrames DEF Waits
    <3>2. CASE frames' = [frames EXCEPT ![a] = SubSeq(q, 1, n - 1)]
      <4> DEFINE r == SubSeq(q, 1, Len(q) - 1)
      <4>1. r = SubSeq(q, 1, Len(q) - 1)
        OBVIOUS
      <4>2. frames'[a] = r
        BY <3>2 DEF ShapeInv
      <4> HIDE DEF r
      <4>3. DOMAIN r \subseteq DOMAIN q /\ \A i \in DOMAIN r : r[i] = q[i]
        <5>1. /\ Len(q) \in Nat /\ DOMAIN q = 1..Len(q) /\ DOMAIN r = 1..(Len(q) - 1)
              /\ \A i \in DOMAIN r : r[i] = q[i]
          BY <1>1, <4>1, BelowIs DEF EnvInv
        <5> QED
          BY <5>1
      <4>4. \A i \in DOMAIN q : q[i].env \in DOMAIN envs /\ FrameOk(i, q[i], envs, origin)
        BY DEF EnvInv, GoodFrames, LoadInv
      <4> QED
        BY <1>4, <4>2, <4>3, <4>4, FrameStays DEF OriginStays
    <3> QED
      BY <2>1, <3>1, <3>2
  <2>5. \A b \in Actors : b # a => frames'[b] = frames[b]
    BY <1>3 DEF StepOf
  <2> QED
    BY <1>4, <2>3, <2>4, <2>5, LoadKept
<1> QED
  BY <1>1, <1>5, <1>6

\* A part of a statement.
LEMMA ExecuteLoad ==
  ASSUME ProgramsFormed, IInv, ProgramInv, LoadInv, NamesAgree, NEW a \in Actors, Execute(a)
  PROVE  LoadInv'
<1>0. ShapeInv /\ EnvInv /\ PrivateInv /\ BusyInv /\ ModuleStep(a)
  BY DEF IInv, ProgramInv, Execute
<1>1. StepOf(a) /\ frames[a] # <<>>
  BY <1>0, ModuleStepOf
<1>2. CASE AssignLookup(a) \/ Fail(a) \/ Extend(a) \/ (LoaderStep(a) /\ UNCHANGED modVars)
  <2>1. /\ UNCHANGED <<envs, origin>> /\ (Raise(a) \/ UNCHANGED <<frames, failed>>)
    BY <1>2 DEF AssignLookup, Fail, Extend, modVars
  <2> QED
    BY <1>0, <1>1, <2>1, LoadWaits DEF SameLoaded, Waits
<1>3. CASE AssignDefine(a)
  <2>1. SameLoaded
    BY <1>0, <1>3, DefineStep
  <2>2. Waits(a) /\ UNCHANGED origin
    BY <1>3 DEF AssignDefine, Waits
  <2> QED
    BY <1>0, <1>1, <2>1, <2>2, LoadWaits
<1>4. CASE EndAssign(a)
  <2>1. SameLoaded
    BY <1>0, <1>4, EndAssignStep
  <2>2. UNCHANGED origin
    BY <1>4 DEF EndAssign
  <2>3. Waits(a)
    BY <1>0, <1>4, AssignWaits
  <2> QED
    BY <1>0, <1>1, <2>1, <2>2, <2>3, LoadWaits
<1>5. CASE BeginImport(a) \/ BeginInclude(a) \/ BeginImportPath(a)
  <2>1. \/ Ready(a) /\ Statement(a).op \in {"import", "include"}
             /\ Begin(a, Searched(a), Statement(a).name)
        \/ Ready(a) /\ Statement(a).op = "import_path"
             /\ Begin(a, PathTo(Statement(a).name), Alias(Statement(a)))
    BY <1>5 DEF BeginImport, BeginInclude, BeginImportPath
  <2>2. CASE Ready(a) /\ Statement(a).op \in {"import", "include"}
               /\ Begin(a, Searched(a), Statement(a).name)
    <3>1. Sought(a) = Searched(a)
      BY <2>2 DEF Sought
    <3> QED
      BY <1>0, <2>2, <3>1, BeginLoad
  <2>3. CASE Ready(a) /\ Statement(a).op = "import_path"
               /\ Begin(a, PathTo(Statement(a).name), Alias(Statement(a)))
    <3>1. Sought(a) = PathTo(Statement(a).name)
      BY <2>3 DEF Sought
    <3> QED
      BY <1>0, <2>3, <3>1, BeginLoad
  <2> QED
    BY <2>1, <2>2, <2>3
<1>6. CASE EndImport(a)
  BY <1>0, <1>6, EndLoad
<1>7. CASE Export(a)
  <2>1. SameLoaded /\ UNCHANGED origin /\ (Raise(a) \/ Proceed(a) \/ UNCHANGED <<frames, failed>>)
    BY <1>0, <1>7, ExportStep
  <2>2. Top(a).rest # <<>> /\ Statement(a).op = "export"
    BY <1>7 DEF Export, Ready
  <2>3. Waits(a)
    BY <2>1, <2>2 DEF Waits
  <2> QED
    BY <1>0, <1>1, <2>1, <2>3, LoadWaits
<1>8. CASE EndExtend(a)
  <2>1. SameLoaded
    BY <1>0, <1>8, EndExtendStep
  <2>2. UNCHANGED origin /\ Proceed(a) /\ extending[a].step # "idle"
    BY <1>8 DEF EndExtend, ExtendScope
  <2>3. Top(a).rest # <<>> /\ Statement(a).op = "extend"
    BY <1>0, <2>2 DEF BusyInv, BusyAt
  <2>4. Waits(a)
    BY <2>2, <2>3 DEF Waits
  <2> QED
    BY <1>0, <1>1, <2>1, <2>2, <2>4, LoadWaits
<1> QED
  BY <1>0, <1>2, <1>3, <1>4, <1>5, <1>6, <1>7, <1>8 DEF ModuleStep

\* A thread's first program, of which nothing is imported.
LEMMA FirstFrame ==
  ASSUME NEW e, NEW rest, NEW es, NEW org, NEW q, q = <<Frame(e, rest, NoLoad)>>
  PROVE  \A i \in DOMAIN q : FrameOk(i, q[i], es, org)
<1> DEFINE x == Frame(e, rest, NoLoad)
<1>1. ~x.load.runs
  BY DEF Frame, NoLoad
<1>2. FrameOk(1, x, es, org)
  BY <1>1 DEF FrameOk
<1> HIDE DEF x
<1>3. \A i \in DOMAIN <<x>> : i = 1 /\ <<x>>[i] = x
  OBVIOUS
<1>4. q = <<x>>
  BY DEF x
<1> QED
  BY <1>2, <1>3, <1>4

\* Every step preserves it, if imports find the environments of their files.
LEMMA LoadNext ==
  ASSUME ProgramsFormed, IInv, ProgramInv, LoadInv, NamesAgree, [Next]_vars
  PROVE  LoadInv'
<1>0. ShapeInv /\ EnvInv
  BY DEF IInv, ProgramInv
<1>1. CASE UNCHANGED <<envs, origin, frames>>
  BY <1>1 DEF LoadInv
<1>2. Grows(envs, envs)
  BY GrowsNot
<1>3. CASE NextStatement
  <2>1. UNCHANGED <<envs, origin>>
        /\ frames' = [frames EXCEPT ![Main] = <<Frame(Global, <<Head(program)>>, NoLoad)>>]
    BY <1>3 DEF NextStatement
  <2>2. /\ frames'[Main] = <<Frame(Global, <<Head(program)>>, NoLoad)>>
        /\ \A b \in Actors : b # Main => frames'[b] = frames[b]
    BY <1>0, <2>1, ActorFacts DEF ShapeInv
  <2>3. \A i \in DOMAIN frames'[Main] : FrameOk(i, frames'[Main][i], envs', origin')
    BY <2>2, FirstFrame
  <2> QED
    BY <1>0, <1>2, <2>1, <2>2, <2>3, LoadKept, ActorFacts DEF OriginStays
<1>4. CASE CallParallel \/ EndParallel
  <2>1. /\ UNCHANGED <<envs, origin, registry>>
        /\ Raise(Main) \/ UNCHANGED <<frames, failed>> \/ (Proceed(Main) /\ phase # "off")
        /\ frames[Main] # <<>>
    BY <1>4 DEF CallParallel, EndParallel, Ready, Busy, IInv, CallInv, Calling
  <2>2. phase # "off" => Top(Main).rest # <<>> /\ Statement(Main).op = "parallel"
    BY DEF IInv, CallInv, Calling
  <2>3. Waits(Main) /\ SameLoaded
    BY <2>1, <2>2 DEF Waits, SameLoaded
  <2>4. StepOf(Main)
    BY <1>0, <2>1, QuietStep, ActorFacts
  <2> QED
    BY <1>0, <2>1, <2>3, <2>4, LoadWaits, ActorFacts
<1>5. ASSUME NEW w \in Workers, BindParameters(w) PROVE LoadInv'
  <2> DEFINE call == Call(Functions[w])
             fs == Append(envs, call)
             frame == Frame(Len(fs), Functions[w].body, NoLoad)
  <2>1. \/ UNCHANGED <<envs, origin, frames>>
        \/ /\ envs' = fs /\ origin' = Append(origin, Missing)
           /\ frames' = [frames EXCEPT ![w] = <<frame>>]
    BY <1>5 DEF BindParameters, Call
  <2>2. IsEnv(call) /\ call.parent = Global /\ ~call.loaded
    BY <1>0, <1>5, WorkerFunction, CallIs DEF ProgramInv, BindParameters, Running
  <2>3. CASE /\ envs' = fs /\ origin' = Append(origin, Missing)
             /\ frames' = [frames EXCEPT ![w] = <<frame>>]
    <3>1. /\ frames'[w] = <<Frame(Len(fs), Functions[w].body, NoLoad)>>
          /\ \A b \in Actors : b # w => frames'[b] = frames[b]
      BY <1>0, <2>3, ActorFacts DEF ShapeInv
    <3>2. \A i \in DOMAIN frames'[w] : FrameOk(i, frames'[w][i], envs', origin')
      BY <3>1, FirstFrame
    <3> HIDE DEF frame, call
    <3>3. /\ Grows(envs, fs) /\ Len(envs) \in Nat /\ DOMAIN envs = 1..Len(envs)
          /\ DOMAIN fs = 1..(Len(envs) + 1) /\ fs[Len(envs) + 1] = call
          /\ \A e \in DOMAIN envs : fs[e] = envs[e]
      BY <1>0, <2>2, ForestMore DEF EnvInv
    <3> HIDE DEF fs
    <3>4. \A m \in DOMAIN envs' : envs'[m].loaded => m \in DOMAIN envs /\ envs[m].loaded
      <4>1. \A m \in DOMAIN envs' : m = Len(envs) + 1 \/ m \in DOMAIN envs
        BY <2>3, <3>3
      <4> QED
        BY <2>2, <2>3, <3>3, <4>1
    <3>5. OriginStays
      BY <1>0, <2>3, Extended DEF OriginStays, EnvInv
    <3> QED
      BY <1>0, <2>3, <3>1, <3>2, <3>3, <3>4, <3>5, LoadKept, ActorFacts
  <2> QED
    BY <1>1, <2>1, <2>3
<1>6. ASSUME NEW w \in Workers, EndWorker(w) PROVE LoadInv'
  <2>1. UNCHANGED <<envs, origin>> /\ frames' = [frames EXCEPT ![w] = <<>>]
    BY <1>6 DEF EndWorker
  <2>2. DOMAIN frames'[w] = {} /\ \A b \in Actors : b # w => frames'[b] = frames[b]
    BY <1>0, <2>1, ActorFacts DEF ShapeInv
  <2> QED
    BY <1>0, <1>2, <2>1, <2>2, LoadKept, ActorFacts DEF OriginStays
<1>7. CASE \E a \in Actors : Execute(a)
  BY <1>7, ExecuteLoad
<1>8. CASE StartWorker \/ AllStarted \/ Join \/ JoinUnstarted \/ UNCHANGED vars
  BY <1>1, <1>8 DEF StartWorker, AllStarted, Join, JoinUnstarted, vars, modVars
<1> QED
  BY <1>3, <1>4, <1>5, <1>6, <1>7, <1>8 DEF Next, ParentStep, WorkerStep

\* At the start nothing is loaded or in execution.
LEMMA LoadInit ==
  ASSUME ProgramsFormed, Init
  PROVE  LoadInv
<1> DEFINE x == NewEnv(0, MainDir, NoName)
<1>1. envs = <<x>> /\ frames = [a \in Actors |-> <<>>]
  BY DEF Init, InitModules
<1>2. ~x.loaded
  BY NewEnvIs
<1> HIDE DEF x
<1>3. \A m \in DOMAIN <<x>> : <<x>>[m] = x
  OBVIOUS
<1>4. DOMAIN <<>> = {}
  OBVIOUS
<1> QED
  BY <1>1, <1>2, <1>3, <1>4 DEF LoadInv

\* Only the end of an import ends a program that is not the thread's own.
LEMMA OnlyEndImport ==
  ASSUME IInv, ProgramInv, [Next]_vars, NEW a \in Actors, Completed(a)
  PROVE  EndImport(a)
<1>0. ShapeInv /\ EnvInv /\ BusyInv /\ Len(frames[a]) > 1 /\ Len(frames'[a]) = Len(frames[a]) - 1
      /\ ~failed'[a] /\ frames[a] # <<>> /\ Len(frames[a]) \in Nat
  <2>1. Len(frames[a]) \in Nat /\ Len(frames[a]) > 1
    BY ListLen DEF ProgramInv, EnvInv, GoodFrames, Completed
  <2>2. frames[a] # <<>>
    BY <2>1
  <2> QED
    BY <2>1, <2>2 DEF IInv, ProgramInv, Completed
<1>1. frames'[a] # frames[a] /\ ~Raise(a)
  BY <1>0 DEF Raise, EnvInv
<1>2. ~Proceed(a)
  <2> SUFFICES ASSUME Proceed(a) PROVE FALSE
    OBVIOUS
  <2>1. frames'[a] = Advanced(a)
    BY <1>0 DEF Proceed, ShapeInv
  <2>2. DOMAIN Advanced(a) = DOMAIN frames[a] /\ IsList(Advanced(a)) /\ IsList(frames[a])
    BY <1>0, AdvancedIs DEF EnvInv, Cut, GoodFrames
  <2>3. Len(Advanced(a)) = Len(frames[a])
    BY <2>2, ListLen
  <2> QED
    BY <1>0, <2>1, <2>3
<1>3. \A file, e : ~Pushes(a, file, e)
  <2> SUFFICES ASSUME NEW file, NEW e, Pushes(a, file, e) PROVE FALSE
    OBVIOUS
  <2> DEFINE f == Frame(e, IF LoadOf(a, file, e).runs THEN Body(file) ELSE <<>>, LoadOf(a, file, e))
             r == Append(Advanced(a), f)
  <2>1. frames'[a] = r
    BY <1>0 DEF Pushes, ShapeInv
  <2> HIDE DEF f
  <2>2. DOMAIN Advanced(a) = DOMAIN frames[a] /\ IsList(Advanced(a)) /\ IsList(frames[a])
    BY <1>0, AdvancedIs DEF EnvInv, Cut, GoodFrames
  <2>3. Len(Advanced(a)) = Len(frames[a]) /\ IsList(r) /\ DOMAIN r = 1..(Len(Advanced(a)) + 1)
    BY <2>2, ListLen, Extended
  <2> HIDE DEF r
  <2>4. Len(r) = Len(frames[a]) + 1
    BY <1>0, <2>3, ListLen
  <2> QED
    BY <1>0, <2>1, <2>4
<1>4. a \in Workers => ~EndWorker(a) /\ ~BindParameters(a)
  <2>1. CASE a \in Workers /\ EndWorker(a)
    BY <1>0, <2>1 DEF EndWorker, Ended
  <2>2. CASE a \in Workers /\ BindParameters(a)
    <3>1. worker[a] # "run"
      BY <2>2 DEF BindParameters
    <3> QED
      BY <1>0, <2>2, <3>1 DEF ProgramInv, IdleInv
  <2> QED
    BY <2>1, <2>2
<1>5. a = Main => ~NextStatement /\ ~CallParallel /\ ~EndParallel
  BY <1>0, <1>1, <1>2 DEF NextStatement, CallParallel, EndParallel
<1>6. /\ NextStatement \/ CallParallel \/ EndParallel => a = Main
      /\ \A w \in Workers : BindParameters(w) \/ EndWorker(w) => a = w
  BY <1>0, <1>1, ActorFacts DEF NextStatement, CallParallel, EndParallel, Raise, Proceed,
     BindParameters, EndWorker, ShapeInv
<1>7. \E b \in Actors : ModuleStep(b)
  BY <1>1, <1>4, <1>5, <1>6 DEF Next, vars, modVars, ParentStep, StartWorker, AllStarted, Join,
     JoinUnstarted, WorkerStep, Execute
<1>8. PICK b \in Actors : ModuleStep(b)
  BY <1>7
<1>9. b = a
  BY <1>0, <1>1, <1>8, ModuleStepOf DEF StepOf
<1>10. ASSUME NEW file, NEW scope, Begin(a, file, scope) PROVE FALSE
  BY <1>0, <1>1, <1>3, <1>10, BeginIs
<1>11. ~Export(a)
  BY <1>0, <1>1, <1>2, ExportStep
<1> QED
  BY <1>1, <1>2, <1>8, <1>9, <1>10, <1>11 DEF ModuleStep, AssignLookup, AssignDefine,
      EndAssign, Fail,
     BeginImport, BeginInclude, BeginImportPath, Extend, EndExtend, modVars

\* What ImportComplete says of a step of thread a.
CompleteAt(a) ==
  Completed(a) =>
    LET load == Top(a).load
        e == frames'[a][Len(frames'[a])].env
        prefix == IF load.call.op = "include" THEN <<>> ELSE <<Alias(load.call)>>
    IN load.file \in Files /\ Readable(load.file) /\ origin[load.env] = load.file =>
         \A i \in DOMAIN Body(load.file) :
           LET s == Body(load.file)[i]
           IN s.op = "assign" => Holder(envs', e, prefix \o <<s.name>>) # 0

\* The end of an import, as the property says it.
LEMMA CompleteStep ==
  ASSUME ProgramsFormed, IInv, ProgramInv, LoadInv, [Next]_vars, NEW a \in Actors
  PROVE  CompleteAt(a)
<1> DEFINE q == frames[a]
           n == Len(q)
           load == Top(a).load
           m == q[n].env
           e == q[n - 1].env
           b == Body(load.file)
           prefix == PrefixOf(load)
<1> SUFFICES ASSUME Completed(a), load.file \in Files, Readable(load.file),
                    origin[load.env] = load.file,
                    NEW i \in DOMAIN b, b[i].op = "assign"
             PROVE  Holder(envs', frames'[a][Len(frames'[a])].env, prefix \o <<b[i].name>>) # 0
  BY DEF CompleteAt, PrefixOf
<1>0. ShapeInv /\ EnvInv /\ EndImport(a)
  BY OnlyEndImport DEF IInv, ProgramInv
<1>1. /\ n \in Nat /\ n > 1 /\ DOMAIN q = 1..n /\ Top(a) = q[n]
      /\ q[n].load.env = m
      /\ UNCHANGED <<envs, frames, failed>> \/ Ends(a, m, e)
  BY <1>0, EndImportIs
<1>2. Ends(a, m, e) /\ ~Raise(a)
  <2>1. frames'[a] # frames[a]
    BY <1>1 DEF Completed
  <2>2. ~Raise(a)
    BY <1>0 DEF Raise, Completed, EnvInv
  <2> QED
    BY <1>1, <2>1, <2>2
<1>3. /\ frames' = [frames EXCEPT ![a] = SubSeq(q, 1, n - 1)]
      /\ \A j \in DOMAIN envs[m].entries : envs[m].entries[j].init =>
           Holder(envs', e, prefix \o envs[m].entries[j].name) # 0
  BY <1>1, <1>2 DEF Ends
<1>4. frames'[a][Len(frames'[a])].env = e
  <2> DEFINE r == SubSeq(q, 1, Len(q) - 1)
  <2>1. frames'[a] = r
    BY <1>0, <1>3 DEF ShapeInv
  <2>2. r = SubSeq(q, 1, Len(q) - 1)
    OBVIOUS
  <2> HIDE DEF r
  <2>3. Len(r) = Len(q) - 1 /\ DOMAIN r = 1..(Len(q) - 1) /\ \A j \in DOMAIN r : r[j] = q[j]
    BY <1>0, <1>1, <2>2, BelowIs DEF EnvInv
  <2>4. n - 1 \in DOMAIN r
    BY <1>1, <2>3
  <2> QED
    BY <2>1, <2>3, <2>4
<1>5. Whole(envs[m], load.file)
  <2>1. CASE load.runs
    BY <1>0, <1>1, <2>1, EndWhole
  <2>2. CASE ~load.runs
    <3>1. envs[m].loaded
      BY <1>0, <1>1, <2>2, EndWhole
    <3>2. m \in DOMAIN envs /\ origin[m] = load.file
      BY <1>0, <1>1 DEF EnvInv, GoodFrames
    <3> QED
      BY <3>1, <3>2 DEF LoadInv
  <2> QED
    BY <2>1, <2>2
<1>6. i \in 1..Len(b)
  <2>1. IsList(b)
    BY DEF ProgramsFormed, AllFormed
  <2> QED
    BY <2>1, ListLen
<1>7. PICK j \in DOMAIN envs[m].entries :
        envs[m].entries[j].name = <<b[i].name>> /\ envs[m].entries[j].init
  BY <1>5, <1>6 DEF Whole, Holds, HasValue
<1> QED
  BY <1>3, <1>4, <1>7

\* When an import returns, the module's body has been executed to its end in the
\* environment and the caller has each of its names, even if an earlier import failed
\* in the middle of the body or another thread is executing it, as long as no
\* body is executed in the environment of another file that has one.
THEOREM ImportsComplete == ProgramsFormed => (Spec /\ []NamesAgree => ImportComplete)
<1> SUFFICES ASSUME ProgramsFormed PROVE Spec /\ []NamesAgree => ImportComplete
  OBVIOUS
<1>1. Init => LoadInv
  BY LoadInit
<1>2. IInv /\ ProgramInv /\ LoadInv /\ NamesAgree /\ [Next]_vars => LoadInv'
  BY LoadNext
<1>3. IInv /\ ProgramInv /\ LoadInv /\ [Next]_vars => [\A a \in Actors : CompleteAt(a)]_vars
  BY CompleteStep
<1>4. ImportComplete <=> [][\A a \in Actors : CompleteAt(a)]_vars
  BY DEF ImportComplete, CompleteAt
<1> QED
  BY <1>1, <1>2, <1>3, <1>4, Invariance, ProgramsSound, PTL DEF Spec

=============================================================================
