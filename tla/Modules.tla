------------------------------ MODULE Modules -------------------------------
(***************************************************************************)
(* IMPORT, IMPORT_PATH, INCLUDE, EXPORT and EXTEND: the search for a       *)
(* module's file, the registry of module environments, the execution of a  *)
(* module's body in its environment, and the bindings a caller gets.       *)
(*                                                                         *)
(* Each thread has the list of modules its interpreter started with and    *)
(* what it registers itself; the environments in it are shared.  A body is *)
(* executed a statement at a time, so that imports nest and the bodies of  *)
(* several threads interleave.  The texts of paths are abstract: a file is *)
(* its canonical path, under which it is cached.                           *)
(***************************************************************************)
EXTENDS Extensions

CONSTANTS
  Files,          \* module files
  FileAt(_, _),   \* what a directory has under a name: a file, Missing, or NoInit
  PathTo(_),      \* the file a path given to import_path leads to, or Missing
  DirOf(_),       \* the directory of a file
  Body(_),        \* the statements of a file
  Readable(_),    \* can the file be opened and read?
  WellFormed(_),  \* does it parse?
  MainDir,        \* the directory of the program
  LibDirs,        \* lib/std and lib/usr of the program and of the interpreter
  BaseName(_),    \* the name import_path derives from a path
  Missing,        \* no file, and no directory
  NoInit,         \* a package directory without init.pre
  Str,            \* the type of a name that stands for a module
  MaxDepth        \* bound: imports in progress in one thread, the C stack

ASSUME ModulesAssumption ==
  /\ {Missing, NoInit} \cap Files = {} /\ Missing # NoInit
  /\ MaxDepth \in Nat \ {0}

VARIABLES
  envs,      \* environments: entries in order, parent and markers of a module
  origin,    \* the file each environment is the module of, or Missing: a history
  registry,  \* each thread's interp->modules, the newest first: name and environment
  frames,    \* each thread's programs in execution, the innermost last
  failed,    \* the thread's program has ended with an error
  stuck,     \* the thread recurses or loops without bound
  assigning  \* the environment in which each thread's assignment goes on, and its step

modVars == <<envs, origin, registry, frames, failed, stuck, assigning>>

Global == 1

NotAssigning == [step |-> "idle", env |-> 0]

NoLoad == [call |-> [op |-> "none"], file |-> Missing, env |-> 0, runs |-> FALSE]

Entry(name, type, init) == [name |-> name, type |-> type, init |-> init]

NewEnv(parent, source, scope) ==
  [entries |-> <<>>, parent |-> parent, source |-> source, scope |-> scope,
   loaded |-> FALSE, extensions |-> <<>>]

\* A program in execution: its environment, the statements left, and the import it serves.
Frame(e, rest, load) == [env |-> e, rest |-> rest, load |-> load]

-----------------------------------------------------------------------------
(* Environments: a name is looked up in one and then in its parent. *)

Chain(es, e) == IF es[e].parent = 0 THEN <<e>> ELSE <<e, es[e].parent>>

At(es, e, name) == {i \in DOMAIN es[e].entries : es[e].entries[i].name = name}

\* The nearest environment of the chain in which P holds, or 0.
Nearest(es, e, P(_)) ==
  LET c == Chain(es, e)
      hits == {i \in DOMAIN c : P(c[i])}
  IN IF hits = {} THEN 0 ELSE c[CHOOSE i \in hits : \A j \in hits : i <= j]

Holder(es, e, name) == Nearest(es, e, LAMBDA x : At(es, x, name) # {})
TypeOf(es, h, name) == es[h].entries[CHOOSE i \in At(es, h, name) : TRUE].type

\* env_assign with a declared type: a name of another type refuses.
CanAssign(es, e, name, type) ==
  LET h == Holder(es, e, name) IN h = 0 \/ TypeOf(es, h, name) = type

Define(es, e, name, type, init) ==
  IF At(es, e, name) # {} THEN es
  ELSE [es EXCEPT ![e].entries = Append(@, Entry(name, type, init))]

Assign(es, e, name, type) ==
  LET h == Holder(es, e, name)
  IN IF h = 0 THEN Define(es, e, name, type, TRUE)
     ELSE [es EXCEPT ![h].entries[CHOOSE i \in At(es, h, name) : TRUE].init = TRUE]

\* __MODULE_SOURCE__, __MODULE_SCOPE__ and __EXTEND_NAMES__ are names like others.
Marked(es, e, P(_)) == Nearest(es, e, LAMBDA x : P(es[x]))
SourceDir(es, e) ==
  LET h == Marked(es, e, LAMBDA x : x.source # NoName) IN IF h = 0 THEN NoName ELSE es[h].source
ScopeName(es, e) ==
  LET h == Marked(es, e, LAMBDA x : x.scope # NoName) IN IF h = 0 THEN NoName ELSE es[h].scope

-----------------------------------------------------------------------------
(* The registry of modules. *)

Lookup(list, name) ==
  LET hits == {i \in DOMAIN list : list[i].name = name}
  IN IF hits = {} THEN 0 ELSE list[CHOOSE i \in hits : TRUE].env

RegisterName(list, name, e) ==
  IF Lookup(list, name) # 0 THEN list ELSE <<[name |-> name, env |-> e]>> \o list

SearchDirs(dir) == <<IF dir = NoName THEN MainDir ELSE dir>> \o LibDirs

\* The first directory that has the name decides, a package before a module.
Found(dir, name) ==
  LET dirs == SearchDirs(dir)
      hits == {i \in DOMAIN dirs : FileAt(dirs[i], name) # Missing}
  IN IF hits = {} THEN Missing
     ELSE FileAt(dirs[CHOOSE i \in hits : \A j \in hits : i <= j], name)

-----------------------------------------------------------------------------
(* The bindings a caller gets, as the list of the steps that make them. *)

Do(kind, name, type) == [kind |-> kind, name |-> name, type |-> type]

\* Bindings not yet assigned are passed over.
Prefixed(prefix, entries) ==
  [i \in DOMAIN entries |->
     Do(IF entries[i].init THEN "assign" ELSE "skip", prefix \o entries[i].name, entries[i].type)]

\* The bindings of one extension namespace of a module, under an alias.
NamespaceSteps(alias, space, entries) ==
  <<Do("expose", <<alias, space>>, Str), Do("ensure", <<alias, space>>, Str)>>
    \o Prefixed(<<alias, space>>, entries)

State == [envs |-> envs, loaded |-> loaded, operators |-> operators, ok |-> TRUE]

\* One step into environment e; after an error there is no other.
Bind(s, e, step) ==
  CASE ~s.ok \/ step.kind = "skip" -> s
    [] s.ok /\ step.kind = "expose" -> ExposeNamed(s, step.name[2], step.name[1])
    [] s.ok /\ step.kind = "ensure" /\ Holder(s.envs, e, step.name) # 0 -> s
    [] OTHER ->
         IF CanAssign(s.envs, e, step.name, step.type)
         THEN [s EXCEPT !.envs = Assign(@, e, step.name, step.type)]
         ELSE [s EXCEPT !.ok = FALSE]

BindAll(s, e, steps) == FoldLeft(LAMBDA acc, step : Bind(acc, e, step), s, steps)

IncludeFrom(s, e, env) == BindAll(s, e, Prefixed(<<>>, env.entries))

\* The bindings of a module under an alias, then under those of its extensions.
ExportAs(s, e, env, alias) ==
  FoldLeft(LAMBDA acc, space : BindAll(acc, e, NamespaceSteps(alias, space, env.entries)),
           BindAll(s, e, Prefixed(<<alias>>, env.entries)), env.extensions)

\* And under every name that a list has for the module's environment m.
ExportAll(s, e, env, list, m) ==
  FoldLeft(LAMBDA acc, x : IF x.env = m THEN ExportAs(acc, e, env, x.name) ELSE acc, s, list)

\* What an import leaves its caller.
Give(s, e, env, alias) == Bind(ExportAs(s, e, env, alias), e, Do("ensure", <<alias>>, Str))

-----------------------------------------------------------------------------
(* A thread executes the next statement of its innermost program. *)

Top(a) == frames[a][Len(frames[a])]
Busy(a) == frames[a] # <<>> /\ ~stuck[a] /\ extending[a].step = "idle"
Ready(a) == Busy(a) /\ assigning[a] = NotAssigning /\ Top(a).rest # <<>>
Statement(a) == Head(Top(a).rest)

\* The programs of the thread with the statement done.
Advanced(a) == [frames[a] EXCEPT ![Len(frames[a])].rest = Tail(@)]

\* An error ends every program up to the thread's own.
Raise(a) ==
  /\ frames' = [frames EXCEPT ![a] = <<[@[1] EXCEPT !.rest = <<>>]>>]
  /\ failed' = [failed EXCEPT ![a] = TRUE]

Proceed(a) ==
  /\ frames' = [frames EXCEPT ![a] = Advanced(a)]
  /\ UNCHANGED failed

\* A typed assignment looks the name up, declares it if it is new, in the parent of
\* a call's environment, and assigns: three calls that other threads come between.
AssignLookup(a) ==
  LET s == Statement(a)
      e == Top(a).env
      h == Holder(envs, e, <<s.name>>)
      into == IF h = 0 /\ envs[e].parent # 0 THEN envs[e].parent ELSE e
  IN /\ Ready(a) /\ s.op = "assign"
     /\ IF CanAssign(envs, e, <<s.name>>, s.type)
        THEN /\ assigning' = [assigning EXCEPT ![a] =
                  [step |-> IF h = 0 THEN "define" ELSE "assign", env |-> into]]
             /\ UNCHANGED <<frames, failed>>
        ELSE Raise(a) /\ UNCHANGED assigning
     /\ UNCHANGED <<envs, origin, registry, stuck, extVars>>

\* A name defined meanwhile keeps its type: the failure goes unnoticed.
AssignDefine(a) ==
  /\ assigning[a].step = "define"
  /\ envs' = Define(envs, assigning[a].env, <<Statement(a).name>>, Statement(a).type, FALSE)
  /\ assigning' = [assigning EXCEPT ![a].step = "assign"]
  /\ UNCHANGED <<origin, registry, frames, failed, stuck, extVars>>

\* Mutant of StillFits: the name has been looked up before.
FitsAsBefore(a) == TRUE

\* Does the name still have the type?
StillFits(a) == CanAssign(envs, assigning[a].env, <<Statement(a).name>>, Statement(a).type)

EndAssign(a) ==
  LET s == Statement(a)
      e == assigning[a].env
  IN /\ assigning[a].step = "assign"
     /\ assigning' = [assigning EXCEPT ![a] = NotAssigning]
     /\ IF StillFits(a)
        THEN Proceed(a) /\ envs' = Assign(envs, e, <<s.name>>, s.type)
        ELSE Raise(a) /\ UNCHANGED envs
     /\ UNCHANGED <<origin, registry, stuck, extVars>>

Fail(a) ==
  /\ Ready(a) /\ Statement(a).op = "fail"
  /\ Raise(a)
  /\ UNCHANGED <<envs, origin, registry, stuck, assigning, extVars>>

\* The name under which an import is registered besides its own.
Alias(s) ==
  CASE s.op = "include" -> s.name
    [] s.op # "include" /\ s.alias # NoName -> s.alias
    [] s.op = "import" /\ s.alias = NoName -> s.name
    [] s.op = "import_path" /\ s.alias = NoName -> BaseName(s.name)

\* Mutant of Cached: the registry is asked for the name only.
CachedByName(a, s, file) == Lookup(registry[a], s.name)

\* The environment registered for the file, or else for the name.
Cached(a, s, file) ==
  LET byFile == IF file \in Files THEN Lookup(registry[a], file) ELSE 0
      byName == IF s.op = "import_path" /\ file \in Files THEN 0
                ELSE Lookup(registry[a], s.name)
  IN IF byFile # 0 THEN byFile ELSE byName

\* Mutant of Started: the module counts as loaded when its body starts.
StartedLoaded(env, file) == [env EXCEPT !.source = DirOf(file), !.loaded = TRUE]

\* What the execution of a body leaves in the environment before it starts.
Started(env, file) == [env EXCEPT !.source = DirOf(file)]

\* From the file found to the environment in which the body, if it has to run, starts.
Begin(a, file, scope) ==
  LET s == Statement(a)
      cached == Cached(a, s, file)
      new == cached = 0
      es == IF new THEN Append(envs, NewEnv(0, NoName, scope)) ELSE envs
      e == IF new THEN Len(origin) + 1 ELSE cached
      list == RegisterName(RegisterName(IF new THEN RegisterName(registry[a], file, e)
                                        ELSE registry[a], s.name, e), Alias(s), e)
      runs == ~es[e].loaded /\ file \in Files /\ Readable(file)
      load == [call |-> s, file |-> file, env |-> e, runs |-> runs]
  IN /\ \/ /\ file = NoInit \/ (file = Missing /\ new)
           /\ Raise(a)
           /\ UNCHANGED <<envs, origin, registry, stuck>>
        \/ /\ file # NoInit /\ ~(file = Missing /\ new)
           /\ registry' = [registry EXCEPT ![a] = list]
           /\ origin' = IF new THEN Append(origin, file) ELSE origin
           /\ envs' = IF runs THEN [es EXCEPT ![e] = Started(@, file)] ELSE es
           /\ IF runs /\ ~WellFormed(file) THEN Raise(a) /\ UNCHANGED stuck
              ELSE /\ stuck' = [stuck EXCEPT ![a] = runs /\ Len(frames[a]) > MaxDepth]
                   /\ frames' = [frames EXCEPT ![a] =
                        Append(Advanced(a), Frame(e, IF runs THEN Body(file) ELSE <<>>, load))]
                   /\ UNCHANGED failed
     /\ UNCHANGED <<assigning, extVars>>

Searched(a) == Found(SourceDir(envs, Top(a).env), Statement(a).name)

BeginImport(a) ==
  /\ Ready(a) /\ Statement(a).op = "import"
  /\ Begin(a, Searched(a), Statement(a).name)

BeginInclude(a) ==
  /\ Ready(a) /\ Statement(a).op = "include"
  /\ Begin(a, Searched(a), Statement(a).name)

\* The path leads to the file, and the alias becomes the module's scope.
BeginImportPath(a) ==
  /\ Ready(a) /\ Statement(a).op = "import_path"
  /\ Begin(a, PathTo(Statement(a).name), Alias(Statement(a)))

\* The body has been executed: mark the module, give the caller its bindings.
EndImport(a) ==
  LET top == Top(a)
      below == SubSeq(frames[a], 1, Len(frames[a]) - 1)
      e == below[Len(below)].env
      m == top.load.env
      es == IF top.load.runs THEN [envs EXCEPT ![m].loaded = TRUE] ELSE envs
      alias == Alias(top.load.call)
      start == [State EXCEPT !.envs = es]
      s == IF top.load.call.op = "include" THEN IncludeFrom(start, e, es[m])
           ELSE Give(start, e, es[m], alias)
  IN /\ Busy(a) /\ Len(frames[a]) > 1 /\ top.rest = <<>>
     /\ IF m = e /\ top.load.call.op # "include" /\ envs[e].entries # <<>>
        THEN /\ stuck' = [stuck EXCEPT ![a] = TRUE]
             /\ UNCHANGED <<envs, loaded, operators, frames, failed>>
        ELSE /\ envs' = s.envs /\ loaded' = s.loaded /\ operators' = s.operators
             /\ IF s.ok THEN frames' = [frames EXCEPT ![a] = below] /\ UNCHANGED failed
                ELSE Raise(a)
             /\ UNCHANGED stuck
     /\ UNCHANGED <<origin, registry, assigning, loading, extending>>

\* EXPORT: into the module, then every name of the module again for the caller.
Export(a) ==
  LET s == Statement(a)
      e == Top(a).env
      h == Holder(envs, e, <<s.name>>)
      m == Lookup(registry[a], s.module)
      type == TypeOf(envs, h, <<s.name>>)
      es == Assign(envs, m, <<s.name>>, type)
      r == ExportAll([State EXCEPT !.envs = es], e, es[m], registry[a], m)
      known == h # 0 /\ \E i \in At(envs, h, <<s.name>>) : envs[h].entries[i].init
      fits == IF ~known \/ m = 0 THEN FALSE ELSE CanAssign(envs, m, <<s.name>>, type)
  IN /\ Ready(a) /\ s.op = "export"
     /\ CASE ~fits -> Raise(a) /\ UNCHANGED <<envs, stuck, loaded, operators>>
          [] fits /\ m = e -> /\ stuck' = [stuck EXCEPT ![a] = TRUE]
                              /\ UNCHANGED <<envs, loaded, operators, frames, failed>>
          [] fits /\ m # e -> /\ envs' = r.envs /\ loaded' = r.loaded /\ operators' = r.operators
                              /\ IF r.ok THEN Proceed(a) ELSE Raise(a)
                              /\ UNCHANGED stuck
     /\ UNCHANGED <<origin, registry, assigning, loading, extending>>

\* EXTEND: the loader's steps, then the names it leaves in the environment.
Extend(a) ==
  LET s == Statement(a)
      e == Top(a).env
      library == ResolveLibrary(s.name, SourceDir(envs, e))
  IN /\ Ready(a) /\ s.op = "extend"
     /\ IF library = NoLibrary
        THEN Raise(a) /\ UNCHANGED extVars
        ELSE /\ ExtendLookup(a, library, ExtensionOf(s.name), ScopeName(envs, e))
             /\ UNCHANGED <<frames, failed>>
     /\ UNCHANGED <<envs, origin, registry, stuck, assigning>>

EndExtend(a) ==
  LET name == extending[a].name
      e == Top(a).env
      h == Marked(envs, e, LAMBDA x : x.extensions # <<>>)
      into == IF h = 0 THEN e ELSE h
      es == IF CanAssign(envs, e, <<name>>, Str) THEN Assign(envs, e, <<name>>, Str) ELSE envs
  IN /\ ExtendScope(a)
     /\ envs' = IF name \in ToSet(es[into].extensions) THEN es
                ELSE [es EXCEPT ![into].extensions = Append(@, name)]
     /\ Proceed(a)
     /\ UNCHANGED <<origin, registry, stuck, assigning>>

InitModules ==
  /\ ExtInit
  /\ envs = <<NewEnv(0, MainDir, NoName)>> /\ origin = <<Missing>>
  /\ registry = [a \in Actors |-> <<>>]
  /\ frames = [a \in Actors |-> <<>>]
  /\ failed = [a \in Actors |-> FALSE]
  /\ stuck = [a \in Actors |-> FALSE]
  /\ assigning = [a \in Actors |-> NotAssigning]

ModuleStep(a) ==
  \/ AssignLookup(a) \/ AssignDefine(a) \/ EndAssign(a) \/ Fail(a)
  \/ BeginImport(a) \/ BeginInclude(a) \/ BeginImportPath(a) \/ EndImport(a)
  \/ Export(a)
  \/ Extend(a) \/ EndExtend(a)
  \/ LoaderStep(a) /\ UNCHANGED modVars
=============================================================================
