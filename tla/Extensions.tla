----------------------------- MODULE Extensions -----------------------------
(***************************************************************************)
(* The loader of compiled extensions (extensions.c): the libraries loaded  *)
(* by the process, the operators they register and the names under which   *)
(* their module-restricted operators are exposed.  All of it is one state  *)
(* of the process without a lock, which the threads of PARALLEL share: the *)
(* call of a library's init function, between the loader's writes of       *)
(* g_current_loading_extension, is a step of its own.                      *)
(***************************************************************************)
EXTENDS Naturals, Sequences, FiniteSets, SequencesExt

CONSTANTS
  Actors,         \* the threads that execute programs
  ExtPlaces,      \* the places searched after the calling module's directory
  LibraryAt(_, _, _), \* the library a specifier names in a place, as a file or
                  \* (TRUE) as the init of a directory, or NoLibrary
  ExtensionOf(_), \* extension_name_from_spec: the name a specifier gives
  Operators(_),   \* the operators the init function of a library registers, in order
  Restricted(_),  \* those of them registered as module-restricted
  NoLibrary, NoName

VARIABLES
  loaded,     \* g_loaded, the oldest first: library, exposures, and the operators
              \* recorded, each with the library whose function it calls
  operators,  \* g_dynamic_builtins: each name and the library whose function it calls
  loading,    \* g_current_loading_extension and g_loading_extension_name
  extending   \* each thread's call of extensions_load_named, or Idle

extVars == <<loaded, operators, loading, extending>>

Idle == [step |-> "idle", library |-> NoLibrary, name |-> NoName, scope |-> NoName, at |-> 0]
NotLoading == [at |-> 0, name |-> NoName]

ExtInit ==
  /\ loaded = <<>> /\ operators = {}
  /\ loading = NotLoading
  /\ extending = [a \in Actors |-> Idle]

\* The order of the search: as given from the working directory, beside the
\* calling module, then the roots of the interpreter.
SearchOrder(dir) ==
  LET head == IF ExtPlaces = <<>> THEN <<>> ELSE <<Head(ExtPlaces)>>
  IN head \o (IF dir = NoName THEN <<>> ELSE <<dir>>) \o
       (IF ExtPlaces = <<>> THEN <<>> ELSE Tail(ExtPlaces))

FirstLibrary(order, spec, init) ==
  LET hits == {i \in DOMAIN order : LibraryAt(order[i], spec, init) # NoLibrary}
  IN IF hits = {} THEN NoLibrary
     ELSE LibraryAt(order[CHOOSE i \in hits : \A j \in hits : i <= j], spec, init)

\* A file in any place is preferred to the init of a directory.
ResolveLibrary(spec, dir) ==
  LET file == FirstLibrary(SearchOrder(dir), spec, FALSE)
  IN IF file # NoLibrary THEN file ELSE FirstLibrary(SearchOrder(dir), spec, TRUE)

\* The list is searched from its newest entry.
NewestWhere(list, P(_)) ==
  LET hits == {i \in DOMAIN list : P(list[i])}
  IN IF hits = {} THEN 0 ELSE CHOOSE i \in hits : \A j \in hits : j <= i

FindByPath(list, library) == NewestWhere(list, LAMBDA e : e.library = library)
FindExposed(list, name) == NewestWhere(list, LAMBDA e : <<name>> \in e.exposures)

\* A name already taken keeps its operator.
Register(ops, new) ==
  FoldLeft(LAMBDA acc, o : IF \E x \in acc : x.name = o.name THEN acc ELSE acc \cup {o}, ops, new)

Operator(name, library) == [name |-> name, library |-> library]

-----------------------------------------------------------------------------

ScopeKey(scope, name) == <<scope, name>>

\* The aliases of what the extension has recorded, the newest first; another
\* library's operators may be among it.
ScopeNames(entry, name, scope) ==
  LET restricted == SelectSeq(entry.recorded, LAMBDA o : o.name \in Restricted(o.library))
      alias(o) == Operator(<<scope, name, o.name>>, o.library)
  IN [i \in DOMAIN restricted |-> alias(Reverse(restricted)[i])]

ExposeScope(state, i, name, scope) ==
  IF scope = NoName \/ ScopeKey(scope, name) \in state.loaded[i].exposures
  THEN state
  ELSE [state EXCEPT
          !.loaded[i].exposures = @ \cup {ScopeKey(scope, name)},
          !.operators = Register(@, ScopeNames(state.loaded[i], name, scope))]

\* extensions_expose_named; its error is dropped by the caller.
ExposeNamed(state, name, scope) ==
  LET i == FindExposed(state.loaded, name)
  IN IF i = 0 THEN state ELSE ExposeScope(state, i, name, scope)

-----------------------------------------------------------------------------
(* A thread's call of extensions_load_named. *)

\* Is the library loaded?
ExtendLookup(a, library, name, scope) ==
  /\ extending[a].step = "idle"
  /\ extending' = [extending EXCEPT ![a] =
       [step |-> "open", library |-> library, name |-> name, scope |-> scope,
        at |-> FindByPath(loaded, library)]]
  /\ UNCHANGED <<loaded, operators, loading>>

\* Enter the library in the list, and name the extension the init function loads.
ExtendOpen(a) ==
  LET x == extending[a]
      new == [library |-> x.library, exposures |-> {}, recorded |-> <<>>]
      list == IF x.at = 0 THEN Append(loaded, new) ELSE loaded
      at == IF x.at = 0 THEN Len(list) ELSE x.at
      known == <<x.name>> \in list[at].exposures
  IN /\ x.step = "open"
     /\ loaded' = list
     /\ loading' = IF known THEN loading ELSE [at |-> at, name |-> x.name]
     /\ extending' = [extending EXCEPT ![a].step = IF known THEN "scope" ELSE "init",
                                       ![a].at = at]
     /\ UNCHANGED operators

\* The init function registers: the operators go to whatever extension is loading.
ExtendInit(a) ==
  LET x == extending[a]
      new == Operators(x.library)
      qualify(o) == IF o \in Restricted(x.library) /\ loading.name # NoName
                    THEN <<loading.name, o>> ELSE <<o>>
  IN /\ x.step = "init"
     /\ loaded' = IF loading.at = 0 THEN loaded
                  ELSE [loaded EXCEPT ![loading.at].recorded =
                          @ \o [i \in DOMAIN new |-> Operator(new[i], x.library)]]
     /\ operators' = Register(operators,
                       [i \in DOMAIN new |-> Operator(qualify(new[i]), x.library)])
     /\ extending' = [extending EXCEPT ![a].step = "expose"]
     /\ UNCHANGED loading

ExtendExpose(a) ==
  LET x == extending[a]
  IN /\ x.step = "expose"
     /\ loading' = NotLoading
     /\ loaded' = [loaded EXCEPT ![x.at].exposures = @ \cup {<<x.name>>}]
     /\ extending' = [extending EXCEPT ![a].step = "scope"]
     /\ UNCHANGED operators

\* The aliases of the scope; the call is over.
ExtendScope(a) ==
  LET x == extending[a]
      s == ExposeScope([loaded |-> loaded, operators |-> operators], x.at, x.name, x.scope)
  IN /\ x.step = "scope"
     /\ loaded' = s.loaded /\ operators' = s.operators
     /\ extending' = [extending EXCEPT ![a] = Idle]
     /\ UNCHANGED loading

LoaderStep(a) == ExtendOpen(a) \/ ExtendInit(a) \/ ExtendExpose(a)

=============================================================================
