------------------------------ MODULE Parallel ------------------------------
(***************************************************************************)
(* The program's thread, which executes statements at the top level, each  *)
(* caught by a try, and the workers of PARALLEL: a thread for each         *)
(* function, with an interpreter of its own that starts with the module    *)
(* list of its parent, which the parent joins in order.                    *)
(***************************************************************************)
EXTENDS Modules

CONSTANTS
  Programs,         \* programs: sequences of statements
  MaxWorkers,       \* bound: functions of one PARALLEL
  StartCanFail,     \* can thrd_create, or the allocation before it, fail?
  Coercible(_, _),  \* does the builtin of the second type convert the first?
  NoFunction,       \* an argument that is not a function
  NoDefault, Failing  \* a parameter without default, a default that raises an error

Main == 0
Workers == 1..MaxWorkers

ASSUME ParallelAssumption == MaxWorkers \in Nat /\ Actors = {Main} \cup Workers

VARIABLES
  program,   \* the statements the program has yet to begin
  phase,     \* where the parent is in PARALLEL
  next,      \* the function it starts, or joins
  errors,    \* the error each worker has left, or None
  worker,    \* where each worker is
  outcome    \* the result of the last PARALLEL

parVars == <<program, phase, next, errors, worker, outcome>>
vars == <<extVars, modVars, parVars>>

None == [line |-> 0, by |-> 0]

\* An error and the worker it is of; the line is 0 when no statement raised it.
Error(w, line) == [line |-> line, by |-> w]
CallLine == 9     \* the line of the PARALLEL itself
BodyLine == 1

Pending == [line |-> 0, by |-> -1]

Init ==
  /\ InitModules
  /\ program \in Programs /\ phase = "off" /\ next = 1
  /\ errors = [w \in Workers |-> None]
  /\ worker = [w \in Workers |-> "none"]
  /\ outcome = None

\* The program's next statement.
NextStatement ==
  /\ phase = "off" /\ ~stuck[Main] /\ program # <<>>
  /\ \/ frames[Main] = <<>>
     \/ Len(frames[Main]) = 1 /\ Top(Main).rest = <<>>
  /\ program' = Tail(program)
  /\ frames' = [frames EXCEPT ![Main] = <<Frame(Global, <<Head(program)>>, NoLoad)>>]
  /\ failed' = [failed EXCEPT ![Main] = FALSE]
  /\ UNCHANGED <<envs, origin, registry, stuck, assigning, extVars, phase, next, errors, worker,
                 outcome>>

-----------------------------------------------------------------------------
(* PARALLEL, in the program's thread. *)

Functions == Statement(Main).functions

CallParallel ==
  /\ phase = "off" /\ Ready(Main) /\ Statement(Main).op = "parallel"
  /\ Len(Functions) \in 0..MaxWorkers
  /\ IF NoFunction \in ToSet(Functions)
     THEN Raise(Main) /\ UNCHANGED <<phase, next, errors, worker, outcome>>
     ELSE /\ phase' = "start" /\ next' = 1
          /\ errors' = [w \in Workers |-> None]
          /\ worker' = [w \in Workers |-> "none"]
          /\ outcome' = Pending
          /\ UNCHANGED <<frames, failed>>
  /\ UNCHANGED <<program, envs, origin, registry, stuck, assigning, extVars>>

\* A worker starts with its parent's modules, or does not start.
StartWorker ==
  /\ phase = "start" /\ next <= Len(Functions)
  /\ next' = next + 1
  /\ \/ /\ worker' = [worker EXCEPT ![next] = "bind"]
        /\ registry' = [registry EXCEPT ![next] = registry[Main]]
        /\ UNCHANGED errors
     \/ /\ StartCanFail
        /\ worker' = [worker EXCEPT ![next] = "unstarted"]
        /\ errors' = [errors EXCEPT ![next] = Error(next, 0)]
        /\ UNCHANGED registry
  /\ UNCHANGED <<program, phase, outcome, envs, origin, frames, failed, stuck, assigning,
                 extVars>>

AllStarted ==
  /\ phase = "start" /\ next > Len(Functions)
  /\ phase' = "join" /\ next' = 1
  /\ UNCHANGED <<program, errors, worker, outcome, extVars, modVars>>

\* Mutant of Joinable: a worker that has left an error need not be waited for.
JoinableOnError(w) == worker[w] = "done" \/ \E v \in Workers : errors[v] # None

Joinable(w) == worker[w] = "done"

Join ==
  /\ phase = "join" /\ next <= Len(Functions) /\ Joinable(next)
  /\ next' = next + 1
  /\ UNCHANGED <<program, phase, errors, worker, outcome, extVars, modVars>>

\* The handle of a thread that was not started has no value: joining it may do nothing,
\* wait for ever or crash.
JoinUnstarted ==
  /\ phase = "join" /\ next <= Len(Functions) /\ worker[next] = "unstarted" /\ ~stuck[Main]
  /\ \/ next' = next + 1 /\ UNCHANGED stuck
     \/ stuck' = [stuck EXCEPT ![Main] = TRUE] /\ UNCHANGED next
  /\ UNCHANGED <<program, phase, errors, worker, outcome, extVars, envs, origin, registry,
                 frames, failed, assigning>>

FirstError == LET left == {w \in Workers : errors[w] # None}
              IN IF left = {} THEN None
                 ELSE errors[CHOOSE w \in left : \A v \in left : w <= v]

\* An error without a line is raised at the line of the PARALLEL.
Located(e) == IF e # None /\ e.line = 0 THEN [e EXCEPT !.line = CallLine] ELSE e

EndParallel ==
  /\ phase = "join" /\ next > Len(Functions)
  /\ phase' = "off"
  /\ outcome' = Located(FirstError)
  /\ IF FirstError = None THEN Proceed(Main) ELSE Raise(Main)
  /\ UNCHANGED <<program, next, errors, worker, extVars, envs, origin, registry, stuck,
                 assigning>>

-----------------------------------------------------------------------------
(* A worker. *)

Running(w) == worker[w] \in {"bind", "run"}

\* Does the default of a parameter give a value of its type?
Binds(p) == p.default = p.type \/ (p.coerced /\ Coercible(p.default, p.type))

\* The arguments: none is given, so every parameter takes its default.
BindParameters(w) ==
  LET f == Functions[w]
      bad == {i \in DOMAIN f.params : f.params[i].default \in {NoDefault, Failing}
                                        \/ ~Binds(f.params[i])}
      first == f.params[CHOOSE i \in bad : \A j \in bad : i <= j]
      call == [NewEnv(Global, NoName, NoName) EXCEPT !.entries =
                 [i \in DOMAIN f.params |-> Entry(<<f.params[i].name>>, f.params[i].type, TRUE)]]
  IN /\ worker[w] = "bind"
     /\ IF bad # {}
        THEN /\ errors' = [errors EXCEPT ![w] =
                  Error(w, IF first.default = Failing THEN BodyLine ELSE 0)]
             /\ worker' = [worker EXCEPT ![w] = "done"]
             /\ registry' = [registry EXCEPT ![w] = <<>>]
             /\ UNCHANGED <<envs, origin, frames, failed>>
        ELSE /\ envs' = Append(envs, call) /\ origin' = Append(origin, Missing)
             /\ frames' = [frames EXCEPT ![w] = <<Frame(Len(envs'), f.body, NoLoad)>>]
             /\ failed' = [failed EXCEPT ![w] = FALSE]
             /\ worker' = [worker EXCEPT ![w] = "run"]
             /\ UNCHANGED <<errors, registry>>
     /\ UNCHANGED <<program, phase, next, outcome, stuck, assigning, extVars>>

\* Mutant of Ended: a worker whose body failed does not come to its end.
EndedWell(w) ==
  worker[w] = "run" /\ Busy(w) /\ Len(frames[w]) = 1 /\ Top(w).rest = <<>> /\ ~failed[w]

\* The function's body is over, with an error or without.
Ended(w) == worker[w] = "run" /\ Busy(w) /\ Len(frames[w]) = 1 /\ Top(w).rest = <<>>

\* The interpreter of a worker is freed with the list of what it registered.
EndWorker(w) ==
  /\ Ended(w)
  /\ errors' = IF failed[w] THEN [errors EXCEPT ![w] = Error(w, BodyLine)] ELSE errors
  /\ worker' = [worker EXCEPT ![w] = "done"]
  /\ frames' = [frames EXCEPT ![w] = <<>>]
  /\ registry' = [registry EXCEPT ![w] = <<>>]
  /\ failed' = [failed EXCEPT ![w] = FALSE]
  /\ UNCHANGED <<program, phase, next, outcome, envs, origin, stuck, assigning, extVars>>

-----------------------------------------------------------------------------

ParentStep == CallParallel \/ StartWorker \/ AllStarted \/ Join \/ JoinUnstarted \/ EndParallel

WorkerStep(w) == BindParameters(w) \/ EndWorker(w)

Execute(a) == ModuleStep(a) /\ UNCHANGED parVars

Next ==
  \/ NextStatement
  \/ ParentStep
  \/ \E w \in Workers : WorkerStep(w)
  \/ \E a \in Actors : Execute(a)

\* The thread is in the middle of a statement, or has another or an import to end.
CanExecute(a) ==
  \/ assigning[a] # NotAssigning
  \/ extending[a] # Idle
  \/ Ready(a) /\ Statement(a).op # "parallel"
  \/ Busy(a) /\ Len(frames[a]) > 1

\* The operating system runs every thread that can go on.
Fairness ==
  /\ WF_vars(ParentStep)
  /\ \A w \in Workers : WF_vars(WorkerStep(w))
  /\ \A a \in Actors : []<>~CanExecute(a) \/ []<><<Execute(a)>>_vars

Spec == Init /\ [][Next]_vars /\ Fairness

-----------------------------------------------------------------------------
(* Properties. *)

\* A thread has ended an import without an error.
Completed(a) ==
  /\ Len(frames[a]) > 1 /\ Len(frames'[a]) = Len(frames[a]) - 1
  /\ ~failed'[a]

\* A thread has one environment for each file, whatever names, aliases and paths it
\* imports it by, and whatever it inherits: module_register and the cache key of import.
OneEnvPerFile ==
  \A a \in Actors : \A i, j \in DOMAIN registry[a] :
    origin[registry[a][i].env] = origin[registry[a][j].env]
      => registry[a][i].env = registry[a][j].env

\* When an import returns, the module's body has been executed to its end in the
\* environment and the caller has each of its names, even if an earlier import failed
\* in the middle of the body or another thread is executing it: __MODULE_LOADED__.
ImportComplete ==
  [][\A a \in Actors : Completed(a) =>
       LET load == Top(a).load
           e == frames'[a][Len(frames'[a])].env
           prefix == IF load.call.op = "include" THEN <<>> ELSE <<Alias(load.call)>>
       IN load.file \in Files /\ Readable(load.file) /\ origin[load.env] = load.file =>
            \A i \in DOMAIN Body(load.file) :
              LET s == Body(load.file)[i]
              IN s.op = "assign" => Holder(envs', e, prefix \o <<s.name>>) # 0]_vars

\* An assignment that raises no error leaves the name declared with its type, though
\* another thread declares it between the lookup and the definition (STMT_ASSIGN).
AssignmentTyped ==
  [][\A a \in Actors :
       assigning[a].step = "assign" /\ assigning'[a] = NotAssigning /\ ~failed'[a] =>
         LET h == Holder(envs', Top(a).env, <<Statement(a).name>>)
         IN h # 0 /\ TypeOf(envs', h, <<Statement(a).name>>) = Statement(a).type]_vars

TaskStatus(w) ==
  CASE worker[w] = "none" -> "none"
    [] Running(w) -> "running"
    [] OTHER -> IF errors[w] = None THEN "ok" ELSE "failed"

WorkerErrors(w) == {Error(w, BodyLine), Error(w, CallLine)}

\* PARALLEL waits for the workers it has started, whatever they import, declare or leave
\* unstarted, and fails exactly if one of them has, with the error of the first of
\* these and that one's line.
FJ == INSTANCE ForkJoin WITH
  MaxTasks <- MaxWorkers, Limit <- MaxWorkers,
  Errors <- WorkerErrors,
  NoError <- None, LimitError <- Error(MaxWorkers + 1, CallLine),
  status <- [w \in Workers |-> TaskStatus(w)],
  error <- [w \in Workers |-> Located(errors[w])],
  result <- outcome

ForkJoinSpec == FJ!Spec

\* PARALLEL returns, unless a worker or the parent itself is stuck for ever.
ParallelReturns ==
  phase = "start" ~> (phase = "off" \/ \E a \in Actors : stuck[a])

=============================================================================
