------------------------------- MODULE Parfor -------------------------------
(***************************************************************************)
(* One parfor statement: the interpreter thread that launches an iteration *)
(* per number, joins them and gives the statement's result, and the worker *)
(* of each iteration, which executes the body in an environment of its own *)
(* and merges the symbols declared there into the enclosing environment.   *)
(*                                                                         *)
(* An env_* call is one step (module NsBuffer).  What a body does is its   *)
(* outcome and the symbols it leaves in the iteration's environment.       *)
(***************************************************************************)
EXTENDS Naturals, Sequences, FiniteSets

CONSTANTS
  MaxN,           \* bound: iterations
  MaxIterations,  \* max_iterations (100000 in the code)
  MaxBreak,       \* bound: the argument of break
  Names,          \* symbols bodies declare
  Types, Unknown, \* declared types, and TYPE_UNKNOWN
  Locals,         \* the environments a body can leave, in order of declaration
  Nobody,         \* no iteration
  Absent          \* no binding

Iterations == 1..MaxN

NoName == "counter"    \* the loop counter, which is never merged

\* An entry is declared and perhaps initialized, or is an alias of another.
Entries == {e \in [name : Names, type : Types \cup {Unknown}, init : BOOLEAN,
                   target : Names \cup {NoName, ""}] : e.name # e.target}

ASSUME LocalsAssumption == Locals \subseteq Seq(Entries)

ASSUME ParforAssumption ==
  /\ MaxN \in Nat /\ MaxIterations \in Nat /\ MaxBreak \in Nat \ {0}
  /\ Unknown \notin Types /\ Nobody \notin Iterations
  /\ NoName \notin Names /\ "" \notin Names /\ IsFiniteSet(Names)

Outcomes == [status : {"ok", "continue", "return", "error"}, count : {0}]
              \cup [status : {"break"}, count : 1..MaxBreak]

Clean == [status |-> "ok", count |-> 0]    \* what calloc gives the arrays

VARIABLES
  n,           \* the value of the target
  lpc,         \* where the launching thread is
  next,        \* the iteration it launches next
  result,      \* the statement's result
  stopLaunch,  \* stop_launch
  wpc,         \* where each iteration's worker is
  outcome,     \* how its body ended
  todo,        \* the entries of its environment it has yet to merge
  report,      \* statuses, break_counts and errors
  mergeLock,   \* the owner of g_parfor_merge_lock
  parent,      \* the enclosing environment: each name's type, alias target and whose it is
  late,        \* history: the iterations created after stop_launch was set
  left         \* history: the environments the bodies left

vars == <<n, lpc, next, result, stopLaunch, wpc, outcome, todo, report, mergeLock,
          parent, late, left>>

launcher == <<n, lpc, next, result, late>>

Bound == [type : Types, by : Iterations \cup {Nobody}, target : Names \cup {""}]

\* A binding is not what stands for none.
ASSUME AbsentAssumption == Absent \notin Bound

Results == Outcomes \cup [status : {"error"}, count : Iterations] \cup {Nobody}
             \cup [status : {"limit"}, count : {0}]

Init ==
  /\ n \in 0..MaxN
  /\ lpc = "check" /\ next = 1 /\ result = Nobody
  /\ stopLaunch = FALSE
  /\ wpc = [i \in Iterations |-> "none"]
  /\ outcome = [i \in Iterations |-> Clean]
  /\ todo = [i \in Iterations |-> <<>>]
  /\ report = [i \in Iterations |-> Clean]
  /\ mergeLock = Nobody
  /\ parent = [x \in Names |-> Absent]
  /\ late = {} /\ left = [i \in Iterations |-> <<>>]

-----------------------------------------------------------------------------
(* The launching thread. *)

\* Is there another iteration, and was none of the others broken?
CheckStop ==
  /\ lpc = "check"
  /\ lpc' = IF next > n \/ stopLaunch THEN "join"
            ELSE IF next > MaxIterations THEN "limit" ELSE "create"
  /\ UNCHANGED <<n, next, result, stopLaunch, wpc, outcome, todo, report, mergeLock,
                 parent, late, left>>

\* Too many iterations: everything is freed, and nobody joined.
Limit ==
  /\ lpc = "limit"
  /\ lpc' = "done"
  /\ result' = [status |-> "limit", count |-> 0]
  /\ UNCHANGED <<n, next, stopLaunch, wpc, outcome, todo, report, mergeLock, parent,
                 late, left>>

\* thrd_create succeeds, or fails and that is the iteration's error.
Create ==
  /\ lpc = "create"
  /\ \/ /\ wpc' = [wpc EXCEPT ![next] = "start"]
        /\ late' = IF stopLaunch THEN late \cup {next} ELSE late
        /\ UNCHANGED report
     \/ /\ report' = [report EXCEPT ![next].status = "error"]
        /\ UNCHANGED <<wpc, late>>
  /\ next' = next + 1
  /\ lpc' = "check"
  /\ UNCHANGED <<n, result, stopLaunch, outcome, todo, mergeLock, parent, left>>

Started == {i \in Iterations : wpc[i] # "none"}

Join ==
  /\ lpc = "join"
  /\ \A i \in Started : wpc[i] = "ended"
  /\ lpc' = "collect"
  /\ UNCHANGED <<n, next, result, stopLaunch, wpc, outcome, todo, report, mergeLock,
                 parent, late, left>>

Reported(status) == {i \in Iterations : report[i].status = status}

First(S) == CHOOSE i \in S : \A j \in S : i <= j

\* Mutant of Collect: a break hides the errors.
CollectBreakFirst ==
  /\ lpc = "collect"
  /\ lpc' = "done"
  /\ result' = CASE Reported("break") # {} -> Clean
                 [] Reported("error") # {} ->
                      [status |-> "error", count |-> First(Reported("error"))]
                 [] OTHER -> Clean
  /\ UNCHANGED <<n, next, stopLaunch, wpc, outcome, todo, report, mergeLock, parent,
                 late, left>>

\* The first error, or else what is left of the first break, or else success.
Collect ==
  /\ lpc = "collect"
  /\ lpc' = "done"
  /\ result' =
       IF Reported("error") # {}
       THEN [status |-> "error", count |-> First(Reported("error"))]
       ELSE IF Reported("break") # {} /\ report[First(Reported("break"))].count > 1
            THEN [status |-> "break", count |-> report[First(Reported("break"))].count - 1]
            ELSE Clean
  /\ UNCHANGED <<n, next, stopLaunch, wpc, outcome, todo, report, mergeLock, parent,
                 late, left>>

-----------------------------------------------------------------------------
(* The worker of iteration i. *)

Goto(i, loc) == wpc' = [wpc EXCEPT ![i] = loc]

\* Mutant of Start: stop_launch is not looked at.
StartAnyway(i) ==
  /\ wpc[i] = "start"
  /\ Goto(i, "body")
  /\ UNCHANGED <<launcher, stopLaunch, outcome, todo, report, mergeLock, parent, left>>

\* An iteration that finds stop_launch set skips the body.
Start(i) ==
  /\ wpc[i] = "start"
  /\ Goto(i, IF stopLaunch THEN "lock" ELSE "body")
  /\ UNCHANGED <<launcher, stopLaunch, outcome, todo, report, mergeLock, parent, left>>

EndBody(i) ==
  /\ wpc[i] = "body"
  /\ \E o \in Outcomes, l \in Locals :
       /\ outcome' = [outcome EXCEPT ![i] = o]
       /\ todo' = [todo EXCEPT ![i] = l]
       /\ left' = [left EXCEPT ![i] = l]
       /\ Goto(i, CASE o.status = "break" -> "record"
                    [] o.status = "error" -> "report"
                    [] OTHER -> "lock")
  /\ UNCHANGED <<launcher, stopLaunch, report, mergeLock, parent>>

RecordBreak(i) ==
  /\ wpc[i] = "record"
  /\ stopLaunch' = TRUE
  /\ Goto(i, "lock")
  /\ UNCHANGED <<launcher, outcome, todo, report, mergeLock, parent, left>>

\* Mutant of LockMerge: iterations merge at the same time.
LockNothing(i) ==
  /\ wpc[i] = "lock"
  /\ Goto(i, "merge")
  /\ UNCHANGED <<launcher, stopLaunch, outcome, todo, report, mergeLock, parent, left>>

LockMerge(i) ==
  /\ wpc[i] = "lock"
  /\ mergeLock = Nobody
  /\ mergeLock' = i
  /\ Goto(i, "merge")
  /\ UNCHANGED <<launcher, stopLaunch, outcome, todo, report, parent, left>>

Skipped(i) == todo' = [todo EXCEPT ![i] = Tail(@)] /\ UNCHANGED wpc

\* env_get_entry: a symbol without a declared type, or known to the enclosing
\* environment, is not merged.
MergeLook(i) ==
  /\ wpc[i] = "merge" /\ todo[i] # <<>> /\ Head(todo[i]).target = ""
  /\ IF Head(todo[i]).type = Unknown \/ parent[Head(todo[i]).name] # Absent
     THEN Skipped(i)
     ELSE Goto(i, "define") /\ UNCHANGED todo
  /\ UNCHANGED <<launcher, stopLaunch, outcome, report, mergeLock, parent, left>>

\* env_define, which does nothing to an existing binding.
MergeDefine(i) ==
  /\ wpc[i] = "define"
  /\ LET e == Head(todo[i]) IN
       /\ parent' = IF parent[e.name] # Absent THEN parent
                    ELSE [parent EXCEPT ![e.name] =
                            [type |-> e.type, by |-> Nobody, target |-> ""]]
       /\ IF e.init THEN Goto(i, "assign") /\ UNCHANGED todo
          ELSE Goto(i, "merge") /\ todo' = [todo EXCEPT ![i] = Tail(@)]
  /\ UNCHANGED <<launcher, stopLaunch, outcome, report, mergeLock, left>>

\* Mutant of MergeFails: g_parfor_merge_lock is not released.
MergeFailsLocked(i) ==
  /\ outcome' = [outcome EXCEPT ![i] = [status |-> "error", count |-> 0]]
  /\ Goto(i, "report")
  /\ UNCHANGED <<mergeLock, todo, parent>>

\* A failed merge is the iteration's error.
MergeFails(i) ==
  /\ outcome' = [outcome EXCEPT ![i] = [status |-> "error", count |-> 0]]
  /\ mergeLock' = Nobody
  /\ Goto(i, "report")
  /\ UNCHANGED <<todo, parent>>

\* env_assign, which fails when the binding has another type.
MergeAssign(i) ==
  /\ wpc[i] = "assign"
  /\ LET e == Head(todo[i]) IN
       IF parent[e.name].type = e.type
       THEN /\ parent' = [parent EXCEPT ![e.name].by = i]
            /\ todo' = [todo EXCEPT ![i] = Tail(@)]
            /\ Goto(i, "merge")
            /\ UNCHANGED <<outcome, mergeLock>>
       ELSE MergeFails(i)
  /\ UNCHANGED <<launcher, stopLaunch, report, left>>

\* The chain of aliases of the enclosing environment leads from x, but not by name, to y.
LeadsTo(x, y, name) ==
  \E chain \in [0..Cardinality(Names) -> {z \in Names \ {name} : parent[z] # Absent}] :
    /\ chain[0] = x /\ chain[Cardinality(Names)] = y /\ parent[y].target = ""
    /\ \A k \in 1..Cardinality(Names) :
         chain[k] = IF parent[chain[k - 1]].target = "" THEN chain[k - 1]
                    ELSE parent[chain[k - 1]].target

AliasTargets(e) ==
  {y \in Names : LeadsTo(e.target, y, e.name) /\ e.type \in {Unknown, parent[y].type}}

\* env_set_alias, which fails when the enclosing environment lacks the target or has
\* it with another type, or on a cycle, and replaces what the name has there.
MergeAlias(i) ==
  /\ wpc[i] = "merge" /\ todo[i] # <<>> /\ Head(todo[i]).target # ""
  /\ LET e == Head(todo[i]) IN
       \/ \E y \in AliasTargets(e) :
            /\ parent' = [parent EXCEPT ![e.name] =
                            [type |-> parent[y].type, by |-> i, target |-> y]]
            /\ Skipped(i)
            /\ UNCHANGED <<outcome, mergeLock>>
       \/ AliasTargets(e) = {} /\ MergeFails(i)
  /\ UNCHANGED <<launcher, stopLaunch, report, left>>

UnlockMerge(i) ==
  /\ wpc[i] = "merge" /\ todo[i] = <<>>
  /\ mergeLock' = Nobody
  /\ Goto(i, "report")
  /\ UNCHANGED <<launcher, stopLaunch, outcome, todo, report, parent, left>>

\* The worker writes its slots of the arrays and ends.
Report(i) ==
  /\ wpc[i] = "report"
  /\ report' = [report EXCEPT ![i] = outcome[i]]
  /\ Goto(i, "ended")
  /\ UNCHANGED <<launcher, stopLaunch, outcome, todo, mergeLock, parent, left>>

-----------------------------------------------------------------------------
LauncherStep == CheckStop \/ Limit \/ Create \/ Join \/ Collect

WorkerStep(i) ==
  \/ Start(i) \/ EndBody(i) \/ RecordBreak(i) \/ LockMerge(i) \/ MergeLook(i)
  \/ MergeDefine(i) \/ MergeAssign(i) \/ MergeAlias(i) \/ UnlockMerge(i) \/ Report(i)

Next == LauncherStep \/ \E i \in Iterations : WorkerStep(i)

Spec == Init /\ [][Next]_vars

\* Threads are scheduled, a mutex is not withheld for ever, and bodies end.
Fairness ==
  /\ WF_vars(LauncherStep)
  /\ \A i \in Iterations : WF_vars(WorkerStep(i)) /\ SF_vars(LockMerge(i))

FairSpec == Spec /\ Fairness

-----------------------------------------------------------------------------
(* Properties. *)

\* Types; the break a statement passes on to the surrounding loops is of at least one.
TypeOK ==
  /\ n \in 0..MaxN
  /\ lpc \in {"check", "limit", "create", "join", "collect", "done"}
  /\ next \in 1..(MaxN + 1)
  /\ result \in Results
  /\ stopLaunch \in BOOLEAN
  /\ wpc \in [Iterations -> {"none", "start", "body", "record", "lock", "merge", "define",
                            "assign", "report", "ended"}]
  /\ outcome \in [Iterations -> Outcomes] /\ report \in [Iterations -> Outcomes]
  /\ todo \in [Iterations -> Seq(Entries)] /\ left \in [Iterations -> Seq(Entries)]
  /\ parent \in [Names -> Bound \cup {Absent}]
  /\ late \subseteq Iterations
  /\ mergeLock \in Iterations \cup {Nobody}

Done == lpc = "done"

\* The statement is over and had no more than max_iterations.
Over == Done /\ result.status # "limit"

\* The error of an iteration that could not be created, failed or could not be merged.
IterationError(i) == [status |-> "error", count |-> i]
IterationErrors(i) == {IterationError(i)}

Failed(i) == i < next /\ (wpc[i] = "none" \/ (wpc[i] = "ended" /\ outcome[i].status = "error"))

TaskStatus(i) ==
  CASE i >= next -> "none"
    [] i < next /\ Failed(i) -> "failed"
    [] i < next /\ ~Failed(i) /\ wpc[i] = "ended" -> "ok"
    [] OTHER -> "running"

\* A break that is passed on, or nothing, is no error.
StatementError ==
  IF ~Done THEN [status |-> "pending", count |-> 0]
  ELSE IF result.status \in {"error", "limit"} THEN result ELSE Clean

\* "Runtime errors raised inside a parfor iteration MUST be collected and re-raised
\* after all iterations have joined": whatever the order in which iterations end, and
\* whatever breaks they met, the statement waits for those it has started and fails
\* exactly when an iteration did, with the first one's error.  Only at the limit it does
\* not wait.
FJ == INSTANCE ForkJoin WITH
  MaxTasks <- MaxN, Limit <- MaxIterations,
  Errors <- IterationErrors,
  NoError <- Clean,
  LimitError <- [status |-> "limit", count |-> 0],
  Pending <- [status |-> "pending", count |-> 0],
  status <- [i \in Iterations |-> TaskStatus(i)],
  error <- [i \in Iterations |-> IF Failed(i) THEN IterationError(i) ELSE Clean],
  result <- StatementError

ForkJoinSpec == FJ!Spec

\* break(n) prevents new iterations from starting: one that was created in spite of a
\* break, by a launcher that had looked before it, executes and merges nothing.
LateIterationsSkip ==
  \A i \in late : wpc[i] # "body" /\ left[i] = <<>>

\* The iteration's environment binds x to a value.
Leaves(i, x) ==
  \E k \in DOMAIN left[i] :
    LET e == left[i][k] IN e.name = x /\ e.target = "" /\ e.type # Unknown /\ e.init

\* Iterations merge one after the other: two names that two iterations both bind to
\* values are not taken one from each.
MergesWhole ==
  Over =>
    \A i, j \in Iterations, x, y \in Names :
      /\ i # j /\ x # y
      /\ \A k \in {i, j} : /\ outcome[k].status # "error"
                           /\ Leaves(k, x) /\ Leaves(k, y)
      /\ \A z \in {x, y} : parent[z] # Absent /\ parent[z].target = ""
      => ~ (parent[x].by = i /\ parent[y].by = j)

\* The statement ends if the bodies do.
ParforReturns == (lpc = "check") ~> Done

=============================================================================
